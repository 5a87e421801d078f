------------------------- MODULE QueryCompileProofs -------------------------
(***************************************************************************)
(* The compiler's safety properties, for every manifest and specification, *)
(* whatever the number of filters.  CompiledSoFar is the loop's invariant: *)
(* the clauses emitted so far say what the first filters ask, and every    *)
(* argument so far is named by one of them.                                *)
(***************************************************************************)
EXTENDS QueryCompile, SequenceTheorems, TLAPS

WellShaped(f) == f.array \/ Len(f.value) = 1

Unfinished == {"starting", "exited", "serving", "received", "refused"}

(***************************************************************************)
(* With the arguments `a`, the predicate `w` asks what the filter f does.  *)
(***************************************************************************)
Means(w, f, a) ==
    /\ Shaped(f)
    /\ w.column = f.field
    /\ w.test = Test(f)
    /\ Len(w.at) = Len(Operands(f))
    /\ \A k \in 1 .. Len(w.at) : w.at[k] \in 1 .. Len(a) /\ a[w.at[k]] = Operands(f)[k]

FilterDone(i) == Means(statement.where[i], spec.filters[i], args)

NamedBy(i, n) == \E k \in 1 .. Len(statement.where[i].at) : statement.where[i].at[k] = n

CompiledSoFar ==
    /\ Len(args) >= 2
    /\ args[1] = Arg("date", <<spec.start>>) /\ args[2] = Arg("date", <<spec.end>>)
    /\ manifest.kind = "table_function" => statement.from = <<1, 2>>
    /\ Len(statement.where) <= Len(spec.filters)
    /\ \A i \in 1 .. Len(statement.where) : FilterDone(i)

AllNamed ==
    \A n \in 3 .. Len(args) :
        \/ \E i \in 1 .. Len(statement.where) : NamedBy(i, n)
        \/ stage = "compiled" /\ n \in {statement.limit, statement.offset}

Finished ==
    /\ Len(statement.where) = Len(spec.filters)
    /\ statement.limit \in 1 .. Len(args) /\ statement.offset \in 1 .. Len(args)
    /\ args[statement.limit] = Arg("rows", <<spec.limit>>)
    /\ args[statement.offset] = Arg("rows", <<spec.offset>>)

WhyFailed ==
    \/ \E i \in DOMAIN spec.metrics : ~metricSQL(spec.metrics[i])
    \/ \E i \in DOMAIN spec.filters : ~Shaped(spec.filters[i])

CompileInv ==
    /\ CompileTypeOK
    /\ \A i \in DOMAIN spec.filters : WellShaped(spec.filters[i])
    /\ stage \notin Unfinished => Valid(spec)
    /\ stage \in {"filters", "compiled"} => CompiledSoFar /\ AllNamed
    /\ stage = "compiled" => Finished
    /\ stage = "failed" => WhyFailed

-----------------------------------------------------------------------------
(***************************************************************************)
(* A sequence of values is one of arguments' values.                       *)
(***************************************************************************)
LEMMA SeqWiden ==
    ASSUME NEW S, NEW T, S \subseteq T, NEW s \in Seq(S)
    PROVE  s \in Seq(T)
OBVIOUS

LEMMA ArgType ==
    ASSUME NEW as \in {"date", "single", "array", "pattern", "rows"},
           NEW v, v \in Seq(Value) \/ v \in Seq(Int) \/ v \in Seq(Day)
    PROVE  Arg(as, v) \in Argument
<1>1. v \in Seq(Day \cup Value \cup Int)
  BY SeqWiden
<1> QED BY <1>1 DEF Arg, Argument

(***************************************************************************)
(* The arguments of a filter whose value has the shape its operator needs. *)
(***************************************************************************)
LEMMA OperandsType ==
    ASSUME NEW f \in Filter, WellShaped(f), Shaped(f)
    PROVE  Operands(f) \in Seq(Argument) /\ Len(Operands(f)) \in Nat
<1>1. f.value \in Seq(Value) /\ f.op \in Operator
  BY DEF Filter
<1>2. CASE f.op \in {"eq", "in", "contains"}
  <2>1. \A as \in {"single", "array", "pattern"} : Arg(as, f.value) \in Argument
    BY <1>1, ArgType
  <2>2. CASE f.op = "eq"
    <3>1. Operands(f) = <<Arg("single", f.value)>>
      BY <2>2 DEF Operands
    <3> QED BY <2>1, <3>1
  <2>3. CASE f.op = "in"
    <3>1. Operands(f) = <<Arg("array", f.value)>>
      BY <2>3 DEF Operands
    <3> QED BY <2>1, <3>1
  <2>4. CASE f.op = "contains"
    <3>1. Operands(f) = <<Arg("pattern", f.value)>>
      BY <2>4 DEF Operands
    <3> QED BY <2>1, <3>1
  <2> QED BY <1>2, <2>2, <2>3, <2>4
<1>3. CASE f.op = "between"
  <2>1. f.value[1] \in Value /\ f.value[2] \in Value
    BY <1>1, <1>3 DEF Shaped
  <2>2. <<f.value[1]>> \in Seq(Value) /\ <<f.value[2]>> \in Seq(Value)
    BY <2>1
  <2>3. Arg("single", <<f.value[1]>>) \in Argument /\ Arg("single", <<f.value[2]>>) \in Argument
    BY <2>2, ArgType
  <2>4. Operands(f) = <<Arg("single", <<f.value[1]>>), Arg("single", <<f.value[2]>>)>>
    BY <1>3 DEF Operands
  <2> QED BY <2>3, <2>4
<1>4. CASE f.op = "isNull"
  BY <1>4 DEF Operands
<1> QED BY <1>1, <1>2, <1>3, <1>4 DEF Operator

LEMMA PlaceholdersType ==
    ASSUME NEW f \in Filter, WellShaped(f), Shaped(f), NEW sofar \in Seq(Argument)
    PROVE  /\ Placeholders(f, sofar) \in Seq(Nat)
           /\ Len(Placeholders(f, sofar)) = Len(Operands(f))
           /\ \A k \in 1 .. Len(Operands(f)) : Placeholders(f, sofar)[k] = Len(sofar) + k
<1>1. Operands(f) \in Seq(Argument) /\ Len(Operands(f)) \in Nat
  BY OperandsType
<1>2. DOMAIN Operands(f) = 1 .. Len(Operands(f)) /\ Len(sofar) \in Nat
  BY <1>1
<1> QED BY <1>1, <1>2 DEF Placeholders

LEMMA RowsInt ==
    ASSUME manifest \in Manifest, NEW limit \in Int
    PROVE  Rows(limit) \in Int
BY ManifestAssumption DEF Rows, ManifestRow

LEMMA NormalizedFields ==
    ASSUME manifest \in Manifest, NEW s \in QuerySpec
    PROVE  /\ Normalized(s) \in QuerySpec
           /\ Normalized(s).filters = s.filters
           /\ Normalized(s).limit = Rows(s.limit)
           /\ Valid(s) => Valid(Normalized(s))
<1>1. s.limit \in Int /\ Rows(s.limit) \in Int
  BY RowsInt DEF QuerySpec
<1>2. Normalized(s) \in QuerySpec
  BY <1>1 DEF Normalized, QuerySpec
<1>3. /\ Normalized(s).limit = Rows(s.limit)
      /\ Normalized(s).filters = s.filters /\ Normalized(s).datasetKnown = s.datasetKnown
      /\ Normalized(s).start = s.start /\ Normalized(s).end = s.end
      /\ Normalized(s).dimensions = s.dimensions /\ Normalized(s).metrics = s.metrics
      /\ Normalized(s).sort = s.sort /\ Normalized(s).offset = s.offset
  BY DEF Normalized, QuerySpec
<1>4. Valid(s) => Valid(Normalized(s))
  BY <1>3 DEF Valid, Dates
<1> QED BY <1>2, <1>3, <1>4

-----------------------------------------------------------------------------
(***************************************************************************)
(* The steps.                                                              *)
(***************************************************************************)
LEMMA EarlySteps ==
    ASSUME CompileInv,
           \/ NewService \/ Validate \/ Answer
           \/ \E s \in Spec : Request(s)
    PROVE  CompileInv'
<1>1. manifest' = manifest /\ manifest \in Manifest /\ spec \in QuerySpec
      /\ args \in Seq(Argument) /\ statement \in Statement
  BY DEF NewService, Validate, Answer, Request, CompileInv, CompileTypeOK
<1>2. CASE NewService
  BY <1>1, <1>2 DEF NewService, CompileInv, CompileTypeOK, Unfinished
<1>3. ASSUME NEW s \in Spec, Request(s)
      PROVE  CompileInv'
  <2>1. spec' = s /\ s \in QuerySpec /\ \A i \in DOMAIN s.filters : WellShaped(s.filters[i])
    BY <1>3, SpecAssumption DEF Request, WellShaped
  <2> QED BY <1>1, <1>3, <2>1 DEF Request, CompileInv, CompileTypeOK, Unfinished
<1>4. CASE Validate
  <2>1. CASE Valid(spec)
    <3>1. spec' = Normalized(spec) /\ stage' = "valid" /\ UNCHANGED <<args, statement>>
      BY <1>4, <2>1 DEF Validate
    <3>2. spec' \in QuerySpec /\ spec'.filters = spec.filters /\ Valid(spec')
      BY <1>1, <2>1, <3>1, NormalizedFields
    <3>3. Valid(spec)'
      BY <1>1, <3>2 DEF Valid, Dimension, Metric, Dates
    <3> QED BY <1>1, <3>1, <3>2, <3>3 DEF CompileInv, CompileTypeOK
  <2>2. CASE ~Valid(spec)
    BY <1>1, <1>4, <2>2 DEF Validate, CompileInv, CompileTypeOK, Unfinished
  <2> QED BY <2>1, <2>2
<1>5. CASE Answer
  <2>1. NoSpec \in QuerySpec /\ NoSpec.filters = <<>>
    BY DEF NoSpec, QuerySpec
  <2>2. Blank \in Statement
    BY DEF Blank, Statement
  <2> QED BY <1>1, <1>5, <2>1, <2>2 DEF Answer, CompileInv, CompileTypeOK, Unfinished
<1> QED BY <1>2, <1>3, <1>4, <1>5

LEMMA SelectInv ==
    ASSUME CompileInv, Select
    PROVE  CompileInv'
<1>1. /\ manifest \in Manifest /\ spec \in QuerySpec /\ args \in Seq(Argument)
      /\ statement \in Statement /\ Valid(spec) /\ stage = "valid"
      /\ UNCHANGED <<manifest, spec>>
  BY DEF Select, CompileInv, CompileTypeOK, Unfinished
<1>2. Valid(spec)' /\ \A i \in DOMAIN spec'.filters : WellShaped(spec'.filters[i])
  BY <1>1 DEF Valid, Dimension, Metric, Dates, CompileInv
<1>3. CASE ~\A i \in DOMAIN spec.metrics : metricSQL(spec.metrics[i])
  <2>1. stage' = "failed" /\ UNCHANGED <<args, statement>>
    BY <1>3 DEF Select
  <2>2. WhyFailed'
    BY <1>1, <1>3 DEF WhyFailed, metricSQL, Parts, Metric
  <2> QED BY <1>1, <1>2, <2>1, <2>2 DEF CompileInv, CompileTypeOK
<1>4. CASE \A i \in DOMAIN spec.metrics : metricSQL(spec.metrics[i])
  <2>1. /\ stage' = "filters"
        /\ args' = <<Arg("date", <<spec.start>>), Arg("date", <<spec.end>>)>>
        /\ statement' = [Blank EXCEPT
             !.select = spec.dimensions \o spec.metrics,
             !.from = IF manifest.kind = "table_function" THEN <<1, 2>> ELSE <<>>,
             !.group = IF spec.metrics # <<>> THEN spec.dimensions ELSE <<>>]
    BY <1>4 DEF Select
  <2>2. spec.start \in Day /\ spec.end \in Day
    BY <1>1 DEF Valid, Dates
  <2>3. <<spec.start>> \in Seq(Day) /\ <<spec.end>> \in Seq(Day)
    BY <2>2
  <2>4. Arg("date", <<spec.start>>) \in Argument /\ Arg("date", <<spec.end>>) \in Argument
    BY <2>3, ArgType
  <2>5. args' \in Seq(Argument) /\ Len(args') = 2
        /\ args'[1] = Arg("date", <<spec.start>>) /\ args'[2] = Arg("date", <<spec.end>>)
    BY <2>1, <2>4
  <2>6. spec.dimensions \o spec.metrics \in Seq(Field) /\ spec.dimensions \in Seq(Field)
    BY <1>1 DEF QuerySpec
  <2>7. /\ statement' \in Statement /\ statement'.where = <<>>
        /\ statement'.from = IF manifest.kind = "table_function" THEN <<1, 2>> ELSE <<>>
    <3>1. Blank \in Statement /\ Blank.where = <<>>
      BY DEF Blank, Statement
    <3>2. <<1, 2>> \in Seq(Nat) /\ <<>> \in Seq(Nat) /\ <<>> \in Seq(Field)
      OBVIOUS
    <3> QED BY <2>1, <2>6, <3>1, <3>2 DEF Statement
  <2>8. CompiledSoFar'
    <3>1. Len(spec.filters) \in Nat
      BY <1>1 DEF QuerySpec
    <3> QED BY <1>1, <2>5, <2>7, <3>1 DEF CompiledSoFar, Arg
  <2>9. AllNamed'
    BY <2>5 DEF AllNamed
  <2> QED BY <1>1, <1>2, <2>1, <2>5, <2>7, <2>8, <2>9 DEF CompileInv, CompileTypeOK
<1> QED BY <1>3, <1>4

(***************************************************************************)
(* What holds of the filters emitted so far holds as arguments are added.  *)
(***************************************************************************)
LEMMA MeansStays ==
    ASSUME NEW w, NEW f, NEW a \in Seq(Argument), NEW more \in Seq(Argument), Means(w, f, a)
    PROVE  Means(w, f, a \o more)
<1>1. \A n \in 1 .. Len(a) : n \in 1 .. Len(a \o more) /\ (a \o more)[n] = a[n]
  OBVIOUS
<1> QED BY <1>1 DEF Means

LEMMA AddFilterInv ==
    ASSUME CompileInv, AddFilter
    PROVE  CompileInv'
<1>1. /\ manifest \in Manifest /\ spec \in QuerySpec /\ args \in Seq(Argument)
      /\ statement \in Statement /\ Valid(spec) /\ stage = "filters"
      /\ UNCHANGED <<manifest, spec>> /\ CompiledSoFar /\ AllNamed
      /\ Len(statement.where) < Len(spec.filters)
  BY DEF AddFilter, CompileInv, CompileTypeOK, Unfinished
<1>2. Valid(spec)' /\ \A i \in DOMAIN spec'.filters : WellShaped(spec'.filters[i])
  BY <1>1 DEF Valid, Dimension, Metric, Dates, CompileInv
<1>3. spec.filters \in Seq(Filter) /\ statement.where \in Seq(Predicate)
  BY <1>1 DEF QuerySpec, Statement
<1>4. PICK m \in DOMAIN spec.filters : m = Len(statement.where) + 1
  BY <1>1, <1>3
<1>5. PICK f \in Filter : f = spec.filters[m] /\ WellShaped(f)
  BY <1>3, <1>4 DEF CompileInv
<1>6. CASE ~Shaped(f)
  <2>1. stage' = "failed" /\ UNCHANGED <<args, statement>>
    BY <1>4, <1>5, <1>6 DEF AddFilter
  <2>2. WhyFailed'
    BY <1>1, <1>4, <1>5, <1>6 DEF WhyFailed, Shaped
  <2> QED BY <1>1, <1>2, <2>1, <2>2 DEF CompileInv, CompileTypeOK
<1>7. CASE Shaped(f)
  <2>. DEFINE row == [column |-> f.field, test |-> Test(f), at |-> Placeholders(f, args)]
  <2>1. /\ stage' = "filters" /\ args' = args \o Operands(f)
        /\ statement' = [statement EXCEPT !.where = Append(statement.where, row)]
    BY <1>1, <1>4, <1>5, <1>7 DEF AddFilter
  <2>2. Operands(f) \in Seq(Argument) /\ Len(Operands(f)) \in Nat
    BY <1>5, <1>7, OperandsType
  <2>3. /\ Placeholders(f, args) \in Seq(Nat)
        /\ Len(Placeholders(f, args)) = Len(Operands(f))
        /\ \A k \in 1 .. Len(Operands(f)) : Placeholders(f, args)[k] = Len(args) + k
    BY <1>1, <1>5, <1>7, PlaceholdersType
  <2>4. PICK w \in Predicate : /\ w = row /\ w.column = f.field /\ w.test = Test(f)
                             /\ w.at = Placeholders(f, args)
    <3>1. Test(f) \in Operator \cup {"isNotNull"} /\ f.field \in Field
      BY DEF Test, Filter, Operator
    <3>2. row \in Predicate
      BY <2>3, <3>1 DEF Predicate
    <3>3. row.column = f.field /\ row.test = Test(f) /\ row.at = Placeholders(f, args)
      OBVIOUS
    <3> HIDE DEF row
    <3> QED BY <3>2, <3>3
  <2>5. /\ statement' \in Statement /\ statement'.where = Append(statement.where, w)
        /\ statement'.from = statement.from
    <3>1. statement' = [statement EXCEPT !.where = Append(statement.where, w)]
      BY <2>1, <2>4
    <3>2. Append(statement.where, w) \in Seq(Predicate)
      BY <1>3, <2>4
    <3> HIDE DEF row
    <3> QED BY <1>1, <3>1, <3>2 DEF Statement
  <2>6. /\ Len(statement'.where) = m /\ statement'.where[m] = w
        /\ \A i \in 1 .. Len(statement.where) : statement'.where[i] = statement.where[i]
        /\ m \in Nat
    BY <1>3, <1>4, <2>4, <2>5
  <2>7. /\ args' \in Seq(Argument) /\ Len(args') = Len(args) + Len(Operands(f))
        /\ \A n \in 1 .. Len(args) : args'[n] = args[n]
        /\ \A k \in 1 .. Len(Operands(f)) : args'[Len(args) + k] = Operands(f)[k]
    BY <1>1, <2>1, <2>2
  <2>8. Means(w, f, args')
    <3>1. ASSUME NEW k \in 1 .. Len(Operands(f))
          PROVE  w.at[k] \in 1 .. Len(args') /\ args'[w.at[k]] = Operands(f)[k]
      <4>1. w.at[k] = Len(args) + k
        BY <2>3, <2>4
      <4>2. Len(args) \in Nat /\ k \in Nat
        BY <1>1, <2>2
      <4>3. Len(args) + k \in 1 .. Len(args')
        BY <2>2, <2>7, <4>2
      <4>4. args'[Len(args) + k] = Operands(f)[k]
        BY <2>7
      <4> QED BY <4>1, <4>3, <4>4
    <3> HIDE DEF row
    <3> QED BY <1>7, <2>3, <2>4, <3>1 DEF Means
  <2>9. \A i \in 1 .. Len(statement'.where) :
          Means(statement'.where[i], spec'.filters[i], args')
    <3>1. \A i \in 1 .. Len(statement.where) :
            Means(statement'.where[i], spec'.filters[i], args')
      <4> SUFFICES ASSUME NEW i \in 1 .. Len(statement.where)
                   PROVE  Means(statement.where[i], spec.filters[i], args \o Operands(f))
        BY <1>1, <2>1, <2>6
      <4>1. Means(statement.where[i], spec.filters[i], args)
        BY <1>1 DEF CompiledSoFar, FilterDone
      <4> QED BY <1>1, <2>2, <4>1, MeansStays
    <3>2. Means(statement'.where[m], spec'.filters[m], args')
      BY <1>1, <1>5, <2>6, <2>8
    <3>3. \A i \in 1 .. Len(statement'.where) : i \in 1 .. Len(statement.where) \/ i = m
      BY <1>3, <1>4, <2>6
    <3> QED BY <3>1, <3>2, <3>3
  <2>10. CompiledSoFar'
    <3>1. \A i \in 1 .. Len(statement'.where) : FilterDone(i)'
      BY <2>9 DEF FilterDone, Means
    <3>2. Len(statement'.where) <= Len(spec'.filters)
      BY <1>1, <1>3, <1>4, <2>6
    <3>3. Len(args') >= 2 /\ args'[1] = args[1] /\ args'[2] = args[2]
      BY <1>1, <2>1, <2>2, <2>7 DEF CompiledSoFar
    <3> QED BY <1>1, <2>5, <3>1, <3>2, <3>3 DEF CompiledSoFar, Arg
  <2>11. AllNamed'
    <3> SUFFICES ASSUME NEW n \in 3 .. Len(args')
                 PROVE  \E i \in 1 .. Len(statement'.where) : NamedBy(i, n)'
      BY DEF AllNamed
    <3>1. CASE n \in 3 .. Len(args)
      <4>1. PICK i \in 1 .. Len(statement.where) : NamedBy(i, n)
        BY <1>1, <3>1 DEF AllNamed
      <4>2. i \in 1 .. Len(statement'.where) /\ statement'.where[i] = statement.where[i]
        BY <1>3, <1>4, <2>6
      <4> QED BY <4>1, <4>2 DEF NamedBy
    <3>2. CASE n \notin 3 .. Len(args)
      <4>1. n - Len(args) \in 1 .. Len(Operands(f))
        BY <1>1, <2>2, <2>7, <3>2
      <4>2. w.at[n - Len(args)] = n
        <5>1. w.at[n - Len(args)] = Len(args) + (n - Len(args))
          BY <2>3, <2>4, <4>1
        <5> HIDE DEF row
        <5> QED BY <1>1, <5>1
      <4>3. NamedBy(m, n)'
        BY <2>3, <2>4, <2>6, <4>1, <4>2 DEF NamedBy
      <4>4. m \in 1 .. Len(statement'.where)
        BY <1>3, <1>4, <2>6
      <4> QED BY <4>3, <4>4
    <3> QED BY <3>1, <3>2
  <2> QED BY <1>1, <1>2, <2>1, <2>5, <2>7, <2>10, <2>11 DEF CompileInv, CompileTypeOK
<1> QED BY <1>6, <1>7

(***************************************************************************)
(* What is appended to the arguments stands behind them.                   *)
(***************************************************************************)
LEMMA Joined ==
    ASSUME NEW S, NEW s \in Seq(S), NEW t \in Seq(S)
    PROVE  /\ s \o t \in Seq(S) /\ Len(s) \in Nat
           /\ Len(s \o t) = Len(s) + Len(t)
           /\ \A n \in 1 .. Len(t) : (s \o t)[Len(s) + n] = t[n]
OBVIOUS

LEMMA LimitInv ==
    ASSUME CompileInv, Limit
    PROVE  CompileInv'
<1>. DEFINE more == <<Arg("rows", <<spec.limit>>), Arg("rows", <<spec.offset>>)>>
<1>1. /\ manifest \in Manifest /\ spec \in QuerySpec /\ args \in Seq(Argument)
      /\ statement \in Statement /\ Valid(spec) /\ stage = "filters" /\ stage' = "compiled"
      /\ UNCHANGED <<manifest, spec>> /\ CompiledSoFar /\ AllNamed
      /\ Len(statement.where) = Len(spec.filters)
      /\ args' = args \o more
      /\ statement' = [statement EXCEPT !.order = spec.sort,
                         !.limit = Len(args) + 1, !.offset = Len(args) + 2]
  BY DEF Limit, CompileInv, CompileTypeOK, Unfinished
<1>2. Valid(spec)' /\ \A i \in DOMAIN spec'.filters : WellShaped(spec'.filters[i])
  BY <1>1 DEF Valid, Dimension, Metric, Dates, CompileInv
<1>3. more \in Seq(Argument) /\ Len(more) = 2
      /\ more[1] = Arg("rows", <<spec.limit>>) /\ more[2] = Arg("rows", <<spec.offset>>)
  <2>1. <<spec.limit>> \in Seq(Int) /\ <<spec.offset>> \in Seq(Int)
    BY <1>1 DEF QuerySpec
  <2>2. Arg("rows", <<spec.limit>>) \in Argument /\ Arg("rows", <<spec.offset>>) \in Argument
    BY <2>1, ArgType
  <2> QED BY <2>2
<1> HIDE DEF more
<1>4. /\ args' \in Seq(Argument) /\ Len(args') = Len(args) + 2 /\ Len(args) \in Nat
      /\ args'[Len(args) + 1] = more[1] /\ args'[Len(args) + 2] = more[2]
      /\ \A n \in 1 .. Len(args) : args'[n] = args[n]
  <2>. args \in Seq(Argument) /\ more \in Seq(Argument)
    BY <1>1, <1>3
  <2>1. args \o more \in Seq(Argument) /\ Len(args) \in Nat
        /\ Len(args \o more) = Len(args) + Len(more)
    BY Joined
  <2>2. \A n \in 1 .. Len(more) : (args \o more)[Len(args) + n] = more[n]
    BY Joined
  <2>3. \A n \in 1 .. Len(args) : (args \o more)[n] = args[n]
    BY <1>1, <1>3
  <2>4. 1 \in 1 .. Len(more) /\ 2 \in 1 .. Len(more)
    BY <1>3
  <2> QED BY <1>1, <1>3, <2>1, <2>2, <2>3, <2>4
<1>5. /\ statement' \in Statement /\ statement'.where = statement.where
      /\ statement'.from = statement.from
      /\ statement'.limit = Len(args) + 1 /\ statement'.offset = Len(args) + 2
  <2>1. spec.sort \in Seq(Sort) /\ Len(args) + 1 \in Nat /\ Len(args) + 2 \in Nat
    BY <1>1, <1>4 DEF QuerySpec
  <2> QED BY <1>1, <2>1 DEF Statement
<1>6. CompiledSoFar'
  <2>1. ASSUME NEW i \in 1 .. Len(statement.where)
        PROVE  Means(statement'.where[i], spec'.filters[i], args')
    <3>1. Means(statement.where[i], spec.filters[i], args)
      BY <1>1 DEF CompiledSoFar, FilterDone
    <3>2. Means(statement.where[i], spec.filters[i], args \o more)
      BY <1>1, <1>3, <3>1, MeansStays
    <3> QED BY <1>1, <1>5, <3>2
  <2>2. Len(args') >= 2 /\ args'[1] = args[1] /\ args'[2] = args[2]
    BY <1>1, <1>4 DEF CompiledSoFar
  <2>3. \A i \in 1 .. Len(statement'.where) : FilterDone(i)'
    BY <1>5, <2>1 DEF FilterDone, Means
  <2> QED BY <1>1, <1>5, <2>2, <2>3 DEF CompiledSoFar, Arg
<1>7. AllNamed'
  <2> SUFFICES ASSUME NEW n \in 3 .. Len(args'), n \notin {statement'.limit, statement'.offset}
               PROVE  \E i \in 1 .. Len(statement'.where) : NamedBy(i, n)'
    BY <1>1 DEF AllNamed
  <2>1. n \in 3 .. Len(args)
    BY <1>4, <1>5
  <2>2. PICK i \in 1 .. Len(statement.where) : NamedBy(i, n)
    BY <1>1, <2>1 DEF AllNamed
  <2> QED BY <1>5, <2>2 DEF NamedBy
<1>8. Finished'
  BY <1>1, <1>3, <1>4, <1>5 DEF Finished, Arg
<1> QED BY <1>1, <1>2, <1>4, <1>5, <1>6, <1>7, <1>8 DEF CompileInv, CompileTypeOK

LEMMA CompileInvStep == CompileInv /\ [CompileNext]_compileVars => CompileInv'
<1> SUFFICES ASSUME CompileInv, [CompileNext]_compileVars PROVE CompileInv'
  OBVIOUS
<1>1. CASE UNCHANGED compileVars
  <2>1. UNCHANGED <<manifest, stage, spec, args, statement>>
    BY <1>1 DEF compileVars
  <2>2. CompileTypeOK' /\ (Valid(spec) => Valid(spec)') /\ (WhyFailed => WhyFailed')
    BY <2>1 DEF CompileInv, CompileTypeOK, Valid, Dimension, Metric, Dates, WhyFailed,
                metricSQL, Parts, Shaped
  <2>3. (Finished => Finished') /\ (AllNamed => AllNamed')
    BY <2>1 DEF Finished, AllNamed, NamedBy, Arg
  <2>4. CompiledSoFar => CompiledSoFar'
    <3>1. \A i : FilterDone(i) => FilterDone(i)'
      BY <2>1 DEF FilterDone, Means
    <3> QED BY <2>1, <3>1 DEF CompiledSoFar, Arg
  <2> QED BY <2>1, <2>2, <2>3, <2>4 DEF CompileInv, WellShaped
<1> QED BY <1>1, EarlySteps, SelectInv, AddFilterInv, LimitInv DEF CompileNext

THEOREM CompileInvariant == CompileSpec => []CompileInv
<1>1. CompileInit => CompileInv
  <2>1. NoSpec \in QuerySpec /\ NoSpec.filters = <<>>
    BY DEF NoSpec, QuerySpec
  <2>2. Blank \in Statement
    BY DEF Blank, Statement
  <2> QED BY <2>1, <2>2 DEF CompileInit, CompileInv, CompileTypeOK, Unfinished
<1> QED BY <1>1, CompileInvStep, PTL DEF CompileSpec

(***************************************************************************)
(* A request's state keeps its types, from the manifest to the statement.  *)
(***************************************************************************)
THEOREM CompilerTypes == CompileSpec => []CompileTypeOK
<1>1. CompileInv => CompileTypeOK
  BY DEF CompileInv
<1> QED BY <1>1, CompileInvariant, PTL

(***************************************************************************)
(* A finished statement asks what the specification asks, for any number   *)
(* of filters of any operators.                                            *)
(***************************************************************************)
THEOREM CompilerReadsBack == CompileSpec => []StatementReadsBack
<1>1. CompileInv => StatementReadsBack
  <2> SUFFICES ASSUME CompileInv, stage = "compiled"
               PROVE  /\ Len(statement.where) = Len(spec.filters)
                      /\ \A i \in DOMAIN spec.filters :
                           /\ statement.where[i].column = spec.filters[i].field
                           /\ statement.where[i].test = Test(spec.filters[i])
                           /\ Bound(statement.where[i].at) = Operands(spec.filters[i])
                      /\ args[1] = Arg("date", <<spec.start>>)
                      /\ args[2] = Arg("date", <<spec.end>>)
                      /\ args[statement.limit] = Arg("rows", <<spec.limit>>)
                      /\ args[statement.offset] = Arg("rows", <<spec.offset>>)
    BY DEF StatementReadsBack
  <2>1. CompiledSoFar /\ Finished /\ spec \in QuerySpec /\ statement \in Statement
    BY DEF CompileInv, CompileTypeOK
  <2>2. ASSUME NEW i \in DOMAIN spec.filters
        PROVE  /\ statement.where[i].column = spec.filters[i].field
               /\ statement.where[i].test = Test(spec.filters[i])
               /\ Bound(statement.where[i].at) = Operands(spec.filters[i])
    <3>1. spec.filters \in Seq(Filter) /\ statement.where \in Seq(Predicate)
      BY <2>1 DEF QuerySpec, Statement
    <3>2. i \in 1 .. Len(statement.where)
      BY <2>1, <3>1 DEF Finished
    <3>3. Means(statement.where[i], spec.filters[i], args)
      BY <2>1, <3>2 DEF CompiledSoFar, FilterDone
    <3>4. spec.filters[i] \in Filter /\ WellShaped(spec.filters[i]) /\ Shaped(spec.filters[i])
      BY <3>1, <3>3 DEF CompileInv, Means
    <3>5. Operands(spec.filters[i]) \in Seq(Argument)
      BY <3>4, OperandsType
    <3>6. statement.where[i].at \in Seq(Nat)
      <4>1. statement.where[i] \in Predicate
        BY <3>1, <3>2
      <4> QED BY <4>1 DEF Predicate
    <3>7. /\ DOMAIN statement.where[i].at = 1 .. Len(Operands(spec.filters[i]))
          /\ \A k \in 1 .. Len(Operands(spec.filters[i])) :
               args[statement.where[i].at[k]] = Operands(spec.filters[i])[k]
      BY <3>3, <3>6 DEF Means
    <3>8. Bound(statement.where[i].at) = [k \in 1 .. Len(Operands(spec.filters[i])) |->
                                            Operands(spec.filters[i])[k]]
      BY <3>7 DEF Bound
    <3>9. Operands(spec.filters[i]) = [k \in 1 .. Len(Operands(spec.filters[i])) |->
                                         Operands(spec.filters[i])[k]]
      BY <3>5
    <3> QED BY <3>3, <3>8, <3>9 DEF Means
  <2> QED BY <2>1, <2>2 DEF CompiledSoFar, Finished
<1> QED BY <1>1, CompileInvariant, PTL

(***************************************************************************)
(* A statement on a table function names every one of its parameters.      *)
(***************************************************************************)
THEOREM CompilerUsesParameters == CompileSpec => []ParametersUsed
<1>1. CompileInv => ParametersUsed
  <2> SUFFICES ASSUME CompileInv, stage = "compiled", manifest.kind = "table_function",
                      NEW n \in DOMAIN args
               PROVE  \/ \E k \in DOMAIN statement.from : statement.from[k] = n
                      \/ \E i \in DOMAIN statement.where :
                           \E k \in DOMAIN statement.where[i].at :
                             statement.where[i].at[k] = n
                      \/ n \in {statement.limit, statement.offset}
    BY DEF ParametersUsed
  <2>1. /\ statement \in Statement /\ args \in Seq(Argument)
        /\ statement.from = <<1, 2>> /\ AllNamed
    BY DEF CompileInv, CompileTypeOK, CompiledSoFar
  <2>2. n \in {1, 2} \/ n \in 3 .. Len(args)
    BY <2>1
  <2>3. CASE n \in {1, 2}
    BY <2>1, <2>3
  <2>4. ASSUME n \in 3 .. Len(args), NEW i \in 1 .. Len(statement.where), NamedBy(i, n)
        PROVE  i \in DOMAIN statement.where /\
               \E k \in DOMAIN statement.where[i].at : statement.where[i].at[k] = n
    <3>1. statement.where \in Seq(Predicate)
      BY <2>1 DEF Statement
    <3>2. i \in DOMAIN statement.where /\ statement.where[i] \in Predicate
      BY <3>1
    <3>3. statement.where[i].at \in Seq(Nat)
      BY <3>2 DEF Predicate
    <3> QED BY <2>4, <3>2, <3>3 DEF NamedBy
  <2>5. CASE n \in 3 .. Len(args)
    BY <2>1, <2>4, <2>5 DEF AllNamed
  <2> QED BY <2>2, <2>3, <2>5
<1> QED BY <1>1, CompileInvariant, PTL

(***************************************************************************)
(* The limits of a manifest for which normalising is stable.  The loader   *)
(* does not ask for them.                                                  *)
(***************************************************************************)
LimitsSane(m) == m.maxRows > 0 \/ m.defaultRows >= m.maxRows

(***************************************************************************)
(* The specification /query/validate returns is its own normal form.       *)
(***************************************************************************)
THEOREM CompilerNormalizes ==
    (\A m \in Manifest : LimitsSane(m)) => (CompileSpec => []NormalizedStable)
<1> SUFFICES ASSUME \A m \in Manifest : LimitsSane(m)
             PROVE  CompileSpec => []NormalizedStable
  OBVIOUS
<1>. DEFINE Normal == stage = "valid" => Normalized(spec) = spec
<1>1. CompileInit => Normal
  BY DEF CompileInit
<1>2. CompileInv /\ Normal /\ [CompileNext]_compileVars => Normal'
  <2> SUFFICES ASSUME CompileInv, Normal, [CompileNext]_compileVars, stage' = "valid"
               PROVE  (Normalized(spec) = spec)'
    OBVIOUS
  <2>1. manifest' = manifest /\ manifest \in Manifest /\ spec \in QuerySpec
    BY DEF CompileNext, NewService, Request, Validate, Select, AddFilter, Limit, Answer,
           compileVars, CompileInv, CompileTypeOK
  <2>2. CASE UNCHANGED compileVars
    BY <2>2 DEF compileVars, Normalized, Rows
  <2>3. CASE Validate
    <3>1. spec' = Normalized(spec)
      BY <2>3 DEF Validate
    <3>2. LimitsSane(manifest) /\ manifest.maxRows \in Int /\ manifest.defaultRows \in Int
      BY <2>1, ManifestAssumption DEF ManifestRow
    <3>3. Rows(Rows(spec.limit)) = Rows(spec.limit)
      BY <2>1, <3>2 DEF Rows, LimitsSane, QuerySpec
    <3>4. spec' \in QuerySpec /\ spec'.limit = Rows(spec.limit)
      BY <2>1, <3>1, NormalizedFields
    <3>5. [spec' EXCEPT !.limit = Rows(spec'.limit)] = spec'
      BY <3>3, <3>4 DEF QuerySpec
    <3> QED BY <2>1, <3>5 DEF Normalized, Rows
  <2> QED BY <2>2, <2>3 DEF CompileNext, NewService, Request, Select, AddFilter, Limit, Answer
<1>3. CompileInv /\ Normal => NormalizedStable
  BY DEF CompileInv, NormalizedStable, Unfinished
<1> QED BY <1>1, <1>2, <1>3, CompileInvariant, PTL DEF CompileSpec

(***************************************************************************)
(* What the editor lets pass and Validate accepts fails only for a metric  *)
(* that the manifest does not define properly.                             *)
(***************************************************************************)
THEOREM CompilerTakesReady == CompileSpec => []ReadyCompiles
<1>1. CompileInv => ReadyCompiles
  BY DEF CompileInv, WhyFailed, ReadyCompiles, chartDocumentReady, filterIsComplete, Shaped
<1> QED BY <1>1, CompileInvariant, PTL
=============================================================================
