--------------------------- MODULE MCQueryCompile ---------------------------
(* A small instance of QueryCompile for TLC. *)
EXTENDS QueryCompile, SequencesExt

CONSTANTS d1, d2, m1, m2, x1, n1, v1, t1, f1

(* A manifest as ads_daily: two dimensions, a sum and a ratio over it. *)
Ads == [version |-> 1, connector |-> "postgres", kind |-> "table_function",
        identifier |-> <<n1, n1>>, dimensions |-> {d1, d2},
        filterOperators |-> [f \in Field |-> IF f = d1 THEN {"eq", "in", "contains", "isNull"}
                                             ELSE {"eq", "between"}],
        metrics |-> [f \in Field |->
           CASE f = m1 -> [type |-> "sum", numerator |-> None, denominator |-> None]
             [] f = m2 -> [type |-> "ratio", numerator |-> m1, denominator |-> m1]
             [] OTHER -> None],
        defaultRows |-> 2, maxRows |-> 3]

Manifests == {
    Ads,
    [Ads EXCEPT !.kind = "table", !.identifier = <<n1>>, !.defaultRows = 5],
    [Ads EXCEPT !.metrics[m2].denominator = x1],   \* a ratio of an unknown metric
    [Ads EXCEPT !.metrics[m2].type = "other"],
    [Ads EXCEPT !.kind = "view"],
    [Ads EXCEPT !.identifier = <<n1, None>>],
    [Ads EXCEPT !.identifier = <<n1, n1, n1>>],
    [Ads EXCEPT !.connector = None],
    [Ads EXCEPT !.version = 2]}

Single(op, v) == [field |-> d1, op |-> op, array |-> FALSE, value |-> <<v>>]

Array(field, op, values) == [field |-> field, op |-> op, array |-> TRUE, value |-> values]

Filters == {Single("eq", v1), Single("contains", v1), Single("isNull", t1),
            Single("isNull", f1), Single("isNull", v1), Single("in", v1),
            [Single("eq", t1) EXCEPT !.field = d2], [Single("eq", v1) EXCEPT !.field = x1],
            Array(d1, "in", <<v1>>), Array(d1, "in", <<v1, t1>>), Array(d1, "in", <<>>),
            Array(d2, "between", <<v1, t1>>), Array(d2, "between", <<v1>>),
            Array(d1, "between", <<v1, t1>>)}

(* Up to three filters, with one choice of the rest. *)
Filtered == {[datasetKnown |-> TRUE, start |-> 1, end |-> 2, dimensions |-> <<d1>>,
              metrics |-> <<m1>>, filters |-> fs, sort |-> <<>>, limit |-> 0,
              offset |-> 0] : fs \in BoundedSeq(Filters, 3)}

(* Every choice of the rest, with one filter. *)
Others == [datasetKnown : BOOLEAN, start : {1, 2, None}, end : {1, None},
           dimensions : {<<>>, <<d1>>, <<d2, d1>>, <<x1>>},
           metrics : {<<>>, <<m1>>, <<m2, m1>>, <<x1>>},
           filters : {<<Single("eq", v1)>>},
           sort : {<<>>, <<[field |-> m1, direction |-> "desc"]>>,
                   <<[field |-> x1, direction |-> "asc"]>>,
                   <<[field |-> d2, direction |-> "other"]>>},
           limit : {-1, 0, 2, 9}, offset : {-1, 0, 7}]

Specs == Filtered \cup Others
=============================================================================
