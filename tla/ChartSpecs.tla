----------------------------- MODULE ChartSpecs -----------------------------
(***************************************************************************)
(* Chart specifications: the shared schema (schemas/chart.py) and the two  *)
(* gates a generated one passes, the semantic path (ai/nl_chart) and the   *)
(* inline dataset path (ai/insights/suggestion_validator.py).              *)
(***************************************************************************)
EXTENDS SemanticLayer

\* A query draws from an inline dataset request or from metric references.
HasSource(query) == query.inline # None \/ query.metric_refs # {}

\* Only tables, numbers and gauges do without an x; the matrix charts also
\* need a second dimension and exactly one series.
EncodingFits(type, encoding) ==
    /\ encoding.series # {}
    /\ type \notin {"table", "number", "gauge"} => encoding.x # None
    /\ type \in {"heatmap", "sankey"} => /\ encoding.breakdown # {}
                                         /\ Cardinality(encoding.series) = 1

\* The strict schema: no field of its own invention, and the shared rules.
StrictlyValid(spec) ==
    /\ ~spec.extra
    /\ HasSource(spec.query)
    /\ EncodingFits(spec.type, spec.encoding)

\* The names a generated chart may use.
ChartGrounding(meta) == [metrics |-> LowerAll(meta.measures), dimensions |-> LowerAll(meta.dimensions)]

\* The text is a JSON object (bare, fenced or within prose) that is a strict
\* spec of the semantic path, and names governed members only.
ValidateChartSpec(text, allowed) ==
    LET metrics == LowerAll(text.query.metric_refs)
    IN  IF /\ text.json
           /\ StrictlyValid(text)
           /\ text.query.inline = None
           /\ text.query.dataset = None
           /\ metrics # {}
           /\ metrics \subseteq allowed.metrics
           /\ LowerAll(text.encoding.series) \subseteq metrics
           /\ text.encoding.x # None => Lower(text.encoding.x) \in allowed.dimensions
        THEN {Return(text)}
        ELSE {Raise("ChartValidationError")}

\* The data of a chart: its metric references over its x, laid out as x and
\* the series.  A column that Cube did not return is filled with nulls.
ResolveChart(spec) ==
    LET x == IF spec.encoding.x = None THEN {} ELSE {spec.encoding.x}
    IN  Then(CubeQuery(spec.query.metric_refs, x, None),
             LAMBDA t : {Return([spec |-> spec, rows |-> t.rows,
                                 columns |-> x \cup spec.encoding.series,
                                 null |-> (x \cup spec.encoding.series) \ t.columns])})

\* A metric is named by its alias.  The validator takes function_0 for a
\* metric without one, whatever its place (the SQL numbers it by its place).
ValidatorAlias(m) == IF m.alias # None THEN Lower(m.alias) ELSE m.function \o "_0"

SuggestionValid(s, columns, dataset) ==
    LET q == s.spec.query
        known == LowerAll(columns)
    IN  /\ s.titled
        /\ StrictlyValid(s.spec)
        /\ q.metric_refs = {}
        /\ q.inline # None
        /\ q.dataset = dataset
        /\ LowerAll(q.inline.dimensions) \subseteq known
        /\ \A m \in q.inline.metrics : m.column # None => Lower(m.column) \in known
        /\ s.spec.encoding.x # None => Lower(s.spec.encoding.x) \in known
        /\ LowerAll(s.spec.encoding.series) \subseteq {ValidatorAlias(m) : m \in q.inline.metrics}

\* What does not pass is dropped; the rest is what the caller gets.
ValidateSuggestions(raw, columns, dataset) ==
    {s \in raw : SuggestionValid(s, columns, dataset)}
=============================================================================
