-------------------------- MODULE Assistant_proofs --------------------------
(***************************************************************************)
(* What a caller of the AI endpoints may rely on, for any texts the model  *)
(* writes, any limits, any faults of the provider and of the services      *)
(* behind the tools, and any number of turns and tool calls.               *)
(*                                                                         *)
(* The invariant has a part per concern.  ReplyHolds: what each endpoint   *)
(* answers with is governed, from what its service returns.  TurnsHold and *)
(* LoopHolds: the transcript alternates and each turn's results answer its *)
(* calls in order.  SinksHold: the sinks list what the calls with a result *)
(* have made, in the order of the calls; a call's result comes after all   *)
(* those before it, so one more result appends one more value.             *)
(***************************************************************************)
EXTENDS Assistant, FiniteSetTheorems, SequenceTheorems, TLAPS

-----------------------------------------------------------------------------
(* What the services return.                                               *)

\* A raised exception is no value.
LEMMA RaiseRaises == ASSUME NEW e \in Exceptions PROVE ~Returned(Raise(e))
BY NoneIsNoException DEF Raise, Returned

LEMMA CubeErrorRaises == ASSUME NEW status PROVE ~Returned(CubeError(status))
<1>1. 403 # None
  BY NoneIsItself
<1>2. CubeError(status) \in {Raise("CubeAuthError"), Raise("Unexpected"), Raise("CubeQueryError")}
  <2>1. CASE status = 403
    BY <1>1, <2>1 DEF CubeError
  <2>2. CASE status # 403 /\ status = None
    BY <2>2 DEF CubeError
  <2>3. CASE status # 403 /\ status # None
    BY <2>3 DEF CubeError
  <2> QED
    BY <2>1, <2>2, <2>3
<1> QED
  BY <1>2, RaiseRaises DEF Exceptions

\* The catalogue the tools are grounded in is the governed one.
LEMMA MetaReturns ==
    ASSUME NEW meta \in Values(Meta)
    PROVE  meta = [measures |-> Measures, dimensions |-> Dimensions]
<1>1. PICK o \in Meta : Returned(o) /\ meta = o.val
  BY DEF Values
<1>2. o \notin CubeFailures
  BY <1>1, CubeErrorRaises DEF CubeFailures
<1> QED
  BY <1>1, <1>2 DEF Meta, Return

\* The rows of a query are cut to its limit.
LEMMA CubeReturns ==
    ASSUME NEW ms, NEW ds, NEW limit, NEW t \in Values(CubeQuery(ms, ds, limit))
    PROVE  /\ ms \subseteq Measures /\ ds \subseteq Dimensions
           /\ \E n \in CubeRows : t = [columns |-> ms \cup ds,
                                       rows |-> IF limit # None /\ n > limit THEN limit ELSE n]
<1>1. PICK o \in CubeQuery(ms, ds, limit) : Returned(o) /\ t = o.val
  BY DEF Values
<1>2. o \notin CubeFailures /\ o # CubeError(400)
  BY <1>1, CubeErrorRaises DEF CubeFailures
<1>3. ms \subseteq Measures /\ ds \subseteq Dimensions
  BY <1>2 DEF CubeQuery
<1>4. PICK n \in CubeRows : o = Return([columns |-> ms \cup ds,
                                        rows |-> IF limit # None /\ n > limit THEN limit ELSE n])
  BY <1>2, <1>3 DEF CubeQuery
<1> QED
  BY <1>1, <1>3, <1>4 DEF Return

LEMMA AdapterReturns ==
    ASSUME NEW texts, NEW t \in Values(Adapter(texts))
    PROVE  t \in texts
<1>1. PICK o \in Adapter(texts) : Returned(o) /\ t = o.val
  BY DEF Values
<1>2. \A f : Vendor(f).error \in {"LLMProviderError", "Unexpected"}
  BY DEF Vendor
<1>3. o \notin {Raise(Vendor(f).error) : f \in ProviderFaults}
  BY <1>1, <1>2, RaiseRaises DEF Exceptions
<1> QED
  BY <1>1, <1>3 DEF Adapter, Return

\* What a service reads of the model is one of the texts it may write.
LEMMA GenerateReturns ==
    ASSUME NEW template, NEW texts, NEW t \in Values(Generate(template, texts))
    PROVE  t \in texts
<1> DEFINE request == [model |-> None, max_tokens |-> None]
<1>1. PICK o \in Generate(template, texts) : Returned(o) /\ t = o.val
  BY DEF Values
<1>2. o \in Then(Complete(request, texts), LAMBDA a : {Return(a.text)})
  BY <1>1 DEF Generate, Then, Raised
<1>3. PICK a \in Values(Complete(request, texts)) : o = Return(a.text)
  BY <1>1, <1>2 DEF Then, Raised
<1>4. PICK c \in Complete(request, texts) : Returned(c) /\ a = c.val
  BY DEF Values
<1>5. PICK x \in Values(Adapter(texts)) : c = Return([text |-> x, model |-> Resolved(request).model])
  BY <1>4 DEF Complete, Then, Raised
<1> QED
  BY <1>1, <1>3, <1>4, <1>5, AdapterReturns DEF Return

-----------------------------------------------------------------------------
(* The services that generate.                                             *)

\* The SQL that ran names governed tables and has a LIMIT that opens with a number
\* within the cap; when it is that number alone, what it returns is capped.
GovernedAnswer(b) ==
    /\ \A t \in b.sql.tables : t.word \in GovernedTables /\ t.db \in {"", TenantDb}
    /\ WithinCap(b.sql.limit, MaxQueryRows) /\ ~b.sql.tail
    /\ b.rows \in Nat
    /\ IsPlain(b.sql.limit) => b.rows <= MaxQueryRows

LEMMA CapIsEnforced ==
    ASSUME NEW text \in SqlTexts, NEW sql \in Values(ValidateAndCap(text, MaxQueryRows))
    PROVE  /\ \A t \in sql.tables : t.word \in GovernedTables /\ t.db \in {"", TenantDb}
           /\ WithinCap(sql.limit, MaxQueryRows) /\ ~sql.tail
           /\ sql.limit.lets \in Nat
<1>1. PICK o \in ValidateAndCap(text, MaxQueryRows) : Returned(o) /\ sql = o.val
  BY DEF Values
<1>2. o # Raise("SQLValidationError") /\ o # Raise("Unexpected")
  BY <1>1, RaiseRaises DEF Exceptions
<1>3. o = Return(EnforceRowCap(text, MaxQueryRows)) /\ TablesGoverned(text.tables)
  BY <1>2 DEF ValidateAndCap
<1>4. /\ {"form", "tables", "limit", "tail"} \subseteq DOMAIN text
      /\ text.limit = None \/ text.limit \in [reads : Nat \cup {None}, lets : Nat]
      /\ MaxQueryRows \in Nat
  BY TextsAreParsed, LimitsAreNumbers
<1>5. sql = EnforceRowCap(text, MaxQueryRows)
  BY <1>1, <1>3 DEF Return
<1>6. /\ sql.tables = text.tables /\ sql.tail = FALSE
      /\ \/ WithinCap(text.limit, MaxQueryRows) /\ sql.limit = text.limit
         \/ sql.limit = Plain(MaxQueryRows)
  BY <1>4, <1>5 DEF EnforceRowCap
<1>7. Plain(MaxQueryRows).reads = MaxQueryRows /\ Plain(MaxQueryRows).lets = MaxQueryRows
  BY DEF Plain
<1>8. Plain(MaxQueryRows) # None
  BY NoneIsNoLimit
<1>9. WithinCap(sql.limit, MaxQueryRows) /\ sql.limit.lets \in Nat
  BY <1>4, <1>6, <1>7, <1>8 DEF WithinCap
<1> QED
  BY <1>3, <1>6, <1>9 DEF TablesGoverned

LEMMA SqlIsGoverned ==
    ASSUME NEW b \in Values(NlToSql)
    PROVE  GovernedAnswer(b)
<1>1. PICK o \in NlToSql : Returned(o) /\ b = o.val
  BY DEF Values
<1>2. o \in Then(Generate("nl_to_sql", SqlTexts),
                 LAMBDA text : Then(ValidateAndCap(text, MaxQueryRows), RunReadOnly))
  BY <1>1 DEF NlToSql, Then, Raised
<1>3. PICK text \in Values(Generate("nl_to_sql", SqlTexts)) :
         o \in Then(ValidateAndCap(text, MaxQueryRows), RunReadOnly)
  BY <1>1, <1>2 DEF Then, Raised
<1>4. PICK sql \in Values(ValidateAndCap(text, MaxQueryRows)) : o \in RunReadOnly(sql)
  BY <1>1, <1>3 DEF Then, Raised
<1>5. text \in SqlTexts
  BY GenerateReturns
<1>6. o # Raise("Unexpected")
  BY <1>1, RaiseRaises DEF Exceptions
<1>7. PICK n \in CubeRows :
         o = Return([sql |-> sql, rows |-> IF n > sql.limit.lets THEN sql.limit.lets ELSE n])
  BY <1>4, <1>6 DEF RunReadOnly
<1>8. b.sql = sql /\ b.rows = IF n > sql.limit.lets THEN sql.limit.lets ELSE n
  BY <1>1, <1>7 DEF Return
<1>9. /\ WithinCap(sql.limit, MaxQueryRows) /\ sql.limit.lets \in Nat
      /\ n \in Nat /\ MaxQueryRows \in Nat
  BY <1>5, CapIsEnforced, LimitsAreNumbers
<1>10. b.rows \in Nat /\ (IsPlain(b.sql.limit) => b.rows <= MaxQueryRows)
  BY <1>8, <1>9 DEF IsPlain, WithinCap
<1> QED
  BY <1>5, <1>8, <1>10, CapIsEnforced DEF GovernedAnswer

\* A chart asks for governed members and plots what it asks for.
GovernedChart(b) ==
    /\ b.spec.query.metric_refs \subseteq Measures
    /\ b.spec.encoding.x \in Dimensions \cup {None}
    /\ LowerAll(b.spec.encoding.series) \subseteq LowerAll(b.spec.query.metric_refs)

LEMMA ChartIsGoverned ==
    ASSUME NEW b \in Values(NlToChart)
    PROVE  GovernedChart(b)
<1>1. PICK o \in NlToChart : Returned(o) /\ b = o.val
  BY DEF Values
<1>2. PICK meta \in Values(Meta) :
         o \in Then(Generate("nl_to_chart", ChartTexts),
                    LAMBDA text : Then(ValidateChartSpec(text, ChartGrounding(meta)), ResolveChart))
  BY <1>1 DEF NlToChart, Then, Raised
<1>3. PICK text \in Values(Generate("nl_to_chart", ChartTexts)) :
         o \in Then(ValidateChartSpec(text, ChartGrounding(meta)), ResolveChart)
  BY <1>1, <1>2 DEF Then, Raised
<1>4. PICK spec \in Values(ValidateChartSpec(text, ChartGrounding(meta))) : o \in ResolveChart(spec)
  BY <1>1, <1>3 DEF Then, Raised
<1>5. LowerAll(spec.encoding.series) \subseteq LowerAll(spec.query.metric_refs)
  <2>1. PICK v \in ValidateChartSpec(text, ChartGrounding(meta)) : Returned(v) /\ spec = v.val
    BY DEF Values
  <2>2. v # Raise("ChartValidationError")
    BY <2>1, RaiseRaises DEF Exceptions
  <2>3. v = Return(text) /\ LowerAll(text.encoding.series) \subseteq LowerAll(text.query.metric_refs)
    BY <2>2 DEF ValidateChartSpec
  <2> QED
    BY <2>1, <2>3 DEF Return
<1>6. PICK x : x = IF spec.encoding.x = None THEN {} ELSE {spec.encoding.x}
  OBVIOUS
<1>7. PICK t \in Values(CubeQuery(spec.query.metric_refs, x, None)) :
         o = Return([spec |-> spec, rows |-> t.rows, columns |-> x \cup spec.encoding.series,
                     null |-> (x \cup spec.encoding.series) \ t.columns])
  BY <1>1, <1>4, <1>6 DEF ResolveChart, Then, Raised
<1>8. spec.query.metric_refs \subseteq Measures /\ x \subseteq Dimensions
  BY CubeReturns
<1>9. b.spec = spec
  BY <1>1, <1>7 DEF Return
<1> QED
  BY <1>5, <1>6, <1>8, <1>9 DEF GovernedChart

\* A structured query is capped and asks for governed members.
GovernedRows(b) ==
    /\ b.rows \in Nat /\ b.rows <= MaxQueryRows
    /\ \A c \in b.columns : c.form = "bucket" \/ c \in Measures \cup Dimensions

LEMMA RowsAreCapped ==
    ASSUME NEW limit \in Nat \cup {None}, NEW ms, NEW ds,
           NEW t \in Values(CubeQuery(ms, ds, ClampLimit(limit, MaxQueryRows)))
    PROVE  t.rows \in Nat /\ t.rows <= MaxQueryRows
<1> DEFINE clamped == ClampLimit(limit, MaxQueryRows)
<1>1. PICK n \in CubeRows : t = [columns |-> ms \cup ds,
                                 rows |-> IF clamped # None /\ n > clamped THEN clamped ELSE n]
  BY CubeReturns
<1>2. n \in Nat /\ MaxQueryRows \in Nat /\ MaxQueryRows # None
  BY LimitsAreNumbers, NoneIsItself
<1>3. clamped \in Nat /\ clamped # None /\ clamped <= MaxQueryRows
  <2>1. CASE limit = None
    BY <1>2, <2>1 DEF ClampLimit
  <2>2. CASE limit # None
    BY <1>2, <2>2 DEF ClampLimit
  <2> QED
    BY <2>1, <2>2
<1> HIDE DEF clamped
<1>4. t.rows = IF clamped # None /\ n > clamped THEN clamped ELSE n
  BY <1>1
<1> QED
  BY <1>2, <1>3, <1>4

LEMMA SemanticIsGoverned ==
    ASSUME NEW q \in SemanticRequests, NEW b \in Values(SemanticQuery(q))
    PROVE  GovernedRows(b)
<1> DEFINE found == CubeQuery(q.measures, q.dimensions, ClampLimit(q.limit, MaxQueryRows))
           keys == {ResultKey(td) : td \in q.time}
<1>1. PICK o \in SemanticQuery(q) : Returned(o) /\ b = o.val
  BY DEF Values
<1>2. PICK meta \in Values(Meta) :
         o \in (IF ~Grounded(q, meta) THEN {Raise("SemanticValidationError")}
                ELSE {IF Returned(c) THEN Return([c.val EXCEPT !.columns = @ \cup keys]) ELSE c :
                        c \in found})
  BY <1>1 DEF SemanticQuery, Then, Raised
<1>3. Grounded(q, meta)
  BY <1>1, <1>2, RaiseRaises DEF Exceptions
<1>4. PICK c \in found : o = IF Returned(c) THEN Return([c.val EXCEPT !.columns = @ \cup keys]) ELSE c
  BY <1>2, <1>3
<1>5. Returned(c)
  BY <1>1, <1>4
<1>6. c.val \in Values(found)
  BY <1>5 DEF Values
<1>7. PICK t : t = c.val
  OBVIOUS
<1>8. t \in Values(CubeQuery(q.measures, q.dimensions, ClampLimit(q.limit, MaxQueryRows)))
  BY <1>6, <1>7
<1>9. b = [t EXCEPT !.columns = @ \cup keys]
  BY <1>1, <1>4, <1>5, <1>7 DEF Return
<1>10. PICK n : t = [columns |-> q.measures \cup q.dimensions, rows |-> n]
  BY <1>8, CubeReturns
<1>11. b.columns = (q.measures \cup q.dimensions) \cup keys /\ b.rows = t.rows
  BY <1>9, <1>10
<1>12. q.measures \cup q.dimensions \subseteq Measures \cup Dimensions
  BY <1>8, CubeReturns
<1>13. \A k \in keys : k.form = "bucket" \/ k \in Dimensions
  <2>1. meta = [measures |-> Measures, dimensions |-> Dimensions]
    BY MetaReturns
  <2>2. meta.dimensions = Dimensions
    BY <2>1
  <2>3. ASSUME NEW td \in q.time
        PROVE  ResultKey(td).form = "bucket" \/ ResultKey(td) \in Dimensions
    <3>1. td.dimension \in Dimensions
      BY <1>3, <2>2 DEF Grounded
    <3> QED
      BY <3>1 DEF ResultKey
  <2> QED
    BY <2>3
<1>14. q.limit \in Nat \cup {None}
  BY LimitsAreNumbers
<1>15. b.rows \in Nat /\ b.rows <= MaxQueryRows
  BY <1>8, <1>11, <1>14, RowsAreCapped
<1> HIDE DEF keys
<1>16. ASSUME NEW k \in b.columns
       PROVE  k.form = "bucket" \/ k \in Measures \cup Dimensions
  BY <1>11, <1>12, <1>13, <1>16
<1> QED
  BY <1>15, <1>16 DEF GovernedRows

\* A suggestion names profiled columns of the dataset only.
GovernedSuggestions(suggestions, dataset) ==
    \A s \in suggestions :
        /\ s.spec.query.dataset = dataset
        /\ LowerAll(s.spec.query.inline.dimensions) \subseteq LowerAll(DatasetColumns[dataset])

LEMMA SuggestionsAreGoverned ==
    ASSUME NEW dataset, NEW kept \in Values(Suggest(dataset))
    PROVE  GovernedSuggestions(kept, dataset)
<1>1. PICK o \in Suggest(dataset) : Returned(o) /\ kept = o.val
  BY DEF Values
<1>2. dataset \in DOMAIN DatasetColumns
  BY <1>1, RaiseRaises DEF Suggest, Exceptions
<1>3. PICK columns \in Values(Profile(dataset)) :
         o \in Then(Generate("suggestions", SuggestionTexts),
                    LAMBDA raw : {Return(ValidateSuggestions(raw, columns, dataset))})
  BY <1>1, <1>2 DEF Suggest, Then, Raised
<1>4. PICK raw : o = Return(ValidateSuggestions(raw, columns, dataset))
  BY <1>1, <1>3 DEF Then, Raised
<1>5. columns = DatasetColumns[dataset]
  <2>1. PICK p \in Profile(dataset) : Returned(p) /\ columns = p.val
    BY DEF Values
  <2>2. p # Raise("Unexpected")
    BY <2>1, RaiseRaises DEF Exceptions
  <2> QED
    BY <2>1, <2>2 DEF Profile, Return
<1>6. kept = ValidateSuggestions(raw, columns, dataset)
  BY <1>1, <1>4 DEF Return
<1> QED
  BY <1>5, <1>6 DEF ValidateSuggestions, SuggestionValid, GovernedSuggestions

-----------------------------------------------------------------------------
(* The guardrail's arithmetic.                                             *)

\* Two numbers that round to one differ by one unit, ten tenths, at most.
LEMMA RoundingIsNear ==
    ASSUME NEW value \in Int, NEW ref \in Int, RoundUnits(ref) = RoundUnits(value)
    PROVE  Size(value - ref) <= 10
BY SMT DEF RoundUnits, Size

NearNumbers(summary, rows) ==
    \A t \in summary : t.form = "plain" =>
        \E i \in DOMAIN ShownRows(rows) : rows[i].numeric /\ Near(t.value, rows[i].value)

LEMMA ShownRowsAreRows ==
    ASSUME NEW rows \in ResultSets, NEW i \in DOMAIN ShownRows(rows)
    PROVE  i \in DOMAIN rows /\ ShownRows(rows)[i] = rows[i]
<1>1. Len(rows) \in Nat /\ rows = [j \in 1..Len(rows) |-> rows[j]] /\ MaxPromptRows \in Nat
  BY FiguresAreNumbers, LimitsAreNumbers
<1>2. PICK n \in Nat : n <= Len(rows) /\ ShownRows(rows) = SubSeq(rows, 1, n)
  BY <1>1 DEF ShownRows
<1>3. PICK len : len = Len(rows)
  OBVIOUS
<1>4. PICK S : S = {rows[j] : j \in 1..len}
  OBVIOUS
<1>5. rows \in [1..len -> S] /\ len \in Nat
  BY <1>1, <1>3, <1>4
<1>6. rows \in Seq(S)
  BY <1>5, SeqDef
<1>7. DOMAIN SubSeq(rows, 1, n) = 1..n /\ \A j \in 1..n : SubSeq(rows, 1, n)[j] = rows[j]
  BY <1>2, <1>6
<1> QED
  BY <1>1, <1>2, <1>7

LEMMA VerifiedIsNear ==
    ASSUME NEW rows \in ResultSets, NEW summary \in Summaries,
           NEW s \in Values(VerifyNoInventedNumbers(summary, ShownRows(rows)))
    PROVE  NearNumbers(s, rows)
<1>1. PICK o \in VerifyNoInventedNumbers(summary, ShownRows(rows)) : Returned(o) /\ s = o.val
  BY DEF Values
<1>2. o # Raise("InsightGuardrailError")
  BY <1>1, RaiseRaises DEF Exceptions
<1>3. /\ o = Return(summary)
      /\ \A v \in ExtractNumbers(summary) : IsTraceable(v, ReferenceValues(ShownRows(rows)))
  BY <1>2 DEF VerifyNoInventedNumbers
<1>4. s = summary
  BY <1>1, <1>3 DEF Return
<1>5. ASSUME NEW t \in summary, t.form = "plain"
      PROVE  \E i \in DOMAIN ShownRows(rows) : rows[i].numeric /\ Near(t.value, rows[i].value)
  <2>1. PICK v : v = t.value
    OBVIOUS
  <2>2. v \in ExtractNumbers(summary)
    BY <1>5, <2>1 DEF ExtractNumbers
  <2>3. PICK ref \in ReferenceValues(ShownRows(rows)) : \/ RoundUnits(ref) = RoundUnits(v)
                                                        \/ ScaledMatch(v, ref)
    BY <1>3, <2>2 DEF IsTraceable
  <2>4. PICK i \in DOMAIN ShownRows(rows) : ShownRows(rows)[i].numeric /\ ref = ShownRows(rows)[i].value
    BY <2>3 DEF ReferenceValues
  <2>5. i \in DOMAIN rows /\ rows[i].numeric /\ ref = rows[i].value
    BY <2>4, ShownRowsAreRows
  <2>6. ref \in Int /\ v \in Int
    BY <2>1, <2>5, FiguresAreNumbers
  <2>7. Near(v, ref)
    BY <2>3, <2>6, RoundingIsNear DEF Near, ScaledMatch
  <2> QED
    BY <2>1, <2>5, <2>7
<1> QED
  BY <1>4, <1>5 DEF NearNumbers

LEMMA SummaryIsNear ==
    ASSUME NEW rows \in ResultSets, NEW s \in Values(Summarise(rows))
    PROVE  NearNumbers(s, rows)
<1> DEFINE once == Then(Generate("insights", Summaries),
                        LAMBDA t : VerifyNoInventedNumbers(t, ShownRows(rows)))
<1>1. PICK o \in Summarise(rows) : Returned(o) /\ s = o.val
  BY DEF Values
<1>2. CASE rows = <<>>
  <2>1. o = Return({})
    BY <1>1, <1>2 DEF Summarise
  <2> QED
    BY <1>1, <2>1 DEF Return, NearNumbers
<1>3. CASE rows # <<>>
  <2>1. o \in once
    <3>1. o \in OrElse(once, "InsightGuardrailError", once)
      BY <1>1, <1>3 DEF Summarise
    <3> HIDE DEF once
    <3> QED
      BY <3>1 DEF OrElse
  <2>2. PICK t \in Values(Generate("insights", Summaries)) : o \in VerifyNoInventedNumbers(t, ShownRows(rows))
    BY <1>1, <2>1 DEF Then, Raised
  <2>3. t \in Summaries
    BY GenerateReturns
  <2>4. s \in Values(VerifyNoInventedNumbers(t, ShownRows(rows)))
    BY <1>1, <2>2 DEF Values
  <2> QED
    BY <2>3, <2>4, VerifiedIsNear
<1> QED
  BY <1>2, <1>3

-----------------------------------------------------------------------------
(* What an endpoint answers with status 200.                               *)

\* A reply without an error is a value of the service.
LEMMA RespondReturns ==
    ASSUME NEW S, NEW statuses, \A e \in DOMAIN statuses : statuses[e] # 200, NEW other, other # 200,
           NEW r \in Respond(S, statuses, other), r.status = 200
    PROVE  r.body \in Values(S)
<1>1. PICK o \in S :
        r = IF Returned(o) THEN [status |-> 200, body |-> o.val]
            ELSE [status |-> IF o.exc \in DOMAIN statuses THEN statuses[o.exc] ELSE other, body |-> None]
  BY DEF Respond
<1>2. CASE Returned(o)
  BY <1>1, <1>2 DEF Values
<1>3. CASE ~Returned(o)
  <2>1. r.status = IF o.exc \in DOMAIN statuses THEN statuses[o.exc] ELSE other
    BY <1>1, <1>3
  <2> QED
    BY <2>1
<1> QED
  BY <1>2, <1>3

LEMMA QueryAnswers ==
    ASSUME NEW r \in NlQuery, r.status = 200
    PROVE  GovernedAnswer(r.body)
<1> DEFINE statuses == [SQLValidationError |-> 422, CubeAuthError |-> 503,
                       CubeQueryError |-> 503, LLMProviderError |-> 503]
<1>2. \A e \in DOMAIN statuses : statuses[e] # 200
  OBVIOUS
<1>3. r \in Respond(NlToSql, statuses, 500)
  BY DEF NlQuery
<1> HIDE DEF statuses
<1> QED
  BY <1>2, <1>3, RespondReturns, SqlIsGoverned

LEMMA ChartAnswers ==
    ASSUME NEW r \in NlChart, r.status = 200
    PROVE  GovernedChart(r.body)
<1> DEFINE statuses == [ChartValidationError |-> 422, CubeAuthError |-> 503,
                       CubeQueryError |-> 503, LLMProviderError |-> 503]
<1>2. \A e \in DOMAIN statuses : statuses[e] # 200
  OBVIOUS
<1>3. r \in Respond(NlToChart, statuses, 500)
  BY DEF NlChart
<1> HIDE DEF statuses
<1> QED
  BY <1>2, <1>3, RespondReturns, ChartIsGoverned

LEMMA SemanticAnswers ==
    ASSUME NEW r \in QuerySemantic, r.status = 200
    PROVE  GovernedRows(r.body)
<1>1. PICK q \in SemanticRequests :
        r \in IF RequestValid(q) THEN Respond(SemanticQuery(q), SemanticStatuses, 500)
              ELSE {[status |-> 422, body |-> None]}
  BY DEF QuerySemantic
<1>2. r \in Respond(SemanticQuery(q), SemanticStatuses, 500)
  BY <1>1
<1>3. \A e \in DOMAIN SemanticStatuses : SemanticStatuses[e] # 200
  BY DEF SemanticStatuses
<1> QED
  BY <1>2, <1>3, RespondReturns, SemanticIsGoverned

LEMMA InsightAnswers ==
    ASSUME NEW r \in GenerateInsight, r.status = 200
    PROVE  NearNumbers(r.body.summary, r.body.rows)
<1> DEFINE statuses == [InsightGuardrailError |-> 422]
<1>2. PICK rows \in ResultSets : \E a \in Respond(Summarise(rows), statuses, 503) :
                                    r = [a EXCEPT !.body = [summary |-> @, rows |-> rows]]
  BY DEF GenerateInsight
<1>3. PICK a \in Respond(Summarise(rows), statuses, 503) :
                                    r = [a EXCEPT !.body = [summary |-> @, rows |-> rows]]
  BY <1>2
<1>4. a = [status |-> a.status, body |-> a.body]
  BY DEF Respond
<1>5. r.status = a.status /\ r.body = [summary |-> a.body, rows |-> rows]
  BY <1>3, <1>4
<1>6. \A e \in DOMAIN statuses : statuses[e] # 200
  OBVIOUS
<1> HIDE DEF statuses
<1>7. a.body \in Values(Summarise(rows))
  BY <1>5, <1>6, RespondReturns
<1>8. r.body.summary = a.body /\ r.body.rows = rows
  BY <1>5
<1> QED
  BY <1>7, <1>8, SummaryIsNear

LEMMA SuggestionAnswers ==
    ASSUME NEW r \in DatasetSuggestions, r.status = 200
    PROVE  GovernedSuggestions(r.body.suggestions, r.body.dataset)
<1> DEFINE statuses == [HTTPException |-> 404]
<1>2. PICK d : \E a \in Respond(Suggest(d), statuses, 503) :
                  r = [a EXCEPT !.body = [suggestions |-> @, dataset |-> d]]
  BY DEF DatasetSuggestions
<1>3. PICK a \in Respond(Suggest(d), statuses, 503) :
                  r = [a EXCEPT !.body = [suggestions |-> @, dataset |-> d]]
  BY <1>2
<1>4. a = [status |-> a.status, body |-> a.body]
  BY DEF Respond
<1>5. r.status = a.status /\ r.body = [suggestions |-> a.body, dataset |-> d]
  BY <1>3, <1>4
<1>6. \A e \in DOMAIN statuses : statuses[e] # 200
  OBVIOUS
<1> HIDE DEF statuses
<1>7. a.body \in Values(Suggest(d))
  BY <1>5, <1>6, RespondReturns
<1>8. r.body.suggestions = a.body /\ r.body.dataset = d
  BY <1>5
<1> QED
  BY <1>7, <1>8, SuggestionsAreGoverned

\* An MCP client is told of missing rows.
CappedRows(b) ==
    b.rows <= MaxToolRows /\ (b.truncated \/ b.rows = b.of)

LEMMA CapRowsCaps ==
    ASSUME NEW body, body.rows \in Nat
    PROVE  CappedRows(CapRows(body))
<1>1. PICK n \in Nat : n = body.rows
  OBVIOUS
<1>2. MaxToolRows \in Nat
  BY <1>1, LimitsAreNumbers
<1>3. CASE n > MaxToolRows
  <2>1. CapRows(body) = [rows |-> MaxToolRows, of |-> n, truncated |-> TRUE]
    BY <1>1, <1>3 DEF CapRows
  <2>2. CapRows(body).rows = MaxToolRows /\ CapRows(body).truncated = TRUE
    BY <2>1
  <2> QED
    BY <1>2, <1>3, <2>2 DEF CappedRows
<1>4. CASE ~(n > MaxToolRows)
  <2>0. PICK more : more = (body.rows > MaxToolRows)
    OBVIOUS
  <2>1. CapRows(body) = [rows |-> n, of |-> n, truncated |-> more]
    BY <1>1, <1>4, <2>0 DEF CapRows
  <2>2. CapRows(body).rows = n /\ CapRows(body).of = n
    BY <2>1
  <2> QED
    BY <1>2, <1>4, <2>2 DEF CappedRows
<1> QED
  BY <1>3, <1>4

-----------------------------------------------------------------------------
(* The inductive invariant.                                                *)

\* What a reply that is no error carries, by its endpoint.
ReplyHolds(q) ==
    q.status = 200 =>
        /\ q.kind = "query" => GovernedAnswer(q.body)
        /\ q.kind = "chart" => GovernedChart(q.body)
        /\ q.kind = "semantic" => GovernedRows(q.body)
        /\ q.kind = "suggestions" => GovernedSuggestions(q.body.suggestions, q.body.dataset)
        /\ q.kind = "mcp" => CappedRows(q.body)
        /\ q.kind = "insights" => NearNumbers(q.body.summary, q.body.rows)

IsList(s) == Len(s) \in Nat /\ s = [i \in 1..Len(s) |-> s[i]]

\* User and assistant take turns; a turn's results answer its calls, in order,
\* all of them unless the turn is the last.
TurnsHold ==
    /\ \A i \in DOMAIN messages :
          IF i % 2 = 1 THEN messages[i].role = "user" /\ messages[i].calls = <<>>
          ELSE /\ messages[i].role = "assistant" /\ messages[i].text \in BOOLEAN
               /\ IsList(messages[i].calls) /\ messages[i].calls # <<>>
               /\ \A j \in DOMAIN messages[i].calls : messages[i].calls[j].id = <<i - 1, j>>
    /\ \A k \in 1..(Len(messages) \div 2) :
          /\ IsList(ResultsOf(k))
          /\ IF 2 * k < Len(messages) THEN Len(ResultsOf(k)) = Len(messages[2 * k].calls)
             ELSE Len(ResultsOf(k)) < Len(messages[2 * k].calls)
          /\ \A j \in DOMAIN ResultsOf(k) : ResultsOf(k)[j].id = messages[2 * k].calls[j].id

\* The step of the loop, and what a request finds when it begins.
LoopHolds ==
    /\ pc \in {"idle", "model", "tools"} /\ kind \in LoopKinds \cup {None}
    /\ IsList(messages) /\ IsList(results) /\ IsList(used) /\ IsList(charts) /\ IsList(insights)
    /\ pc # "idle" => kind \in LoopKinds /\ reply = NoReply /\ messages # <<>>
    /\ messages # <<>> => (pc = "tools" <=> Len(messages) % 2 = 0)
    /\ messages # <<>> => messages[1].results = <<>>
    /\ pc # "tools" => results = <<>>
    /\ pc = "idle" /\ reply = NoReply =>
          kind = None /\ messages = <<>> /\ used = <<>> /\ charts = <<>> /\ insights = <<>>

\* The sinks list what the calls with a result have made.
SinksHold ==
    /\ IsFiniteSet(Answered) /\ Answered \subseteq Nat \X Nat
    /\ Lists(used, [c \in Answered |-> Called(c)])
    /\ Lists(charts, Contents(Made("nl_to_chart")))
    /\ Lists(insights, Contents(Made("summarize_insight")))
    /\ Made("nl_to_chart") # {} => Latest(Made("nl_to_chart")) # {}

AssistantInv == TurnsHold /\ LoopHolds /\ SinksHold /\ ReplyHolds(reply) /\ ReplyIsBacked

-----------------------------------------------------------------------------
(* Replies.                                                                *)

\* A one-shot endpoint's reply is governed.
LEMMA ServedHolds ==
    ASSUME NEW k \in DOMAIN OneShot, NEW r \in OneShot[k],
           NEW q, q.kind = k, q.status = r.status, q.body = r.body
    PROVE  ReplyHolds(q) /\ k \in ShotKinds
<1>1. k \in ShotKinds
  BY DEF OneShot, ShotKinds
<1>2. /\ k = "query" => r \in NlQuery
      /\ k = "chart" => r \in NlChart
      /\ k = "semantic" => r \in QuerySemantic
      /\ k = "insights" => r \in GenerateInsight
      /\ k = "suggestions" => r \in DatasetSuggestions
  BY DEF OneShot
<1> QED
  BY <1>1, <1>2, QueryAnswers, ChartAnswers, SemanticAnswers, InsightAnswers, SuggestionAnswers
  DEF ReplyHolds, ShotKinds

\* So is that of an MCP tool.
LEMMA McpHolds ==
    ASSUME NEW e \in {"query", "semantic"}, NEW r \in McpTool(e),
           NEW q, q.kind = "mcp", q.status = r.status, q.body = r.body
    PROVE  ReplyHolds(q)
<1> SUFFICES ASSUME r.status = 200
             PROVE  CappedRows(r.body)
  BY DEF ReplyHolds
<1>1. PICK a \in OneShot[e] : r = McpResult(a)
  <2>1. r # [status |-> 0, body |-> "missing token"] /\ r # [status |-> 0, body |-> "unreachable"]
    <3>1. ASSUME NEW b, r = [status |-> 0, body |-> b] PROVE FALSE
      <4>1. r.status = 0
        BY <3>1
      <4> QED
        BY <4>1
    <3> QED
      BY <3>1
  <2>2. r \in McpRequest(e)
    BY <2>1 DEF McpTool
  <2>3. r \in {McpResult(a) : a \in OneShot[e]}
    BY <2>1, <2>2 DEF McpRequest
  <2> QED
    BY <2>3
<1>2. a.status = 200 /\ r.body = CapRows(a.body)
  BY <1>1 DEF McpResult
<1>3. a.body.rows \in Nat
  <2>1. CASE e = "query"
    BY <1>2, <2>1, QueryAnswers DEF OneShot, GovernedAnswer
  <2>2. CASE e = "semantic"
    BY <1>2, <2>2, SemanticAnswers DEF OneShot, GovernedRows
  <2> QED
    BY <2>1, <2>2
<1> QED
  BY <1>2, <1>3, CapRowsCaps

LEMMA InvGoverned == ReplyHolds(reply) => AnswersAreGoverned /\ SummariesAreNear
<1> SUFFICES ASSUME ReplyHolds(reply) PROVE AnswersAreGoverned /\ SummariesAreNear
  OBVIOUS
<1>1. SummariesAreNear
  BY DEF SummariesAreNear, ReplyHolds, NearNumbers
<1>2. AnswersAreGoverned
  BY DEF AnswersAreGoverned, ReplyHolds, GovernedAnswer, GovernedChart, GovernedRows,
         GovernedSuggestions, CappedRows
<1> QED
  BY <1>1, <1>2

-----------------------------------------------------------------------------
(* Lists.                                                                  *)

\* Lists are sequences over their own elements.
LEMMA ListIsSeq ==
    ASSUME NEW s, IsList(s)
    PROVE  \E S : s \in Seq(S)
<1>1. PICK n \in Nat : n = Len(s)
  BY DEF IsList
<1>2. PICK S : S = {s[i] : i \in 1..n}
  OBVIOUS
<1>3. s \in [1..n -> S]
  BY <1>1, <1>2 DEF IsList
<1> QED
  BY <1>3, SeqDef

LEMMA Appended ==
    ASSUME NEW s, IsList(s), NEW v
    PROVE  /\ IsList(Append(s, v)) /\ DOMAIN s = 1..Len(s)
           /\ Len(Append(s, v)) = Len(s) + 1 /\ DOMAIN Append(s, v) = 1..(Len(s) + 1)
           /\ \A i \in 1..Len(s) : Append(s, v)[i] = s[i]
           /\ Append(s, v)[Len(s) + 1] = v
           /\ Append(s, v) # <<>>
<1>1. PICK S : s \in Seq(S)
  BY ListIsSeq
<1>2. PICK T : T = S \cup {v}
  OBVIOUS
<1>3. s \in Seq(T) /\ v \in T
  BY <1>1, <1>2
<1>4. PICK t : t = Append(s, v) /\ t \in Seq(T)
  BY <1>3, AppendProperties
<1>5. Len(t) = Len(s) + 1 /\ Len(s) \in Nat /\ DOMAIN t = 1..Len(t) /\ DOMAIN s = 1..Len(s)
  BY <1>3, <1>4
<1>6. \A i \in 1..Len(s) : t[i] = s[i]
  BY <1>3, <1>4
<1>7. t[Len(s) + 1] = v
  BY <1>3, <1>4
<1>8. t = [i \in 1..Len(t) |-> t[i]]
  BY <1>4, LenProperties
<1>9. t # <<>>
  BY <1>5
<1> QED
  BY <1>4, <1>5, <1>6, <1>7, <1>8, <1>9 DEF IsList

LEMMA EmptyIsList == IsList(<<>>) /\ Len(<<>>) = 0 /\ DOMAIN <<>> = {}
BY DEF IsList

LEMMA SingleIsList == ASSUME NEW v PROVE IsList(<<v>>) /\ Len(<<v>>) = 1 /\ <<v>>[1] = v /\ <<v>> # <<>>
BY DEF IsList

\* The calls are in one order.
LEMMA Ordered ==
    ASSUME NEW b \in Nat \X Nat, NEW c \in Nat \X Nat
    PROVE  /\ NotAfter(c, c) /\ NotAfter(b, c) \in BOOLEAN
           /\ NotAfter(b, c) /\ NotAfter(c, b) => b = c
<1>1. PICK b1 \in Nat, b2 \in Nat : b = <<b1, b2>>
  OBVIOUS
<1>2. PICK c1 \in Nat, c2 \in Nat : c = <<c1, c2>>
  OBVIOUS
<1> QED
  BY <1>1, <1>2 DEF NotAfter

\* A list that gets a value for a call after all others.
LEMMA ListsAppended ==
    ASSUME NEW s, IsList(s), NEW f, Lists(s, f), IsFiniteSet(DOMAIN f), DOMAIN f \subseteq Nat \X Nat,
           NEW new \in Nat \X Nat, \A c \in DOMAIN f : NotAfter(c, new) /\ ~NotAfter(new, c),
           NEW g, DOMAIN g = DOMAIN f \cup {new}, \A c \in DOMAIN f : g[c] = f[c]
    PROVE  Lists(Append(s, g[new]), g)
<1> DEFINE t == Append(s, g[new])
           upTo(S, c) == {b \in S : NotAfter(b, c)}
<1>1. new \notin DOMAIN f
  BY Ordered
<1>2. IsFiniteSet(DOMAIN g) /\ Cardinality(DOMAIN g) = Cardinality(DOMAIN f) + 1
  BY <1>1, FS_AddElement
<1>3. /\ Len(t) = Len(s) + 1 /\ t[Len(s) + 1] = g[new] /\ Len(s) \in Nat
      /\ \A i \in 1..Len(s) : t[i] = s[i]
  BY Appended DEF IsList
<1>4. Len(s) = Cardinality(DOMAIN f)
  BY DEF Lists
<1>5. ASSUME NEW c \in DOMAIN f
      PROVE  t[Cardinality(upTo(DOMAIN g, c))] = g[c]
  <2>1. upTo(DOMAIN g, c) = upTo(DOMAIN f, c)
    OBVIOUS
  <2>2. PICK B : B = upTo(DOMAIN f, c)
    OBVIOUS
  <2>3. c \in B /\ B \in SUBSET DOMAIN f
    BY <2>2, Ordered
  <2>4. IsFiniteSet(B) /\ Cardinality(B) <= Cardinality(DOMAIN f)
    BY <2>3, FS_Subset
  <2>5. Cardinality(B) \in Nat /\ Cardinality(B) # 0
    BY <2>3, <2>4, FS_CardinalityType, FS_EmptySet
  <2>6. Cardinality(B) \in 1..Len(s)
    BY <1>3, <1>4, <2>4, <2>5
  <2>7. s[Cardinality(B)] = f[c]
    BY <2>2 DEF Lists
  <2> QED
    BY <1>3, <2>1, <2>2, <2>6, <2>7
<1>6. t[Cardinality(upTo(DOMAIN g, new))] = g[new]
  <2>1. upTo(DOMAIN g, new) = DOMAIN g
    BY Ordered
  <2> QED
    BY <1>2, <1>3, <1>4, <2>1
<1> HIDE DEF t
<1>7. \A c \in DOMAIN g : t[Cardinality(upTo(DOMAIN g, c))] = g[c]
  BY <1>5, <1>6
<1>8. Len(t) = Cardinality(DOMAIN g)
  BY <1>2, <1>3, <1>4
<1> QED
  BY <1>7, <1>8 DEF Lists, t

LEMMA LatestAlone ==
    ASSUME NEW S, S \subseteq Nat \X Nat, NEW c \in Latest(S)
    PROVE  Latest(S) = {c}
BY Ordered DEF Latest

\* The last value of a list is that of the latest call.
LEMMA LatestListed ==
    ASSUME NEW s, IsList(s), NEW f, Lists(s, f), IsFiniteSet(DOMAIN f), DOMAIN f \subseteq Nat \X Nat,
           DOMAIN f # {} => Latest(DOMAIN f) # {},
           NEW g, DOMAIN g = Latest(DOMAIN f), \A c \in DOMAIN g : g[c] = f[c]
    PROVE  Lists(IF s = <<>> THEN s ELSE <<s[Len(s)]>>, g)
<1>1. Len(s) = Cardinality(DOMAIN f)
  BY DEF Lists
<1>2. CASE s = <<>>
  <2>1. DOMAIN f = {}
    BY <1>1, <1>2, EmptyIsList, FS_EmptySet
  <2>2. DOMAIN g = {}
    BY <2>1 DEF Latest
  <2> QED
    BY <1>2, <2>2, EmptyIsList, FS_EmptySet DEF Lists
<1>3. CASE s # <<>>
  <2>1. Len(s) # 0
    BY <1>3 DEF IsList
  <2>2. DOMAIN f # {}
    BY <1>1, <2>1, FS_EmptySet
  <2>3. PICK c : c \in Latest(DOMAIN f)
    BY <2>2
  <2>4. DOMAIN g = {c} /\ c \in DOMAIN f /\ c \in Nat \X Nat
    BY <2>3, LatestAlone DEF Latest
  <2>5. {b \in DOMAIN f : NotAfter(b, c)} = DOMAIN f
    BY <2>3 DEF Latest
  <2>6. s[Len(s)] = f[c]
    BY <1>1, <2>4, <2>5 DEF Lists
  <2>7. {b \in {c} : NotAfter(b, c)} = {c} /\ Cardinality({c}) = 1
    BY <2>4, Ordered, FS_Singleton
  <2>8. PICK last : last = <<s[Len(s)]>>
    OBVIOUS
  <2>9. Len(last) = 1 /\ last[1] = f[c]
    BY <2>6, <2>8
  <2>10. Lists(last, g)
    BY <2>4, <2>7, <2>9 DEF Lists
  <2> QED
    BY <1>3, <2>8, <2>10
<1> QED
  BY <1>2, <1>3

\* The turns go in pairs.
LEMMA Halves ==
    ASSUME NEW n \in Nat
    PROVE  /\ n \div 2 \in Nat /\ n % 2 \in {0, 1} /\ n = 2 * (n \div 2) + (n % 2)
           /\ \A k \in 1..(n \div 2) : k \in Nat /\ 2 * k \in 1..n
OBVIOUS

\* A call has a result if its turn has been sent and the tools got to it.
LEMMA AnsweredArePairs ==
    ASSUME TurnsHold, LoopHolds
    PROVE  /\ Answered \subseteq Nat \X Nat
           /\ \A c \in Nat \X Nat : c \in Answered <=>
                 c[1] \in 1..(Len(messages) \div 2) /\ c[2] \in 1..Len(ResultsOf(c[1]))
<1>1. Len(messages) \in Nat
  BY DEF LoopHolds, IsList
<1>2. \A k \in 1..(Len(messages) \div 2) :
         k \in Nat /\ Len(ResultsOf(k)) \in Nat /\ DOMAIN ResultsOf(k) = 1..Len(ResultsOf(k))
  <2>1. SUFFICES ASSUME NEW k \in 1..(Len(messages) \div 2)
                 PROVE  Len(ResultsOf(k)) \in Nat /\ DOMAIN ResultsOf(k) = 1..Len(ResultsOf(k))
    OBVIOUS
  <2>2. IsList(ResultsOf(k))
    BY DEF TurnsHold
  <2> QED
    BY <2>2, Appended DEF IsList
<1>3. ASSUME NEW c \in Answered
      PROVE  /\ c \in Nat \X Nat
             /\ c[1] \in 1..(Len(messages) \div 2) /\ c[2] \in 1..Len(ResultsOf(c[1]))
  <2>1. PICK k \in 1..(Len(messages) \div 2) : \E j \in DOMAIN ResultsOf(k) : c = <<k, j>>
    BY DEF Answered
  <2>2. PICK j \in DOMAIN ResultsOf(k) : c = <<k, j>>
    BY <2>1
  <2> QED
    BY <1>2, <2>2
<1>4. ASSUME NEW c \in Nat \X Nat,
             c[1] \in 1..(Len(messages) \div 2), c[2] \in 1..Len(ResultsOf(c[1]))
      PROVE  c \in Answered
  <2>1. PICK k \in Nat, j \in Nat : c = <<k, j>>
    OBVIOUS
  <2>2. k \in 1..(Len(messages) \div 2) /\ j \in DOMAIN ResultsOf(k)
    BY <1>2, <1>4, <2>1
  <2> QED
    BY <2>1, <2>2 DEF Answered
<1> QED
  BY <1>3, <1>4

LEMMA NothingAnswered == ASSUME messages = <<>> \/ Len(messages) = 1 PROVE Answered = {}
<1>1. Len(messages) \div 2 = 0
  <2>1. Len(messages) \in {0, 1}
    BY EmptyIsList
  <2>2. PICK n \in {0, 1} : n = Len(messages)
    BY <2>1
  <2>3. n \div 2 = 0
    OBVIOUS
  <2> QED
    BY <2>2, <2>3
<1> QED
  BY <1>1 DEF Answered

\* The sinks stay true while the calls with a result stay the same.
LEMMA SameSinks ==
    ASSUME SinksHold, Answered' = Answered,
           \A c \in Answered : Called(c)' = Called(c) /\ Result(c)' = Result(c),
           UNCHANGED <<used, charts, insights>>
    PROVE  SinksHold'
<1>1. Made("nl_to_chart")' = Made("nl_to_chart")
  BY DEF Made
<1>2. Made("summarize_insight")' = Made("summarize_insight")
  BY DEF Made
<1>3. \A c \in Made("nl_to_chart") \cup Made("summarize_insight") : c \in Answered
  BY DEF Made
<1>4. Contents(Made("nl_to_chart"))' = Contents(Made("nl_to_chart"))
  BY <1>1, <1>3 DEF Contents
<1>5. Contents(Made("summarize_insight"))' = Contents(Made("summarize_insight"))
  BY <1>2, <1>3 DEF Contents
<1>6. [c \in Answered |-> Called(c)]' = [c \in Answered |-> Called(c)]
  OBVIOUS
<1> QED
  BY <1>1, <1>4, <1>5, <1>6 DEF SinksHold, Lists, Latest

LEMMA SameTranscript ==
    ASSUME UNCHANGED <<messages, results>>
    PROVE  /\ TurnsHold => TurnsHold'
           /\ Answered' = Answered
           /\ \A c : Called(c)' = Called(c) /\ Result(c)' = Result(c)
BY DEF TurnsHold, Answered, Called, Result, ResultsOf

\* Nothing is listed where nothing was called.
LEMMA NothingListed ==
    ASSUME Answered = {}, used = <<>>, charts = <<>>, insights = <<>>
    PROVE  SinksHold
<1>1. Made("nl_to_chart") = {} /\ Made("summarize_insight") = {}
  BY DEF Made
<1> QED
  BY <1>1, FS_EmptySet, EmptyIsList DEF SinksHold, Lists, Contents

LEMMA NothingListedNext ==
    ASSUME Answered' = {}, used' = <<>>, charts' = <<>>, insights' = <<>>
    PROVE  SinksHold'
<1>1. Made("nl_to_chart")' = {} /\ Made("summarize_insight")' = {}
  BY DEF Made
<1> QED
  BY <1>1, FS_EmptySet, EmptyIsList DEF SinksHold, Lists, Contents

LEMMA InitInv == Init => AssistantInv
<1> SUFFICES ASSUME Init PROVE AssistantInv
  OBVIOUS
<1>1. TurnsHold
  BY EmptyIsList DEF Init, TurnsHold
<1>2. LoopHolds
  BY EmptyIsList DEF Init, LoopHolds, NoReply
<1>3. SinksHold
  BY NothingAnswered, NothingListed DEF Init
<1>4. ReplyHolds(reply)
  BY DEF Init, ReplyHolds, NoReply
<1>5. ReplyIsBacked
  BY DEF Init, ReplyIsBacked, NoReply
<1> QED
  BY <1>1, <1>2, <1>3, <1>4, <1>5 DEF AssistantInv

-----------------------------------------------------------------------------
(* The steps.                                                              *)

\* A chat or assistant reply is backed by the sinks it is made of.
LEMMA RespondedIsBacked ==
    ASSUME NEW answer, Respond200(answer), kind' = kind, kind \in LoopKinds,
           SinksHold', IsList(charts)'
    PROVE  ReplyHolds(reply)' /\ ReplyIsBacked' /\ reply' # NoReply /\ pc' = "idle"
<1> DEFINE shown == IF kind = "assistant" \/ charts' = <<>> THEN charts' ELSE <<charts'[Len(charts')]>>
<1>1. PICK b : b = [answer |-> answer, used |-> used', insights |-> insights', charts |-> shown]
  OBVIOUS
<1>2. reply' = [kind |-> kind, status |-> 200, body |-> b] /\ pc' = "idle"
  BY <1>1 DEF Respond200
<1>3. reply'.kind \in LoopKinds /\ reply'.status = 200 /\ reply'.body = b
  BY <1>2
<1>4. ReplyHolds(reply)'
  BY <1>3 DEF ReplyHolds, LoopKinds
<1>5. reply' # NoReply
  BY <1>3 DEF NoReply
<1> DEFINE made == Made("nl_to_chart")'
<1>6. Lists(b.charts, Contents(IF kind = "assistant" THEN Made("nl_to_chart") ELSE Latest(Made("nl_to_chart"))))'
  <2>1. CASE kind = "assistant"
    BY <1>1, <2>1 DEF SinksHold
  <2>2. CASE kind # "assistant"
    <3>1. PICK f : f = Contents(Made("nl_to_chart"))'
      OBVIOUS
    <3>2. PICK g : g = Contents(Latest(Made("nl_to_chart")))'
      OBVIOUS
    <3>3. made \subseteq Answered'
      BY DEF Made
    <3>4. IsFiniteSet(made) /\ made \subseteq Nat \X Nat
      BY <3>3, FS_Subset DEF SinksHold
    <3>5. DOMAIN f = made /\ DOMAIN g = Latest(made) /\ \A c \in DOMAIN g : g[c] = f[c]
      BY <3>1, <3>2 DEF Contents, Latest
    <3>6. Lists(charts', f) /\ (made # {} => Latest(made) # {})
      BY <3>1 DEF SinksHold, Lists, Latest
    <3>7. PICK s : s = charts' /\ IsList(s)
      BY DEF IsList
    <3> HIDE DEF made
    <3>8. Lists(IF s = <<>> THEN s ELSE <<s[Len(s)]>>, g)
      BY <3>4, <3>5, <3>6, <3>7, LatestListed
    <3>9. b.charts = IF s = <<>> THEN s ELSE <<s[Len(s)]>>
      BY <1>1, <2>2, <3>7
    <3> QED
      BY <2>2, <3>2, <3>8, <3>9 DEF Lists
  <2> QED
    BY <2>1, <2>2
<1>7. b.insights = insights' /\ b.used = used'
  BY <1>1
<1> HIDE DEF made, shown
<1>8. ReplyIsBacked'
  BY <1>3, <1>6, <1>7 DEF ReplyIsBacked, SinksHold
<1> QED
  BY <1>2, <1>4, <1>5, <1>8

LEMMA ServeKeepsInv ==
    ASSUME AssistantInv, NEW k \in DOMAIN OneShot, Serve(k)
    PROVE  AssistantInv'
<1>1. PICK r \in OneShot[k] : reply' = [kind |-> k, status |-> r.status, body |-> r.body]
  BY DEF Serve
<1>2. reply'.kind = k /\ reply'.status = r.status /\ reply'.body = r.body
  BY <1>1
<1>3. ReplyHolds(reply') /\ k \in ShotKinds
  BY <1>2, ServedHolds
<1>4. reply' # NoReply
  BY <1>2, <1>3, NoneIsItself DEF NoReply
<1>5. UNCHANGED <<pc, kind, messages, results, used, charts, insights>> /\ kind = None
      /\ pc = "idle" /\ reply = NoReply
  BY DEF Serve, AssistantInv, LoopHolds
<1>6. TurnsHold' /\ SinksHold'
  BY <1>5, SameTranscript, SameSinks DEF AssistantInv
<1>7. LoopHolds'
  BY <1>4, <1>5 DEF AssistantInv, LoopHolds, IsList
<1>8. ReplyIsBacked'
  BY <1>5 DEF ReplyIsBacked
<1> QED
  BY <1>3, <1>6, <1>7, <1>8 DEF AssistantInv, ReplyHolds

LEMMA ServeMcpKeepsInv ==
    ASSUME AssistantInv, NEW e \in {"query", "semantic"}, ServeMcp(e)
    PROVE  AssistantInv'
<1>1. PICK r \in McpTool(e) : reply' = [kind |-> "mcp", status |-> r.status, body |-> r.body]
  BY DEF ServeMcp
<1>2. reply'.kind = "mcp" /\ reply'.status = r.status /\ reply'.body = r.body
  BY <1>1
<1>3. ReplyHolds(reply')
  BY <1>2, McpHolds
<1>4. reply' # NoReply
  BY <1>2, NoneIsItself DEF NoReply
<1>5. UNCHANGED <<pc, kind, messages, results, used, charts, insights>> /\ kind = None
      /\ pc = "idle" /\ reply = NoReply
  BY DEF ServeMcp, AssistantInv, LoopHolds
<1>6. TurnsHold' /\ SinksHold'
  BY <1>5, SameTranscript, SameSinks DEF AssistantInv
<1>7. LoopHolds'
  BY <1>4, <1>5 DEF AssistantInv, LoopHolds, IsList
<1>8. ReplyIsBacked'
  BY <1>5 DEF ReplyIsBacked
<1> QED
  BY <1>3, <1>6, <1>7, <1>8 DEF AssistantInv, ReplyHolds

LEMMA AskKeepsInv ==
    ASSUME AssistantInv, NEW k \in LoopKinds, Ask(k)
    PROVE  AssistantInv'
<1>1. /\ pc' = "model" /\ kind' = k /\ reply = NoReply /\ reply' = NoReply
      /\ messages' = <<UserTurn(<<>>)>> /\ results' = <<>> /\ results = <<>>
      /\ messages = <<>> /\ used = <<>> /\ charts = <<>> /\ insights = <<>>
      /\ used' = <<>> /\ charts' = <<>> /\ insights' = <<>>
  BY DEF Ask, AssistantInv, LoopHolds
<1>2. PICK t : t = UserTurn(<<>>)
  OBVIOUS
<1>3. t.role = "user" /\ t.calls = <<>> /\ t.results = <<>>
  BY <1>2 DEF UserTurn
<1>4. PICK m : m = messages' /\ m = <<t>>
  BY <1>1, <1>2
<1>5. IsList(m) /\ Len(m) = 1 /\ m[1] = t /\ m # <<>> /\ DOMAIN m = {1}
  BY <1>4, SingleIsList
<1>6. TurnsHold'
  <2>1. 1..(Len(m) \div 2) = {} /\ 1 % 2 = 1
    BY <1>5
  <2> QED
    BY <1>3, <1>4, <1>5, <2>1 DEF TurnsHold
<1>7. LoopHolds'
  <2>1. 1 % 2 # 0
    OBVIOUS
  <2> QED
    BY <1>1, <1>3, <1>4, <1>5, <2>1, EmptyIsList DEF LoopHolds
<1>8. SinksHold'
  <2>1. 1..(Len(m) \div 2) = {}
    BY <1>5
  <2>2. Answered' = {}
    BY <1>4, <2>1 DEF Answered
  <2> QED
    BY <1>1, <2>2, NothingListedNext
<1>9. ReplyHolds(reply)' /\ ReplyIsBacked'
  BY <1>1 DEF ReplyHolds, ReplyIsBacked, NoReply
<1> QED
  BY <1>6, <1>7, <1>8, <1>9 DEF AssistantInv

LEMMA DeliverKeepsInv ==
    ASSUME AssistantInv, Deliver
    PROVE  AssistantInv'
<1>1. /\ pc' = "idle" /\ kind' = None /\ reply' = NoReply /\ messages' = <<>> /\ results' = <<>>
      /\ used' = <<>> /\ charts' = <<>> /\ insights' = <<>>
  BY DEF Deliver
<1>2. PICK m : m = messages' /\ m = <<>>
  BY <1>1
<1>3. 1..(Len(m) \div 2) = {} /\ DOMAIN m = {}
  BY <1>2, EmptyIsList
<1>4. TurnsHold'
  BY <1>2, <1>3 DEF TurnsHold
<1>5. LoopHolds'
  BY <1>1, EmptyIsList DEF LoopHolds
<1>6. Answered' = {}
  BY <1>2, <1>3 DEF Answered
<1>7. SinksHold'
  BY <1>1, <1>6, NothingListedNext
<1>8. ReplyHolds(reply)' /\ ReplyIsBacked'
  BY <1>1 DEF ReplyHolds, ReplyIsBacked, NoReply
<1> QED
  BY <1>4, <1>5, <1>7, <1>8 DEF AssistantInv

LEMMA StutterKeepsInv == ASSUME AssistantInv, UNCHANGED vars PROVE AssistantInv'
<1>1. TurnsHold' /\ SinksHold'
  BY SameTranscript, SameSinks DEF AssistantInv, vars
<1>2. LoopHolds' /\ ReplyHolds(reply)'
  BY DEF AssistantInv, LoopHolds, ReplyHolds, IsList, vars
<1>3. ReplyIsBacked'
  <2>1. UNCHANGED <<messages, results, kind, reply>> /\ ReplyIsBacked
    BY DEF AssistantInv, vars
  <2>2. Answered' = Answered /\ \A c : Called(c)' = Called(c) /\ Result(c)' = Result(c)
    BY <2>1, SameTranscript
  <2>3. Made("nl_to_chart")' = Made("nl_to_chart")
    BY <2>2 DEF Made
  <2>4. Made("summarize_insight")' = Made("summarize_insight")
    BY <2>2 DEF Made
  <2>5. Latest(Made("nl_to_chart"))' = Latest(Made("nl_to_chart"))
    BY <2>3 DEF Latest
  <2>6. Contents(Made("nl_to_chart"))' = Contents(Made("nl_to_chart"))
    BY <2>2, <2>3 DEF Contents
  <2>7. Contents(Latest(Made("nl_to_chart")))' = Contents(Latest(Made("nl_to_chart")))
    BY <2>2, <2>5 DEF Contents
  <2>8. Contents(Made("summarize_insight"))' = Contents(Made("summarize_insight"))
    BY <2>2, <2>4 DEF Contents
  <2>9. [c \in Answered |-> Called(c)]' = [c \in Answered |-> Called(c)]
    BY <2>2
  <2>10. Contents(IF kind = "assistant" THEN Made("nl_to_chart") ELSE Latest(Made("nl_to_chart")))'
         = Contents(IF kind = "assistant" THEN Made("nl_to_chart") ELSE Latest(Made("nl_to_chart")))
    <3>1. CASE kind = "assistant"
      BY <2>1, <2>6, <3>1
    <3>2. CASE kind # "assistant"
      BY <2>1, <2>7, <3>2
    <3> QED
      BY <3>1, <3>2
  <2>11. PICK c, i, u :
            /\ c = Contents(IF kind = "assistant" THEN Made("nl_to_chart") ELSE Latest(Made("nl_to_chart")))
            /\ i = Contents(Made("summarize_insight")) /\ u = [a \in Answered |-> Called(a)]
    OBVIOUS
  <2>12. kind # None /\ reply.status = 200 =>
            Lists(reply.body.charts, c) /\ Lists(reply.body.insights, i) /\ Lists(reply.body.used, u)
    BY <2>1, <2>11 DEF ReplyIsBacked
  <2>13. /\ c = Contents(IF kind = "assistant" THEN Made("nl_to_chart") ELSE Latest(Made("nl_to_chart")))'
         /\ i = Contents(Made("summarize_insight"))' /\ u = [a \in Answered |-> Called(a)]'
    BY <2>8, <2>9, <2>10, <2>11
  <2> QED
    BY <2>1, <2>12, <2>13 DEF ReplyIsBacked
<1> QED
  BY <1>1, <1>2, <1>3 DEF AssistantInv

LEMMA ProviderFailsKeepsInv == ASSUME AssistantInv, ProviderFails PROVE AssistantInv'
<1>1. PICK s : reply' = [kind |-> kind, body |-> None, status |-> s] /\ s \in {500, 503}
  BY DEF ProviderFails
<1>2. reply'.status = s /\ reply' # NoReply
  BY <1>1 DEF NoReply
<1>3. UNCHANGED <<kind, messages, results, used, charts, insights>> /\ pc' = "idle"
      /\ pc = "model" /\ results = <<>>
  BY DEF ProviderFails, AssistantInv, LoopHolds
<1>4. TurnsHold' /\ SinksHold'
  BY <1>3, SameTranscript, SameSinks DEF AssistantInv
<1>5. LoopHolds'
  BY <1>2, <1>3 DEF AssistantInv, LoopHolds, IsList
<1>6. ReplyHolds(reply)' /\ ReplyIsBacked'
  BY <1>1, <1>2 DEF ReplyHolds, ReplyIsBacked
<1> QED
  BY <1>4, <1>5, <1>6 DEF AssistantInv

LEMMA ModelAnswersKeepsInv == ASSUME AssistantInv, ModelAnswers PROVE AssistantInv'
<1>1. UNCHANGED <<kind, messages, results, used, charts, insights>>
      /\ pc = "model" /\ results = <<>> /\ kind \in LoopKinds /\ \E answer : Respond200(answer)
  BY DEF ModelAnswers, AssistantInv, LoopHolds
<1>2. PICK answer : Respond200(answer)
  BY <1>1
<1>3. TurnsHold' /\ SinksHold'
  BY <1>1, SameTranscript, SameSinks DEF AssistantInv
<1>4. IsList(charts)'
  BY <1>1 DEF AssistantInv, LoopHolds, IsList
<1>5. ReplyHolds(reply)' /\ ReplyIsBacked' /\ reply' # NoReply /\ pc' = "idle"
  BY <1>1, <1>2, <1>3, <1>4, RespondedIsBacked
<1>6. LoopHolds'
  BY <1>1, <1>5 DEF AssistantInv, LoopHolds, IsList
<1> QED
  BY <1>3, <1>5, <1>6 DEF AssistantInv

\* One more call has a result, and comes after all others.
LEMMA SinksGrow ==
    ASSUME SinksHold, LoopHolds, NEW new \in Nat \X Nat, NEW r, NEW name, Answered' = Answered \cup {new},
           \A c \in Answered : NotAfter(c, new) /\ ~NotAfter(new, c),
           \A c \in Answered : Called(c)' = Called(c) /\ Result(c)' = Result(c),
           Called(new)' = name, Result(new)' = r,
           used' = Append(used, name),
           charts' = IF ~r.is_error /\ name = "nl_to_chart" THEN Append(charts, r.content) ELSE charts,
           insights' = IF ~r.is_error /\ name = "summarize_insight" THEN Append(insights, r.content)
                       ELSE insights
    PROVE  SinksHold' /\ IsList(used)' /\ IsList(charts)' /\ IsList(insights)'
<1>1. IsFiniteSet(Answered)' /\ Answered' \subseteq Nat \X Nat /\ Answered \subseteq Nat \X Nat
      /\ IsFiniteSet(Answered)
  BY FS_AddElement DEF SinksHold
<1>2. new \notin Answered /\ NotAfter(new, new)
  BY Ordered
<1>3. Lists(used, [c \in Answered |-> Called(c)])' /\ IsList(used)'
  <2>1. PICK f : f = [c \in Answered |-> Called(c)]
    OBVIOUS
  <2>2. PICK g : g = [c \in Answered |-> Called(c)]'
    OBVIOUS
  <2>3. DOMAIN f = Answered /\ DOMAIN g = Answered' /\ g[new] = name /\ \A c \in Answered : g[c] = f[c]
    BY <2>1, <2>2
  <2>4. Lists(used, f) /\ IsList(used)
    BY <2>1 DEF SinksHold, LoopHolds
  <2>5. IsFiniteSet(DOMAIN f) /\ DOMAIN f \subseteq Nat \X Nat
        /\ (\A c \in DOMAIN f : NotAfter(c, new) /\ ~NotAfter(new, c))
        /\ DOMAIN g = DOMAIN f \cup {new} /\ (\A c \in DOMAIN f : g[c] = f[c])
    BY <1>1, <2>3
  <2>6. Lists(Append(used, g[new]), g)
    BY ONLY <2>4, <2>5, new \in Nat \X Nat, ListsAppended
  <2>7. IsList(Append(used, g[new]))
    BY <2>4, Appended
  <2>8. used' = Append(used, g[new])
    BY <2>3
  <2> QED
    BY <2>2, <2>6, <2>7, <2>8 DEF Lists, IsList
<1>4. ASSUME NEW x, NEW sink, NEW sink1, IsList(sink), Lists(sink, Contents(Made(x))),
             sink1 = IF ~r.is_error /\ name = x THEN Append(sink, r.content) ELSE sink
      PROVE  /\ IsList(sink1) /\ Lists(sink1, Contents(Made(x))')
             /\ \/ ~r.is_error /\ name = x /\ new \in Made(x)'
                   /\ \A c \in Made(x)' : NotAfter(c, new)
                \/ Made(x)' = Made(x)
  <2>1. PICK f : f = Contents(Made(x))
    OBVIOUS
  <2>2. PICK g : g = Contents(Made(x))'
    OBVIOUS
  <2>3. Made(x) \subseteq Answered /\ Made(x)' \subseteq Answered'
    BY DEF Made
  <2>4. IsFiniteSet(Made(x))
    BY <1>1, <2>3, FS_Subset
  <2>5. DOMAIN f = Made(x) /\ DOMAIN g = Made(x)'
    BY <2>1, <2>2 DEF Contents
  <2>6. CASE ~r.is_error /\ name = x
    <3>1. Made(x)' = Made(x) \cup {new}
      BY <1>2, <2>6 DEF Made
    <3>2. g[new] = r.content
      BY <2>2, <3>1 DEF Contents
    <3>3. \A c \in Made(x) : g[c] = f[c]
      BY <2>1, <2>2, <2>3, <3>1 DEF Contents
    <3>4. IsFiniteSet(DOMAIN f) /\ DOMAIN f \subseteq Nat \X Nat
          /\ (\A c \in DOMAIN f : NotAfter(c, new) /\ ~NotAfter(new, c))
          /\ DOMAIN g = DOMAIN f \cup {new} /\ (\A c \in DOMAIN f : g[c] = f[c])
      BY <1>1, <2>3, <2>4, <2>5, <3>1, <3>3
    <3>5. IsList(sink) /\ Lists(sink, f)
      BY <1>4, <2>1
    <3>6. Lists(Append(sink, g[new]), g)
      BY ONLY <3>4, <3>5, new \in Nat \X Nat, ListsAppended
    <3>7. sink1 = Append(sink, g[new])
      BY <1>4, <2>6, <3>2
    <3> QED
      BY <1>2, <1>4, <2>2, <2>3, <2>6, <3>1, <3>6, <3>7, Appended
  <2>7. CASE ~(~r.is_error /\ name = x)
    <3>1. Made(x)' = Made(x)
      BY <1>2, <2>7 DEF Made
    <3>2. f = g
      BY <2>1, <2>2, <2>3, <3>1 DEF Contents
    <3> QED
      BY <1>4, <2>1, <2>2, <2>7, <3>1, <3>2
  <2> QED
    BY <2>6, <2>7
<1>5. /\ IsList(charts)' /\ Lists(charts, Contents(Made("nl_to_chart")))'
      /\ \/ new \in Made("nl_to_chart")' /\ \A c \in Made("nl_to_chart")' : NotAfter(c, new)
         \/ Made("nl_to_chart")' = Made("nl_to_chart")
  <2>1. IsList(charts) /\ Lists(charts, Contents(Made("nl_to_chart")))
    BY DEF SinksHold, LoopHolds
  <2>2. PICK t : t = charts'
    OBVIOUS
  <2>3. /\ IsList(t) /\ Lists(t, Contents(Made("nl_to_chart"))')
        /\ \/ new \in Made("nl_to_chart")' /\ \A c \in Made("nl_to_chart")' : NotAfter(c, new)
           \/ Made("nl_to_chart")' = Made("nl_to_chart")
    BY <1>4, <2>1, <2>2
  <2> QED
    BY <2>2, <2>3 DEF IsList, Lists
<1>6. IsList(insights)' /\ Lists(insights, Contents(Made("summarize_insight")))'
  <2>1. IsList(insights) /\ Lists(insights, Contents(Made("summarize_insight")))
    BY DEF SinksHold, LoopHolds
  <2>2. PICK t : t = insights'
    OBVIOUS
  <2>3. IsList(t) /\ Lists(t, Contents(Made("summarize_insight"))')
    BY <1>4, <2>1, <2>2
  <2> QED
    BY <2>2, <2>3 DEF IsList, Lists
<1>7. Made("nl_to_chart")' # {} => Latest(Made("nl_to_chart"))' # {}
  BY <1>5 DEF Latest, SinksHold
<1> QED
  BY <1>1, <1>3, <1>5, <1>6, <1>7 DEF SinksHold

\* The calls of a new turn have no result yet: the sinks list what they did.
LEMMA ModelCallsKeepsInv == ASSUME AssistantInv, ModelCalls PROVE AssistantInv'
<1> DEFINE n == Len(messages)
<1>1. PICK r \in ToolReplies : r.names # <<>> /\ messages' = Append(messages, AssistantTurn(r))
  <2>1. PICK v \in Values(CompleteWithTools(ToolReplies)) :
           v.names # <<>> /\ messages' = Append(messages, AssistantTurn(v))
    BY DEF ModelCalls
  <2>2. v \in ToolReplies
    BY <2>1, AdapterReturns DEF CompleteWithTools, AdapterWithTools, Adapter
  <2> QED
    BY <2>1, <2>2
<1>2. /\ pc = "model" /\ pc' = "tools" /\ UNCHANGED <<kind, results, used, charts, insights, reply>>
      /\ IsList(messages) /\ messages # <<>> /\ n \in Nat /\ n % 2 # 0 /\ results = <<>>
      /\ kind \in LoopKinds /\ reply = NoReply /\ TurnsHold /\ SinksHold /\ messages[1].results = <<>>
  BY DEF ModelCalls, AssistantInv, LoopHolds, IsList
<1>3. PICK turn : turn = AssistantTurn(r)
  OBVIOUS
<1>4. r.text \in BOOLEAN /\ r.names \in Seq(STRING) /\ r.names # <<>>
  BY <1>1, TextsAreParsed
<1>5. /\ turn.role = "assistant" /\ turn.text \in BOOLEAN
      /\ turn.calls = [i \in DOMAIN r.names |-> [id |-> <<n, i>>, name |-> r.names[i]]]
  BY <1>3, <1>4 DEF AssistantTurn
<1>6. /\ IsList(turn.calls) /\ turn.calls # <<>> /\ Len(turn.calls) \in Nat \ {0}
      /\ \A j \in DOMAIN turn.calls : turn.calls[j].id = <<n, j>>
  <2>1. PICK l \in Nat : l = Len(r.names) /\ DOMAIN r.names = 1..l /\ l # 0
    BY <1>4
  <2>2. PICK c : c = [i \in 1..l |-> [id |-> <<n, i>>, name |-> r.names[i]]]
    OBVIOUS
  <2>3. c = turn.calls
    BY <1>5, <2>1, <2>2
  <2>4. Len(c) = l /\ DOMAIN c = 1..l
    <3>1. PICK S : S = {[id |-> <<n, i>>, name |-> r.names[i]] : i \in 1..l}
      OBVIOUS
    <3>2. c \in [1..l -> S]
      BY <2>2, <3>1
    <3> QED
      BY <2>1, <3>2, SeqDef
  <2>5. c = [i \in 1..Len(c) |-> c[i]]
    BY <2>2, <2>4
  <2>6. \A j \in DOMAIN c : c[j].id = <<n, j>>
    BY <2>2
  <2>7. c # <<>>
    BY <2>1, <2>4
  <2> QED
    BY <2>1, <2>3, <2>4, <2>5, <2>6, <2>7 DEF IsList
<1>7. PICK m : m = messages'
  OBVIOUS
<1>8. /\ IsList(m) /\ Len(m) = n + 1 /\ DOMAIN m = 1..(n + 1) /\ DOMAIN messages = 1..n /\ m # <<>>
      /\ (\A i \in 1..n : m[i] = messages[i]) /\ m[n + 1] = turn
  BY <1>1, <1>2, <1>3, <1>7, Appended
<1> HIDE DEF n
<1>9. PICK p \in Nat : n = 2 * p + 1 /\ n \div 2 = p /\ (n + 1) \div 2 = p + 1 /\ (n + 1) % 2 = 0
  <2>1. n \div 2 \in Nat /\ n = 2 * (n \div 2) + 1
    BY <1>2, Halves
  <2>2. (n + 1) \div 2 = (n \div 2) + 1 /\ (n + 1) % 2 = 0
    BY <1>2, <2>1
  <2> QED
    BY <2>1, <2>2
<1>10. /\ \A k \in 1..p : ResultsOf(k)' = ResultsOf(k) /\ 2 * k \in 1..n /\ 2 * k < n /\ k \in 1..(n \div 2)
       /\ ResultsOf(p + 1)' = <<>> /\ ~(2 * (p + 1) < n + 1)
  <2>1. ASSUME NEW k \in 1..p PROVE ResultsOf(k)' = ResultsOf(k) /\ 2 * k \in 1..n /\ 2 * k < n /\ k \in 1..(n \div 2)
    <3>1. 2 * k < n /\ 2 * k < n + 1 /\ 2 * k + 1 \in 1..n
      BY <1>9
    <3>2. m[2 * k + 1] = messages[2 * k + 1]
      BY <1>8, <3>1
    <3>3. ResultsOf(k)' = m[2 * k + 1].results
      BY <1>7, <1>8, <3>1 DEF ResultsOf
    <3>4. ResultsOf(k) = messages[2 * k + 1].results
      BY <3>1 DEF ResultsOf, n
    <3> QED
      BY <1>9, <3>1, <3>2, <3>3, <3>4
  <2>2. ~(2 * (p + 1) < n + 1)
    BY <1>9
  <2>3. ResultsOf(p + 1)' = <<>>
    BY <1>2, <1>7, <1>8, <2>2 DEF ResultsOf
  <2> QED
    BY <2>1, <2>2, <2>3
<1>11. TurnsHold'
  <2>1. ASSUME NEW i \in DOMAIN m
        PROVE  IF i % 2 = 1 THEN m[i].role = "user" /\ m[i].calls = <<>>
               ELSE /\ m[i].role = "assistant" /\ m[i].text \in BOOLEAN
                    /\ IsList(m[i].calls) /\ m[i].calls # <<>>
                    /\ \A j \in DOMAIN m[i].calls : m[i].calls[j].id = <<i - 1, j>>
    <3>1. CASE i \in 1..n
      <4>1. i \in DOMAIN messages /\ m[i] = messages[i]
        BY <1>8, <3>1
      <4> QED
        BY <1>2, <4>1 DEF TurnsHold
    <3>2. CASE i = n + 1
      <4>1. i % 2 = 0 /\ i - 1 = n
        BY <1>2, <1>9, <3>2
      <4> QED
        BY <1>5, <1>6, <1>8, <3>2, <4>1
    <3> QED
      BY <1>2, <1>8, <3>1, <3>2
  <2>2. ASSUME NEW k \in 1..(Len(m) \div 2)
        PROVE  /\ IsList(ResultsOf(k)')
               /\ IF 2 * k < Len(m) THEN Len(ResultsOf(k)') = Len(m[2 * k].calls)
                  ELSE Len(ResultsOf(k)') < Len(m[2 * k].calls)
               /\ \A j \in DOMAIN ResultsOf(k)' : ResultsOf(k)'[j].id = m[2 * k].calls[j].id
    <3>1. CASE k \in 1..p
      <4>1. m[2 * k] = messages[2 * k] /\ 2 * k < n /\ 2 * k < Len(m)
        BY <1>2, <1>8, <1>10, <3>1
      <4>2. /\ IsList(ResultsOf(k)) /\ Len(ResultsOf(k)) = Len(messages[2 * k].calls)
            /\ \A j \in DOMAIN ResultsOf(k) : ResultsOf(k)[j].id = messages[2 * k].calls[j].id
        BY <1>2, <1>10, <3>1, <4>1 DEF TurnsHold, n
      <4> QED
        BY <1>10, <3>1, <4>1, <4>2
    <3>2. CASE k = p + 1
      <4>1. 2 * k = n + 1 /\ m[2 * k] = turn /\ ~(2 * k < Len(m))
        BY <1>8, <1>9, <3>2
      <4> QED
        BY <1>6, <1>10, <3>2, <4>1, EmptyIsList
    <3> QED
      BY <1>8, <1>9, <3>1, <3>2
  <2> QED
    BY <1>7, <2>1, <2>2 DEF TurnsHold, IsList
<1>12. Answered' = Answered
  <2>1. Answered' = UNION {{<<k, j>> : j \in DOMAIN ResultsOf(k)'} : k \in 1..(p + 1)}
    BY <1>7, <1>8, <1>9 DEF Answered
  <2>2. Answered = UNION {{<<k, j>> : j \in DOMAIN ResultsOf(k)} : k \in 1..p}
    BY <1>9 DEF Answered, n
  <2>3. 1..(p + 1) = 1..p \cup {p + 1}
    OBVIOUS
  <2>4. DOMAIN ResultsOf(p + 1)' = {}
    BY <1>10, EmptyIsList
  <2> QED
    BY <1>10, <2>1, <2>2, <2>3, <2>4
<1>13. \A c \in Answered : Called(c)' = Called(c) /\ Result(c)' = Result(c)
  <2>1. SUFFICES ASSUME NEW c \in Answered PROVE Called(c)' = Called(c) /\ Result(c)' = Result(c)
    OBVIOUS
  <2>2. c[1] \in 1..p
    BY <1>9, AnsweredArePairs DEF AssistantInv, SinksHold, n
  <2>3. m[2 * c[1]] = messages[2 * c[1]]
    BY <1>8, <1>10, <2>2
  <2> QED
    BY <1>7, <1>10, <2>2, <2>3 DEF Called, Result
<1>14. SinksHold'
  BY <1>2, <1>12, <1>13, SameSinks
<1>15. LoopHolds'
  <2>1. m[1].results = <<>>
    BY <1>2, <1>8, <1>9
  <2> QED
    BY <1>2, <1>7, <1>8, <1>9, <2>1 DEF AssistantInv, LoopHolds, IsList
<1>16. ReplyHolds(reply)' /\ ReplyIsBacked'
  BY <1>2 DEF ReplyHolds, ReplyIsBacked, NoReply
<1> QED
  BY <1>11, <1>14, <1>15, <1>16 DEF AssistantInv

\* Whatever a tool does, its result goes under the call's own id.
LEMMA DispatchAnswersTheCall == ASSUME NEW call, NEW r \in Dispatch(call) PROVE r.id = call.id
<1>1. CASE call.name \notin Skills
  BY <1>1 DEF Dispatch
<1>2. CASE call.name \in Skills
  <2>1. \E o, c : r = [id |-> call.id, is_error |-> ~Returned(o), content |-> c]
    BY <1>2 DEF Dispatch
  <2> QED
    BY <2>1
<1> QED
  BY <1>1, <1>2

\* A tool's result is the next of its turn, and the latest of all.
LEMMA RunToolKeepsInv == ASSUME AssistantInv, RunTool PROVE AssistantInv'
<1> DEFINE n == Len(messages)
           q == Len(results)
<1>1. /\ pc = "tools" /\ kind' = kind /\ kind \in LoopKinds /\ reply = NoReply /\ messages # <<>>
      /\ IsList(messages) /\ IsList(results) /\ n \in Nat /\ q \in Nat /\ n % 2 = 0 /\ n # 0
      /\ TurnsHold /\ SinksHold /\ LoopHolds /\ messages[1].results = <<>>
      /\ DOMAIN messages = 1..n
  <2>1. pc = "tools" /\ kind' = kind /\ LoopHolds /\ TurnsHold /\ SinksHold
    BY DEF RunTool, AssistantInv
  <2>2. /\ kind \in LoopKinds /\ reply = NoReply /\ messages # <<>> /\ IsList(messages) /\ IsList(results)
        /\ n % 2 = 0 /\ messages[1].results = <<>>
    BY <2>1 DEF LoopHolds
  <2>3. n \in Nat /\ q \in Nat /\ n # 0 /\ DOMAIN messages = 1..n
    BY <2>2, Appended DEF IsList
  <2> QED
    BY <2>1, <2>2, <2>3
<1>2. PICK calls : calls = messages[n].calls
  OBVIOUS
<1>3. PICK call : call = calls[q + 1]
  OBVIOUS
<1>4. PICK r \in Dispatch(call) :
         /\ charts' = IF ~r.is_error /\ call.name = "nl_to_chart" THEN Append(charts, r.content)
                      ELSE charts
         /\ insights' = IF ~r.is_error /\ call.name = "summarize_insight"
                        THEN Append(insights, r.content) ELSE insights
         /\ used' = Append(used, call.name)
         /\ IF q + 1 = Len(calls)
            THEN messages' = Append(messages, UserTurn(Append(results, r))) /\ results' = <<>>
            ELSE messages' = messages /\ results' = Append(results, r)
  BY <1>2, <1>3 DEF RunTool
<1>5. \/ (\E answer : Respond200(answer)) /\ q + 1 = Len(calls)
      \/ pc' = (IF q + 1 = Len(calls) THEN "model" ELSE "tools") /\ reply' = reply
  BY <1>2 DEF RunTool
<1>6. PICK m, rs, turn : m = messages' /\ rs = Append(results, r) /\ turn = UserTurn(rs)
  OBVIOUS
<1>7. turn.role = "user" /\ turn.calls = <<>> /\ turn.results = rs
  BY <1>6 DEF UserTurn
<1>8. /\ IsList(rs) /\ Len(rs) = q + 1 /\ DOMAIN rs = 1..(q + 1) /\ rs[q + 1] = r
      /\ DOMAIN results = 1..q /\ \A i \in 1..q : rs[i] = results[i]
  BY <1>1, <1>6, Appended
<1> HIDE DEF n, q
<1>9. PICK p \in Nat : n = 2 * p /\ n \div 2 = p /\ (n + 1) \div 2 = p /\ p # 0 /\ (n + 1) % 2 = 1
  <2>1. n \div 2 \in Nat /\ n = 2 * (n \div 2)
    BY <1>1, Halves
  <2>2. (n + 1) \div 2 = n \div 2 /\ (n + 1) % 2 = 1
    BY <1>1, <2>1
  <2> QED
    BY <1>1, <2>1, <2>2
<1>10. ResultsOf(p) = results
  BY <1>9 DEF ResultsOf, n
<1>11. /\ IsList(calls) /\ Len(calls) \in Nat /\ q < Len(calls) /\ q + 1 \in DOMAIN calls
       /\ (\A j \in 1..q : results[j].id = calls[j].id) /\ r.id = calls[q + 1].id
  <2>1. p \in 1..(Len(messages) \div 2) /\ 2 * p = n /\ ~(2 * p < Len(messages))
    BY <1>9 DEF n
  <2>2. q < Len(calls) /\ \A j \in DOMAIN results : results[j].id = calls[j].id
    BY <1>1, <1>2, <1>10, <2>1 DEF TurnsHold, q
  <2>3. IsList(calls)
    BY <1>1, <1>2 DEF TurnsHold
  <2>4. Len(calls) \in Nat /\ DOMAIN calls = 1..Len(calls)
    BY <2>3, Appended DEF IsList
  <2>5. q + 1 \in DOMAIN calls
    BY <1>1, <2>2, <2>4
  <2>6. r.id = calls[q + 1].id
    BY <1>3, DispatchAnswersTheCall
  <2> QED
    BY <1>8, <2>2, <2>3, <2>4, <2>5, <2>6
<1> DEFINE last == q + 1 = Len(calls)
<1>12. /\ IsList(m) /\ m # <<>> /\ Len(m) = (IF last THEN n + 1 ELSE n) /\ Len(m) \div 2 = p
       /\ DOMAIN m = 1..Len(m)
       /\ (\A i \in 1..n : m[i] = messages[i]) /\ (last => m[n + 1] = turn)
  <2>1. CASE last
    <3>1. m = Append(messages, turn)
      BY <1>4, <1>6, <2>1
    <3> QED
      BY <1>1, <1>9, <2>1, <3>1, Appended DEF n
  <2>2. CASE ~last
    <3>1. m = messages
      BY <1>4, <1>6, <2>2
    <3> QED
      BY <1>1, <1>9, <2>2, <3>1 DEF n
  <2> QED
    BY <2>1, <2>2
<1>13. results' = (IF last THEN <<>> ELSE rs)
  BY <1>4, <1>6
<1>14. /\ (2 * p < Len(m) <=> last)
       /\ \A k \in 1..(p - 1) : /\ 2 * k < n /\ 2 * k < Len(m) /\ 2 * k \in 1..n /\ 2 * k + 1 \in 1..n
                                /\ k \in 1..(n \div 2)
  BY <1>9, <1>12
<1>15. ResultsOf(p)' = rs /\ \A k \in 1..(p - 1) : ResultsOf(k)' = ResultsOf(k)
  <2>1. ResultsOf(p)' = rs
    <3>1. CASE last
      BY <1>6, <1>7, <1>9, <1>12, <1>14, <3>1 DEF ResultsOf
    <3>2. CASE ~last
      BY <1>6, <1>13, <1>14, <3>2 DEF ResultsOf
    <3> QED
      BY <3>1, <3>2
  <2>2. ASSUME NEW k \in 1..(p - 1) PROVE ResultsOf(k)' = ResultsOf(k)
    <3>1. m[2 * k + 1] = messages[2 * k + 1]
      BY <1>12, <1>14
    <3>2. ResultsOf(k)' = m[2 * k + 1].results
      BY <1>6, <1>14 DEF ResultsOf
    <3>3. ResultsOf(k) = messages[2 * k + 1].results
      BY <1>14 DEF ResultsOf, n
    <3> QED
      BY <3>1, <3>2, <3>3
  <2> QED
    BY <2>1, <2>2
<1>16. TurnsHold'
  <2>1. ASSUME NEW i \in DOMAIN m
        PROVE  IF i % 2 = 1 THEN m[i].role = "user" /\ m[i].calls = <<>>
               ELSE /\ m[i].role = "assistant" /\ m[i].text \in BOOLEAN
                    /\ IsList(m[i].calls) /\ m[i].calls # <<>>
                    /\ \A j \in DOMAIN m[i].calls : m[i].calls[j].id = <<i - 1, j>>
    <3>1. CASE i \in 1..n
      <4>1. i \in DOMAIN messages /\ m[i] = messages[i]
        BY <1>1, <1>12, <3>1
      <4> QED
        BY <1>1, <4>1 DEF TurnsHold
    <3>2. CASE last /\ i = n + 1
      <4>1. i % 2 = 1
        BY <1>9, <3>2
      <4> QED
        BY <1>7, <1>12, <3>2, <4>1
    <3> QED
      BY <1>1, <1>12, <3>1, <3>2
  <2>2. ASSUME NEW k \in 1..(Len(m) \div 2)
        PROVE  /\ IsList(ResultsOf(k)')
               /\ IF 2 * k < Len(m) THEN Len(ResultsOf(k)') = Len(m[2 * k].calls)
                  ELSE Len(ResultsOf(k)') < Len(m[2 * k].calls)
               /\ \A j \in DOMAIN ResultsOf(k)' : ResultsOf(k)'[j].id = m[2 * k].calls[j].id
    <3>1. CASE k \in 1..(p - 1)
      <4>1. m[2 * k] = messages[2 * k] /\ 2 * k < n /\ 2 * k < Len(m)
        BY <1>12, <1>14, <3>1
      <4>2. /\ IsList(ResultsOf(k)) /\ Len(ResultsOf(k)) = Len(messages[2 * k].calls)
            /\ \A j \in DOMAIN ResultsOf(k) : ResultsOf(k)[j].id = messages[2 * k].calls[j].id
        BY <1>1, <1>14, <3>1, <4>1 DEF TurnsHold, n
      <4> QED
        BY <1>15, <3>1, <4>1, <4>2
    <3>2. CASE k = p
      <4>1. m[2 * k].calls = calls
        BY <1>1, <1>2, <1>9, <1>12, <3>2
      <4>2. \A j \in 1..(q + 1) : rs[j].id = calls[j].id
        BY <1>1, <1>8, <1>11
      <4>3. Len(rs) < Len(calls) \/ (last /\ Len(rs) = Len(calls))
        BY <1>1, <1>8, <1>11
      <4>4. IF 2 * k < Len(m) THEN Len(rs) = Len(calls) ELSE Len(rs) < Len(calls)
        BY <1>8, <1>14, <3>2, <4>3
      <4> QED
        BY <1>8, <1>15, <3>2, <4>1, <4>2, <4>4
    <3> QED
      BY <1>9, <1>12, <3>1, <3>2
  <2> QED
    BY <1>6, <2>1, <2>2 DEF TurnsHold, IsList
<1>17. PICK new : new = <<p, q + 1>>
  OBVIOUS
<1>18. new \in Nat \X Nat /\ Answered' = Answered \cup {new}
  <2>1. Answered' = UNION {{<<k, j>> : j \in DOMAIN ResultsOf(k)'} : k \in 1..p}
    BY <1>6, <1>12 DEF Answered
  <2>2. Answered = UNION {{<<k, j>> : j \in DOMAIN ResultsOf(k)} : k \in 1..p}
    BY <1>9 DEF Answered, n
  <2>3. 1..p = 1..(p - 1) \cup {p}
    BY <1>9
  <2>4. DOMAIN ResultsOf(p)' = DOMAIN ResultsOf(p) \cup {q + 1}
    BY <1>1, <1>8, <1>10, <1>15
  <2> QED
    BY <1>1, <1>15, <1>17, <2>1, <2>2, <2>3, <2>4
<1>19. \A c \in Answered : /\ c \in Nat \X Nat /\ c[1] \in 1..p
                           /\ c[1] = p => c[2] \in 1..q
  BY <1>1, <1>9, <1>10, AnsweredArePairs DEF n, q
<1>20. \A c \in Answered : NotAfter(c, new) /\ ~NotAfter(new, c)
  BY <1>1, <1>9, <1>17, <1>19 DEF NotAfter
<1>21. \A c \in Answered : Called(c)' = Called(c) /\ Result(c)' = Result(c)
  <2>1. SUFFICES ASSUME NEW c \in Answered PROVE Called(c)' = Called(c) /\ Result(c)' = Result(c)
    OBVIOUS
  <2>2. 2 * c[1] \in 1..n
    BY <1>9, <1>19
  <2>3. Called(c)' = Called(c)
    BY <1>6, <1>12, <2>2 DEF Called
  <2>4. Result(c)' = Result(c)
    <3>1. CASE c[1] \in 1..(p - 1)
      BY <1>15, <3>1 DEF Result
    <3>2. CASE c[1] = p
      BY <1>8, <1>10, <1>15, <1>19, <3>2 DEF Result
    <3> QED
      BY <1>9, <1>19, <3>1, <3>2
  <2> QED
    BY <2>3, <2>4
<1>22. Called(new)' = call.name /\ Result(new)' = r
  <2>1. new[1] = p /\ new[2] = q + 1
    BY <1>17
  <2>2. m[2 * p] = messages[n]
    BY <1>1, <1>9, <1>12
  <2>3. Called(new)' = call.name
    BY <1>2, <1>3, <1>6, <2>1, <2>2 DEF Called
  <2>4. Result(new)' = r
    BY <1>8, <1>15, <2>1 DEF Result
  <2> QED
    BY <2>3, <2>4
<1>23. SinksHold' /\ IsList(used)' /\ IsList(charts)' /\ IsList(insights)'
  BY <1>1, <1>4, <1>18, <1>20, <1>21, <1>22, SinksGrow
<1>24. ReplyHolds(reply)' /\ ReplyIsBacked' /\ (pc' # "idle" => reply' = NoReply)
       /\ \/ pc' = "idle" /\ reply' # NoReply /\ last
          \/ pc' = (IF last THEN "model" ELSE "tools") /\ reply' = NoReply
  <2>1. CASE (\E answer : Respond200(answer)) /\ last
    <3>1. PICK answer : Respond200(answer)
      BY <2>1
    <3> QED
      BY <1>1, <1>23, <2>1, <3>1, RespondedIsBacked
  <2>2. CASE pc' = (IF last THEN "model" ELSE "tools") /\ reply' = reply
    BY <1>1, <2>2 DEF ReplyHolds, ReplyIsBacked, NoReply
  <2> QED
    BY <1>5, <2>1, <2>2
<1>25. IsList(results') /\ (pc' # "tools" => results' = <<>>)
  BY <1>8, <1>13, <1>24, EmptyIsList
<1>26. LoopHolds'
  <2>1. Len(m) % 2 = 0 <=> ~last
    BY <1>1, <1>9, <1>12
  <2>2. pc' = "tools" <=> ~last
    BY <1>24
  <2>3. m[1].results = <<>>
    BY <1>1, <1>12
  <2>4. IsList(messages)' /\ IsList(results)'
    BY <1>6, <1>12, <1>25 DEF IsList
  <2>5. kind' \in LoopKinds /\ pc' \in {"idle", "model", "tools"}
    BY <1>1, <1>24
  <2> HIDE DEF last
  <2> QED
    BY <1>6, <1>12, <1>23, <1>24, <1>25, <2>1, <2>2, <2>3, <2>4, <2>5 DEF LoopHolds
<1> QED
  BY <1>16, <1>23, <1>24, <1>26 DEF AssistantInv

LEMMA NextKeepsInv == AssistantInv /\ [Next]_vars => AssistantInv'
<1> SUFFICES ASSUME AssistantInv, [Next]_vars PROVE AssistantInv'
  OBVIOUS
<1>1. ASSUME NEW k \in DOMAIN OneShot, Serve(k) PROVE AssistantInv'
  BY <1>1, ServeKeepsInv
<1>2. ASSUME NEW e \in {"query", "semantic"}, ServeMcp(e) PROVE AssistantInv'
  BY <1>2, ServeMcpKeepsInv
<1>3. ASSUME NEW k \in LoopKinds, Ask(k) PROVE AssistantInv'
  BY <1>3, AskKeepsInv
<1>4. CASE ProviderFails
  BY <1>4, ProviderFailsKeepsInv
<1>5. CASE ModelAnswers
  BY <1>5, ModelAnswersKeepsInv
<1>6. CASE ModelCalls
  BY <1>6, ModelCallsKeepsInv
<1>7. CASE RunTool
  BY <1>7, RunToolKeepsInv
<1>8. CASE Deliver
  BY <1>8, DeliverKeepsInv
<1>9. CASE UNCHANGED vars
  BY <1>9, StutterKeepsInv
<1> QED
  BY <1>1, <1>2, <1>3, <1>4, <1>5, <1>6, <1>7, <1>8, <1>9 DEF Next

-----------------------------------------------------------------------------
(* What the invariant says of the properties.                              *)

LEMMA InvTyped == AssistantInv => TypeOK
<1> SUFFICES ASSUME AssistantInv PROVE TypeOK
  OBVIOUS
<1>1. LoopHolds /\ TurnsHold /\ SinksHold
  BY DEF AssistantInv
<1>2. PICK n \in Nat : n = Len(messages) /\ DOMAIN messages = 1..n
  BY <1>1, Appended DEF LoopHolds, IsList
<1>3. pc # "idle" => kind \in LoopKinds /\ reply = NoReply /\ messages # <<>> /\ n # 0
  BY <1>1, <1>2 DEF LoopHolds, IsList
<1>4. pc = "model" => results = <<>> /\ messages[n].role = "user"
  <2>1. SUFFICES ASSUME pc = "model" PROVE results = <<>> /\ messages[n].role = "user"
    OBVIOUS
  <2>2. n % 2 = 1 /\ n \in DOMAIN messages /\ results = <<>>
    BY <1>1, <1>2, <1>3, <2>1, Halves DEF LoopHolds
  <2> QED
    BY <1>1, <2>2 DEF TurnsHold
<1>5. pc = "tools" => Len(results) < Len(messages[n].calls)
  <2>1. SUFFICES ASSUME pc = "tools" PROVE Len(results) < Len(messages[n].calls)
    OBVIOUS
  <2>2. PICK p \in Nat : n = 2 * p /\ p = n \div 2 /\ p # 0
    <3>1. n % 2 = 0
      BY <1>1, <1>2, <1>3, <2>1 DEF LoopHolds
    <3> QED
      BY <1>3, <2>1, <3>1, Halves
  <2>3. p \in 1..(n \div 2) /\ ~(2 * p < n)
    BY <2>2
  <2>4. ResultsOf(p) = results
    BY <1>2, <2>3 DEF ResultsOf
  <2> QED
    BY <1>1, <1>2, <2>2, <2>3, <2>4 DEF TurnsHold
<1>6. Len(used) >= Len(charts) + Len(insights)
  <2>1. PICK C, I : C = Made("nl_to_chart") /\ I = Made("summarize_insight")
    OBVIOUS
  <2>2. C \in SUBSET Answered /\ I \in SUBSET Answered /\ C \cup I \in SUBSET Answered /\ C \cap I = {}
    BY <2>1 DEF Made
  <2>3. IsFiniteSet(Answered) /\ IsFiniteSet(C) /\ IsFiniteSet(I)
    BY <1>1, <2>2, FS_Subset DEF SinksHold
  <2>4. Cardinality(C \cup I) = Cardinality(C) + Cardinality(I)
    <3>1. Cardinality(C \cup I) = Cardinality(C) + Cardinality(I) - Cardinality(C \cap I)
      BY <2>3, FS_Union
    <3>2. Cardinality(C \cap I) = 0
      BY <2>2, FS_EmptySet
    <3>3. Cardinality(C) \in Nat /\ Cardinality(I) \in Nat
      BY <2>3, FS_CardinalityType
    <3> QED
      BY <3>1, <3>2, <3>3
  <2>5. Cardinality(C \cup I) <= Cardinality(Answered)
    BY <2>2, <2>3, FS_Subset
  <2>6. Len(used) = Cardinality(Answered)
    BY <1>1 DEF SinksHold, Lists
  <2>7. Len(charts) = Cardinality(C) /\ Len(insights) = Cardinality(I)
    BY <1>1, <2>1 DEF SinksHold, Lists, Contents
  <2>8. Cardinality(C) \in Nat /\ Cardinality(I) \in Nat /\ Cardinality(Answered) \in Nat
    BY <2>3, FS_CardinalityType
  <2> QED
    BY <2>4, <2>5, <2>6, <2>7, <2>8
<1> QED
  BY <1>1, <1>2, <1>3, <1>4, <1>5, <1>6 DEF TypeOK, LoopHolds

\* The blocks of an assistant turn carry the ids of its calls after its text.
LEMMA CallsOnTheWire ==
    ASSUME NEW turn, turn.role = "assistant", turn.text \in BOOLEAN, IsList(turn.calls),
           turn.calls # <<>>, NEW b, b = ToAnthropicMessage(turn).blocks
    PROVE  /\ ToAnthropicMessage(turn).role = "assistant" /\ b # <<>>
           /\ \E w \in {0, 1} :
                 /\ w = (IF b[1].type = "text" THEN 1 ELSE 0)
                 /\ Len(b) - w = Len(turn.calls)
                 /\ \A k \in 1..Len(turn.calls) : b[w + k].id = turn.calls[k].id
<1>1. PICK l \in Nat : l = Len(turn.calls) /\ DOMAIN turn.calls = 1..l /\ l # 0
  <2>1. DOMAIN turn.calls = 1..Len(turn.calls) /\ Len(turn.calls) \in Nat
    BY Appended DEF IsList
  <2>2. Len(turn.calls) # 0
    BY DEF IsList
  <2> QED
    BY <2>1, <2>2
<1>2. PICK u : u = [i \in 1..l |-> Block("tool_use", turn.calls[i].id)]
  OBVIOUS
<1>3. PICK text : text = Block("text", None)
  OBVIOUS
<1>4. text.type = "text" /\ \A i \in 1..l : u[i].type = "tool_use" /\ u[i].id = turn.calls[i].id
  BY <1>2, <1>3 DEF Block
<1>5. PICK S : S = {u[i] : i \in 1..l} \cup {text}
  OBVIOUS
<1>6. u \in [1..l -> S] /\ text \in S
  BY <1>2, <1>5
<1>7. u \in Seq(S) /\ Len(u) = l /\ <<text>> \in Seq(S) /\ <<>> \in Seq(S)
  BY <1>1, <1>6, SeqDef
<1>8. /\ ToAnthropicMessage(turn).role = "assistant"
      /\ b = (IF turn.text THEN <<text>> ELSE <<>>) \o u
  BY <1>1, <1>2, <1>3 DEF ToAnthropicMessage
<1>9. CASE turn.text
  <2>1. b = <<text>> \o u
    BY <1>8, <1>9
  <2>2. Len(b) = 1 + l /\ b[1] = text /\ \A k \in 1..l : b[1 + k] = u[k]
    BY <1>7, <2>1
  <2> QED
    BY <1>1, <1>4, <1>8, <2>2
<1>10. CASE ~turn.text
  <2>1. b = <<>> \o u
    BY <1>8, <1>10
  <2>2. b = u
    BY <1>7, <2>1
  <2> QED
    BY <1>1, <1>4, <1>7, <1>8, <2>2
<1> QED
  BY <1>9, <1>10

\* The blocks of a user turn carry the ids of its results, or its text.
LEMMA ResultsOnTheWire ==
    ASSUME NEW turn, turn.role = "user", NEW b, b = ToAnthropicMessage(turn).blocks
    PROVE  /\ ToAnthropicMessage(turn).role = "user"
           /\ turn.results = <<>> => b # <<>>
           /\ IsList(turn.results) /\ turn.results # <<>> =>
                 /\ b # <<>> /\ b[1].type # "text" /\ Len(b) = Len(turn.results)
                 /\ \A k \in 1..Len(turn.results) : b[k].id = turn.results[k].id
<1>1. ToAnthropicMessage(turn).role = "user"
  BY DEF ToAnthropicMessage
<1>2. ASSUME turn.results = <<>> PROVE b # <<>>
  <2>1. b = <<Block("text", None)>>
    BY <1>2 DEF ToAnthropicMessage
  <2> QED
    BY <2>1
<1>3. ASSUME IsList(turn.results), turn.results # <<>>
      PROVE  /\ b # <<>> /\ b[1].type # "text" /\ Len(b) = Len(turn.results)
             /\ \A k \in 1..Len(turn.results) : b[k].id = turn.results[k].id
  <2>1. PICK l \in Nat : l = Len(turn.results) /\ DOMAIN turn.results = 1..l /\ l # 0
    <3>1. DOMAIN turn.results = 1..Len(turn.results) /\ Len(turn.results) \in Nat
      BY <1>3, Appended DEF IsList
    <3>2. Len(turn.results) # 0
      BY <1>3 DEF IsList
    <3> QED
      BY <3>1, <3>2
  <2>2. b = [i \in 1..l |-> Block("tool_result", turn.results[i].id)]
    BY <1>3, <2>1 DEF ToAnthropicMessage
  <2>3. \A i \in 1..l : b[i].type = "tool_result" /\ b[i].id = turn.results[i].id
    BY <2>2 DEF Block
  <2>4. PICK S : S = {b[i] : i \in 1..l}
    OBVIOUS
  <2>5. b \in [1..l -> S]
    BY <2>2, <2>4
  <2>6. b \in Seq(S) /\ Len(b) = l
    BY <2>1, <2>5, SeqDef
  <2> QED
    BY <2>1, <2>3, <2>6
<1> QED
  BY <1>1, <1>2, <1>3

LEMMA InvAnswered == AssistantInv => TranscriptIsAnswered
<1> DEFINE wire == [i \in DOMAIN messages |-> ToAnthropicMessage(messages[i])]
           words(t) == IF t.blocks[1].type = "text" THEN 1 ELSE 0
           Ids(t) == [k \in 1..(Len(t.blocks) - words(t)) |-> t.blocks[words(t) + k].id]
<1> SUFFICES ASSUME AssistantInv, pc = "model"
             PROVE  /\ Len(wire) % 2 = 1
                    /\ \A i \in DOMAIN wire :
                         /\ wire[i].role = IF i % 2 = 1 THEN "user" ELSE "assistant"
                         /\ wire[i].blocks # <<>>
                         /\ i % 2 = 0 => Ids(wire[i]) = Ids(wire[i + 1])
                    /\ \A i, j \in DOMAIN messages : \A a \in DOMAIN messages[i].calls :
                         \A b \in DOMAIN messages[j].calls :
                            messages[i].calls[a].id = messages[j].calls[b].id => <<i, a>> = <<j, b>>
  BY DEF TranscriptIsAnswered
<1>1. LoopHolds /\ TurnsHold
  BY DEF AssistantInv
<1>2. PICK n \in Nat : n = Len(messages) /\ DOMAIN messages = 1..n /\ n % 2 = 1
  <2>1. Len(messages) \in Nat /\ DOMAIN messages = 1..Len(messages)
    BY <1>1, Appended DEF LoopHolds, IsList
  <2>2. Len(messages) % 2 = 1
    BY <1>1, <2>1, Halves DEF LoopHolds
  <2> QED
    BY <2>1, <2>2
<1>3. DOMAIN wire = 1..n /\ Len(wire) = n /\ \A i \in 1..n : wire[i] = ToAnthropicMessage(messages[i])
  <2>1. PICK S : S = {wire[i] : i \in 1..n}
    OBVIOUS
  <2>2. wire \in [1..n -> S]
    BY <1>2, <2>1
  <2>3. Len(wire) = n
    BY <1>2, <2>2, SeqDef
  <2> QED
    BY <1>2, <2>3
<1>4. \A i \in 1..n :
         IF i % 2 = 1 THEN messages[i].role = "user" /\ messages[i].calls = <<>>
         ELSE /\ messages[i].role = "assistant" /\ messages[i].text \in BOOLEAN
              /\ IsList(messages[i].calls) /\ messages[i].calls # <<>>
              /\ \A j \in DOMAIN messages[i].calls : messages[i].calls[j].id = <<i - 1, j>>
  BY <1>1, <1>2 DEF TurnsHold
<1>5. ASSUME NEW i \in 1..n, i % 2 = 0
      PROVE  /\ i + 1 \in 1..n /\ (i + 1) % 2 = 1
             /\ IsList(messages[i + 1].results)
             /\ Len(messages[i + 1].results) = Len(messages[i].calls)
             /\ \A j \in DOMAIN messages[i + 1].results :
                   messages[i + 1].results[j].id = messages[i].calls[j].id
  <2>1. PICK k \in Nat : i = 2 * k /\ k # 0
    BY <1>5, Halves
  <2>2. k \in 1..(n \div 2) /\ 2 * k < n /\ i + 1 \in 1..n /\ (i + 1) % 2 = 1
    <3>1. n = 2 * (n \div 2) + 1 /\ n \div 2 \in Nat
      BY <1>2, Halves
    <3> QED
      BY <2>1, <3>1
  <2>3. ResultsOf(k) = messages[i + 1].results
    BY <1>2, <2>1, <2>2 DEF ResultsOf
  <2> QED
    BY <1>1, <1>2, <2>1, <2>2, <2>3 DEF TurnsHold
<1>6. messages[1].results = <<>>
  <2>1. messages # <<>>
    BY <1>1 DEF LoopHolds
  <2> QED
    BY <1>1, <2>1 DEF LoopHolds
<1>7. \A i \in 1..n : i % 2 = 1 /\ i # 1 =>
         IsList(messages[i].results) /\ messages[i].results # <<>>
  <2>1. SUFFICES ASSUME NEW i \in 1..n, i % 2 = 1, i # 1
                 PROVE  IsList(messages[i].results) /\ messages[i].results # <<>>
    OBVIOUS
  <2>2. PICK h \in 1..n : h % 2 = 0 /\ h + 1 = i
    <3>1. i - 1 \in 1..n /\ (i - 1) % 2 = 0 /\ (i - 1) + 1 = i
      BY <2>1
    <3> QED
      BY <3>1
  <2>3. IsList(messages[i].results) /\ Len(messages[i].results) = Len(messages[h].calls)
    BY <1>5, <2>2
  <2>4. IsList(messages[h].calls) /\ messages[h].calls # <<>>
    BY <1>4, <2>2
  <2>5. Len(messages[h].calls) # 0
    BY <2>4 DEF IsList
  <2> QED
    BY <2>3, <2>5, EmptyIsList
<1> HIDE DEF wire
<1>8. ASSUME NEW i \in 1..n
      PROVE  /\ wire[i].role = IF i % 2 = 1 THEN "user" ELSE "assistant"
             /\ wire[i].blocks # <<>>
  <2>1. CASE i % 2 = 1
    <3>1. PICK turn, b : turn = messages[i] /\ b = wire[i].blocks
      OBVIOUS
    <3>2. turn.role = "user" /\ wire[i] = ToAnthropicMessage(turn)
      BY <1>3, <1>4, <2>1, <3>1
    <3>3. turn.results = <<>> \/ (IsList(turn.results) /\ turn.results # <<>>)
      BY <1>6, <1>7, <2>1, <3>1
    <3>4. wire[i].role = "user" /\ b # <<>>
      BY <3>1, <3>2, <3>3, ResultsOnTheWire
    <3> QED
      BY <2>1, <3>1, <3>4
  <2>2. CASE i % 2 # 1
    <3>1. PICK turn, b : turn = messages[i] /\ b = wire[i].blocks
      OBVIOUS
    <3>2. /\ turn.role = "assistant" /\ turn.text \in BOOLEAN /\ IsList(turn.calls)
          /\ turn.calls # <<>> /\ wire[i] = ToAnthropicMessage(turn)
      BY <1>3, <1>4, <2>2, <3>1
    <3>3. wire[i].role = "assistant" /\ b # <<>>
      BY <3>1, <3>2, CallsOnTheWire
    <3> QED
      BY <2>2, <3>1, <3>3
  <2> QED
    BY <2>1, <2>2
<1>9. ASSUME NEW i \in 1..n, i % 2 = 0
      PROVE  Ids(wire[i]) = Ids(wire[i + 1])
  <2>1. PICK c : c = messages[i].calls
    OBVIOUS
  <2>2. PICK r : r = messages[i + 1].results
    OBVIOUS
  <2>3. PICK s, t : s = wire[i].blocks /\ t = wire[i + 1].blocks
    OBVIOUS
  <2>4. i + 1 \in 1..n /\ (i + 1) % 2 = 1 /\ i + 1 # 1 /\ IsList(r) /\ Len(r) = Len(c)
        /\ (\A j \in DOMAIN r : r[j].id = c[j].id) /\ r # <<>>
    <3>1. i + 1 \in 1..n /\ (i + 1) % 2 = 1 /\ i + 1 # 1
      BY <1>5, <1>9
    <3>2. IsList(r) /\ Len(r) = Len(c) /\ \A j \in DOMAIN r : r[j].id = c[j].id
      BY <1>5, <1>9, <2>1, <2>2
    <3>3. r # <<>>
      BY <1>7, <2>2, <3>1
    <3> QED
      BY <3>1, <3>2, <3>3
  <2>5. DOMAIN r = 1..Len(c)
    BY <2>4, Appended
  <2>6. PICK w \in {0, 1} : /\ w = (IF s[1].type = "text" THEN 1 ELSE 0)
                            /\ Len(s) - w = Len(c)
                            /\ \A k \in 1..Len(c) : s[w + k].id = c[k].id
    <3>1. PICK turn : turn = messages[i]
      OBVIOUS
    <3>2. turn.role = "assistant" /\ turn.text \in BOOLEAN /\ IsList(turn.calls) /\ turn.calls # <<>>
      BY <1>4, <1>9, <3>1
    <3>3. s = ToAnthropicMessage(turn).blocks /\ c = turn.calls
      BY <1>3, <2>1, <2>3, <3>1
    <3> QED
      BY <3>2, <3>3, CallsOnTheWire
  <2>7. /\ t[1].type # "text" /\ Len(t) = Len(c)
        /\ \A k \in 1..Len(c) : t[k].id = r[k].id
    BY <1>3, <1>4, <2>2, <2>3, <2>4, ResultsOnTheWire
  <2>8. Ids(wire[i]) = [k \in 1..Len(c) |-> c[k].id]
    BY <2>3, <2>6
  <2>9. Len(c) \in Nat
    BY <1>4, <1>9, <2>1 DEF IsList
  <2>10. words(wire[i + 1]) = 0 /\ Len(t) - 0 = Len(c) /\ \A k \in 1..Len(c) : 0 + k = k
    BY <2>3, <2>7, <2>9
  <2>11. Ids(wire[i + 1]) = [k \in 1..Len(c) |-> t[k].id]
    BY <2>3, <2>10
  <2>12. \A k \in 1..Len(c) : t[k].id = c[k].id
    BY <2>4, <2>5, <2>7
  <2> QED
    BY <2>8, <2>11, <2>12
<1>10. ASSUME NEW i \in 1..n, NEW j \in 1..n, NEW a \in DOMAIN messages[i].calls,
              NEW b \in DOMAIN messages[j].calls,
              messages[i].calls[a].id = messages[j].calls[b].id
       PROVE  <<i, a>> = <<j, b>>
  <2>1. \A h \in 1..n : \A e \in DOMAIN messages[h].calls : messages[h].calls[e].id = <<h - 1, e>>
    BY <1>4, EmptyIsList
  <2>2. <<i - 1, a>> = <<j - 1, b>>
    BY <1>10, <2>1
  <2> QED
    BY <2>2
<1> HIDE DEF Ids
<1> QED
  BY <1>2, <1>3, <1>8, <1>9, <1>10

-----------------------------------------------------------------------------
(* The theorems.                                                           *)

LEMMA SpecKeepsInv == Spec => []AssistantInv
BY InitInv, NextKeepsInv, PTL DEF Spec

\* A request in progress has a kind, a transcript that ends as its step demands
\* and no reply yet; the sinks never hold more than was called for
\* (ChatService.ask, Agent.run).
THEOREM AssistantTypeCorrect == Spec => []TypeOK
BY SpecKeepsInv, InvTyped, PTL

\* Every transcript the loop sends is one the provider takes, however many turns
\* and calls it has and whatever the tools do (ChatService.ask, Agent.run,
\* AnthropicProvider._to_anthropic_message).
THEOREM TranscriptsAreAnswered == Spec => []TranscriptIsAnswered
BY SpecKeepsInv, InvAnswered, PTL

\* The charts, insights and tool names of a reply are those of the calls in its
\* transcript, in order: none is lost, repeated or kept of a call that failed
\* (build_handlers, build_skills, _result).
THEOREM RepliesAreBacked == Spec => []ReplyIsBacked
<1>1. AssistantInv => ReplyIsBacked
  BY DEF AssistantInv
<1> QED
  BY <1>1, SpecKeepsInv, PTL

\* No endpoint answers with SQL, a chart, rows or a suggestion that its gate did
\* not pass, whatever the model writes (validate_and_cap, validate_chart_spec,
\* validate_suggestions, _check_grounded, _cap_rows).
THEOREM AnswersStayGoverned == Spec => []AnswersAreGoverned
<1>1. AssistantInv => AnswersAreGoverned
  BY InvGoverned DEF AssistantInv
<1> QED
  BY <1>1, SpecKeepsInv, PTL

\* A summary states no plain number that is not near one of the rows the prompt
\* showed, for every value and every number of rows (verify_no_invented_numbers).
THEOREM SummariesStayNear == Spec => []SummariesAreNear
<1>1. AssistantInv => SummariesAreNear
  BY InvGoverned DEF AssistantInv
<1> QED
  BY <1>1, SpecKeepsInv, PTL

=============================================================================
