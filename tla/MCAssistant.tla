---------------------------- MODULE MCAssistant ----------------------------
EXTENDS Assistant

Name(w, f) == [word |-> w, form |-> f]
total == Name("total", "asis")
TOTAL == Name("total", "upper")
share == Name("share", "asis")
region == Name("region", "asis")
REGION == Name("region", "upper")
bogus == Name("bogus", "asis")

MCMeasures == {total, share}
MCDimensions == {region}

Table(d, w) == [db |-> d, word |-> w, function |-> FALSE]
MCSqlTexts ==
    [form : RefusedForms \cup {"untokenizable"}, tables : {{}}, limit : {None}, tail : {FALSE}]
      \cup [form : {"select"}, tail : BOOLEAN,
            limit : {None, Plain(1), Plain(9)} \cup [reads : {None, 1, 9}, lets : {9}],
            tables : SUBSET {Table("", "sales"), Table("other", "sales"), Table("", "cte"),
                             [db |-> "", word |-> "s3", function |-> TRUE]}]

Query(refs, d, inline) == [metric_refs |-> refs, dataset |-> d, inline |-> inline]
Encoding(x, series, breakdown) == [x |-> x, series |-> series, breakdown |-> breakdown]
Spec0(type, q, e, extra) == [json |-> TRUE, extra |-> extra, type |-> type, query |-> q, encoding |-> e]
Inline(dims, metrics) == [dimensions |-> dims, metrics |-> metrics]
Metric(fn, c, a, p) == [function |-> fn, column |-> c, alias |-> a, place |-> p]

bar == Spec0("bar", Query({total}, None, None), Encoding(region, {total}, {}), FALSE)
MCChartTexts ==
    {bar, [bar EXCEPT !.json = FALSE], [bar EXCEPT !.extra = TRUE],
     [bar EXCEPT !.encoding.x = None], [bar EXCEPT !.encoding.x = bogus],
     [bar EXCEPT !.query.dataset = "d1"],
     [bar EXCEPT !.query.inline = Inline({}, {})],
     [bar EXCEPT !.type = "heatmap"],
     Spec0("table", Query({total, share}, None, None), Encoding(None, {share}, {}), FALSE)}
      \cup {Spec0("bar", Query(m, None, None), Encoding(x, s, {}), FALSE) :
              m \in SUBSET {total, TOTAL, bogus}, s \in {{total}, {TOTAL}, {share}, {bogus}},
              x \in {region, REGION}}

Suggestion(dims, metrics, x, series) ==
    [titled |-> TRUE, spec |-> Spec0("bar", Query({}, "d1", Inline(dims, metrics)),
                                     Encoding(x, series, {}), FALSE)]
sum == Metric("sum", total, Name("amount", "asis"), "0")
avg == Metric("avg", total, None, "1")
count == Metric("count", None, None, "0")
MCSuggestionTexts ==
    {{}, {Suggestion({region}, {sum}, region, {Name("amount", "upper")}),
          Suggestion({bogus}, {sum}, region, {Name("amount", "asis")}),
          Suggestion({region}, {sum}, bogus, {Name("amount", "asis")})},
     {Suggestion({region}, {count}, region, {Name("count_0", "asis")})},
     {Suggestion({region}, {sum, avg}, region, {Name("avg_0", "asis")})},
     {[Suggestion({}, {sum}, region, {Name("amount", "asis")}) EXCEPT !.titled = FALSE]}}

Token(v, f) == [value |-> v, form |-> f]
MCSummaries ==
    {{}} \cup {{Token(v, "plain")} : v \in {-15, 2, 4, 5, 15, 16, 20, 25, 30, 2000}}
      \cup {{Token(15, "plain"), Token(v, f)} : v \in {15, 900}, f \in {"plain", "signed currency", "abbreviated"}}
Cell(v) == [numeric |-> TRUE, value |-> v]
MCResultSets ==
    {<<>>, <<[numeric |-> FALSE, value |-> 15]>>}
      \cup {<<Cell(v)>> : v \in {-15, 0, 5, 15, 24, 2000}}
      \cup {<<Cell(v), Cell(16), Cell(900)>> : v \in {5, 2000}}

Filter(m, op, v) == [member |-> m, operator |-> op, values |-> v]
Request(ms, ds, t, o, fs, l) ==
    [measures |-> ms, dimensions |-> ds, time |-> t, order |-> o, filters |-> fs, limit |-> l]
MCSemanticRequests ==
    {Request({total}, {region}, {}, {total}, {}, None), Request({}, {}, {}, {}, {}, None),
     Request({TOTAL}, {}, {}, {}, {}, 1), Request({total}, {bogus}, {}, {}, {}, 1),
     Request({total}, {}, {[dimension |-> region, granular |-> TRUE]}, {}, {}, 9),
     Request({total}, {}, {[dimension |-> bogus, granular |-> FALSE]}, {}, {}, 1),
     Request({total}, {}, {}, {share}, {}, 1),
     Request({total}, {}, {}, {}, {Filter(bogus, "equals", TRUE)}, 1),
     Request({total}, {}, {}, {}, {Filter(region, "set", TRUE)}, 1)}
MCValuesRequests ==
    {[member |-> m, constraints |-> c, limit |-> l] :
       m \in {region, total}, c \in {{}, {Filter(bogus, "equals", TRUE)}}, l \in {None, 1, 9}}

MCDatasetColumns == [d \in {"d1", "d2"} |-> IF d = "d1" THEN {total, region} ELSE {share}]

MCToolReplies ==
    {[text |-> t, names |-> <<>>] : t \in BOOLEAN}
      \cup {[text |-> FALSE, names |-> <<n>>] : n \in {"nl_to_chart", "no_such_tool", "summarize_insight"}}
      \cup {[text |-> TRUE, names |-> <<m, n>>] :
              m, n \in {"nl_to_chart", "query_semantic_model"}}
=============================================================================
