---------------------------- MODULE MCDataPlane ----------------------------
EXTENDS DataPlane, TLC

Column(n) == [name |-> n]
region == Column("region")
amount == Column("amount")

File(name, size, parses, rows) ==
    [name |-> name, size |-> size, parses |-> parses, columns |-> {region, amount},
     numeric |-> {amount}, rows |-> rows]
MCFiles ==
    {File("csv", 1, TRUE, 3), File("csv", 1, FALSE, 0), File("none", 1, TRUE, 1),
     File("other", 1, TRUE, 1), File("csv", 0, TRUE, 0), File("csv", 2, TRUE, 1)}

Metric(f, c, a) == [function |-> f, column |-> c, alias |-> a]
Request(dims, metrics, filters, limit) ==
    [dimensions |-> dims, metrics |-> metrics, filters |-> filters, limit |-> limit]
sum == Metric("sum", amount, amount)
Both == Request(<<region>>, <<sum, Metric("count", None, None)>>, {}, None)
Total == Request(<<>>, <<sum>>, {region}, 1)
Invalid == Request(<<>>, <<Metric("sum", None, None)>>, {}, None)

Unknown == Request(<<Column("shop")>>, <<Metric("count", None, None)>>, {}, 0)
Summed(c, a) == Request(<<>>, <<Metric("avg", c, a), Metric("max", c, None)>>, {}, None)
Twice == Request(<<region>>, <<Metric("sum", amount, Column("n")), Metric("count", None, Column("n"))>>, {}, None)
MCRequests == {Both, Total, Invalid, Unknown, Summed(region, None), Summed(amount, amount), Twice}

Report(d, q, recipients, due) ==
    [enabled |-> TRUE, dataset |-> d, request |-> q, recipients |-> recipients, due |-> due]
MCReportRows ==
    {Report("d1", q, {"someone"}, {0, 1}) : q \in {Both, Invalid}}
      \cup {Report("d1", Total, {}, {0, 1}),
            Report("d2", Total, {"someone"}, {0, 1}),
            Report("d1", Total, {"someone"}, None)}

MCAssets == {{"raw", "staging", "mart", "serving"}, {"staging", "mart", "serving"}, {"serving"}, {"raw"}}
Row(kind, target) == [kind |-> kind, target |-> target, enabled |-> TRUE]
MCRegistries ==
    {[schedules |-> {Row("pipeline", "p"), Row("other", "p")}, targets |-> "p" :> [selection |-> Nothing],
      tenants |-> {}],
     [schedules |-> {Row("transform_job", "w")}, targets |-> "w" :> [selection |-> ""], tenants |-> {}],
     [schedules |-> {Row("transform_job", "m")}, targets |-> "m" :> [selection |-> "mart"], tenants |-> {}],
     [schedules |-> {}, targets |-> <<>>, tenants |-> {"t"}]}

MCTagSets == {{amount}}

Pipeline(o, s, t) == [object |-> o, source |-> s, target |-> t]
MCPipelineRows == {Pipeline("orders", "shop", "t1"), Pipeline(NoObject, "files", "t1")}
MCModelRows == {[name |-> "c1", base_table |-> "t1", enabled |-> TRUE]}

Symmetry == Permutations(Messages) \cup Permutations(DagsterRuns) \cup Permutations(CatalogRuns)
=============================================================================
