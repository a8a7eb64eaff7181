--------------------------- MODULE DatasetQueries ---------------------------
(***************************************************************************)
(* The structured query on a dataset, shared by the query endpoint, the    *)
(* scheduled reports and the KPI alerts: the QueryRequest, the SELECT that *)
(* is built from it, what ClickHouse answers, and the masking of the       *)
(* columns tagged sensitive (src/backend/app/schemas/query.py,             *)
(* services/clickhouse_datasets.py, core/sensitive.py).                    *)
(*                                                                         *)
(* What is stored is the record of a file: its columns, which of them are  *)
(* numeric, and the number of its rows.  Of a result only the shape is     *)
(* kept: the names of its columns, the number of its rows and which of its *)
(* columns show the mask.                                                  *)
(***************************************************************************)
EXTENDS Naturals, Sequences

LOCAL INSTANCE Functions

CONSTANTS
    None,
    MaxQueryRows      \* settings.max_query_rows

ASSUME MaxQueryRowsIsPositive == MaxQueryRows \in Nat \ {0}

\* A metric other than count needs a column; there is at least one metric; a
\* limit is at least 1.
MetricValid(metric) == metric.function # "count" => metric.column # None

RequestValid(request) ==
    /\ request.metrics # <<>>
    /\ \A i \in DOMAIN request.metrics : MetricValid(request.metrics[i])
    /\ request.limit # None => request.limit >= 1

\* The name of a metric's result: its alias, or function_index.
Alias(metric, index) ==
    IF metric.alias # None THEN metric.alias ELSE [name |-> metric.function, index |-> index]

Selected(request) ==
    request.dimensions \o [i \in DOMAIN request.metrics |-> Alias(request.metrics[i], i - 1)]

Mentioned(request) ==
    Range(request.dimensions) \cup request.filters
      \cup ({request.metrics[i].column : i \in DOMAIN request.metrics} \ {None})

Limit(request) ==
    IF request.limit = None \/ request.limit > MaxQueryRows THEN MaxQueryRows ELSE request.limit

\* The rows of the answer: one for each group, one in all without GROUP BY.
Groups(request, stored) == IF request.dimensions = <<>> THEN 1 ELSE stored.rows

\* An alias hides the column of its name from the other expressions.
Hidden(request, i) ==
    /\ request.metrics[i].alias # None
    /\ request.metrics[i].alias \in Range(request.dimensions) \cup request.filters
         \cup {request.metrics[j].column : j \in DOMAIN request.metrics \ {i}}

\* Two different metrics do not go by one name.
NamesApart(request) ==
    \A i, j \in DOMAIN request.metrics :
       LET a == request.metrics[i]   b == request.metrics[j]
       IN  Alias(a, i - 1) = Alias(b, j - 1) => a.function = b.function /\ a.column = b.column

\* ClickHouse knows the columns of the file only, adds up numbers only, and
\* takes no aggregate in a filter or in another aggregate, and no name for two
\* expressions.  The filters' values are taken to be of their columns' types.
Answerable(request, stored) ==
    /\ Mentioned(request) \subseteq stored.columns
    /\ \A i \in DOMAIN request.metrics :
          request.metrics[i].function \in {"sum", "avg"} => request.metrics[i].column \in stored.numeric
    /\ \A i \in DOMAIN request.metrics : ~Hidden(request, i)
    /\ NamesApart(request)

RunAggregation(request, stored) ==
    [columns |-> Selected(request),
     rows    |-> LET n == Groups(request, stored)
                 IN  IF n < Limit(request) THEN n ELSE Limit(request)]

\* Columns are masked by the name they have in the RESULT: a metric on a tagged
\* column is masked only under an alias that is that column's name.  Without a
\* marker a value is revealed as it is (core/crypto.py).
ApplyToRows(result, tags, reveal) ==
    [columns |-> result.columns, rows |-> result.rows,
     masked |-> IF reveal THEN {} ELSE Range(result.columns) \cap tags]

\* The role may be configured only together with a key.
MayViewSensitive(principal, encryption) == encryption.on /\ encryption.role \in principal
=============================================================================
