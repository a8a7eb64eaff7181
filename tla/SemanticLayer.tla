--------------------------- MODULE SemanticLayer ---------------------------
(***************************************************************************)
(* The governed semantic layer: the tenant-scoped Cube client and the      *)
(* service that checks every reference of a structured query against the   *)
(* tenant's meta before it is sent.                                        *)
(*                                                                         *)
(* A name is [word, form]: two names with one word differ only in case.    *)
(***************************************************************************)
EXTENDS Outcomes, Integers, Sequences, FiniteSets

CONSTANTS
    Measures, Dimensions,   \* the names of the tenant's meta
    CubeFaults,             \* subset of {403, 500, None}: what Cube may answer, or nothing
    CubeRows,               \* how many rows Cube may have, a set of numbers
    MaxQueryRows,           \* settings.max_query_rows
    MaxFilterValues         \* settings.max_filter_values

Lower(name) == name.word
LowerAll(names) == {Lower(n) : n \in names}

\* 403 and every other status but 200 are exceptions; an exception of the
\* HTTP client itself is not caught.
CubeError(status) ==
    CASE status = 403  -> Raise("CubeAuthError")
      [] status = None -> Raise("Unexpected")
      [] OTHER         -> Raise("CubeQueryError")
CubeFailures == {CubeError(s) : s \in CubeFaults}

Meta == CubeFailures \cup {Return([measures |-> Measures, dimensions |-> Dimensions])}

\* Cube knows members by their exact name, and answers 400 to any other.
CubeQuery(measures, dimensions, limit) ==
    CubeFailures \cup
    IF measures \subseteq Measures /\ dimensions \subseteq Dimensions
    THEN {Return([columns |-> measures \cup dimensions,
                  rows |-> IF limit # None /\ n > limit THEN limit ELSE n]) : n \in CubeRows}
    ELSE {CubeError(400)}

\* SemanticQueryRequest: at least one field, and operators with their values.
ValuesFit(filter) == (filter.operator \in {"set", "notSet"}) <=> ~filter.values
RequestValid(req) ==
    /\ req.measures # {} \/ req.dimensions # {} \/ req.time # {}
    /\ \A f \in req.filters : ValuesFit(f)
    /\ req.limit # None => req.limit >= 1

\* A bucketed time dimension comes back under name.granularity.
ResultKey(td) ==
    IF td.granular THEN [word |-> td.dimension.word, form |-> "bucket"] ELSE td.dimension

Grounded(req, meta) ==
    /\ req.measures \subseteq meta.measures
    /\ req.dimensions \subseteq meta.dimensions
    /\ \A td \in req.time : td.dimension \in meta.dimensions
    /\ req.order \subseteq req.measures \cup req.dimensions \cup {ResultKey(td) : td \in req.time}
    /\ \A f \in req.filters : f.member \in meta.measures \cup meta.dimensions

ClampLimit(limit, cap) == IF limit # None /\ limit < cap THEN limit ELSE cap

ListModels == Meta

\* The columns are the dimensions, the time buckets and the measures.
SemanticQuery(req) ==
    Then(Meta, LAMBDA meta :
        IF ~Grounded(req, meta) THEN {Raise("SemanticValidationError")}
        ELSE {IF Returned(o) THEN Return([o.val EXCEPT !.columns =
                    @ \cup {ResultKey(td) : td \in req.time}]) ELSE o :
                o \in CubeQuery(req.measures, req.dimensions,
                                ClampLimit(req.limit, MaxQueryRows))})

\* Distinct values of one governed dimension: empty values dropped, the rest
\* without repetition, so no more of them than rows.
DistinctValues(req) ==
    Then(Meta, LAMBDA meta :
        IF \/ req.member \notin meta.dimensions
           \/ \E f \in req.constraints : f.member \notin meta.measures \cup meta.dimensions
        THEN {Raise("SemanticValidationError")}
        ELSE Then(CubeQuery({}, {req.member}, ClampLimit(req.limit, MaxFilterValues)),
                  LAMBDA t : {Return([columns |-> {req.member}, rows |-> n]) : n \in 0..t.rows}))
=============================================================================
