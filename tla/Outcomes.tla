------------------------------ MODULE Outcomes ------------------------------
(***************************************************************************)
(* A service call either returns a value or raises an exception.  A call   *)
(* whose answer depends on the outside world (a model, Cube, ClickHouse)   *)
(* is the SET of the outcomes it may have; calls are chained with Then, as *)
(* the code chains awaits, and a handler catches by name with OrElse.      *)
(***************************************************************************)
CONSTANT None        \* Python's None, and the value of what raised

\* The exceptions some handler names; "Unexpected" stands for all others.
Exceptions ==
    {"SQLValidationError", "SemanticValidationError", "ChartValidationError",
     "InsightGuardrailError", "CubeAuthError", "CubeQueryError", "LLMProviderError",
     "HTTPException", "ValueError", "Unexpected"}
ASSUME NoneIsNoException == None \notin Exceptions

Return(v) == [exc |-> None, val |-> v]
Raise(e)  == [exc |-> e, val |-> None]

Returned(o) == o.exc = None

\* The values that come back from the calls of S that do come back.
Values(S) == {o.val : o \in {r \in S : Returned(r)}}
Raised(S) == {o \in S : ~Returned(o)}

\* x = await S; return F(x)
Then(S, F(_)) == Raised(S) \cup UNION {F(v) : v \in Values(S)}

\* try: S  except e: T
OrElse(S, e, T) ==
    IF Raise(e) \in S THEN (S \ {Raise(e)}) \cup T ELSE S
=============================================================================
