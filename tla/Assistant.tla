----------------------------- MODULE Assistant -----------------------------
(***************************************************************************)
(* The AI side of the API: natural language to SQL and to charts, insight  *)
(* summaries, chart suggestions, the structured semantic queries, the      *)
(* chat and the assistant (a bounded loop of model turns and tool calls),  *)
(* and the MCP server that proxies three of them.                          *)
(*                                                                         *)
(* A request shares no mutable state with another one, so one is served at *)
(* a time.  The one-shot endpoints answer in a single step, with one of    *)
(* the responses their calls can lead to; chat and assistant take a step   *)
(* per model turn and per tool call.                                       *)
(***************************************************************************)
EXTENDS LlmGateway, SqlValidator, ChartSpecs, InsightGuardrail

CONSTANTS
    SqlTexts, ChartTexts, SuggestionTexts, Summaries,  \* what the model may write
    ResultSets,         \* result sets posted for a summary
    SemanticRequests, ValuesRequests,                  \* structured requests
    DatasetColumns,     \* the profiled columns of each dataset the tenant owns
    Strangers,          \* dataset ids that are not the tenant's
    ToolReplies,        \* what the model may answer in a turn: [text, names]
    MaxTurns,           \* _MAX_TURNS
    MaxToolRows         \* McpSettings.max_tool_rows

\* None is no number, no LIMIT and no endpoint.  Limits and numbers of rows are
\* numbers; a generated text, a summary and a posted result set are what their
\* parsers made of them.
LoopKinds == {"chat", "assistant"}
ShotKinds == {"query", "chart", "insights", "suggestions", "health", "models", "semantic", "values"}
ASSUME NoneIsItself == None \notin Nat \cup LoopKinds \cup ShotKinds \cup {"mcp"}
ASSUME NoneIsNoLimit == None # Plain(MaxQueryRows)
ASSUME LimitsAreNumbers ==
    /\ {MaxQueryRows, MaxFilterValues, MaxPromptRows, MaxToolRows} \cup CubeRows \subseteq Nat
    /\ \A q \in SemanticRequests : q.limit \in Nat \cup {None}
ASSUME TextsAreParsed ==
    /\ \A t \in SqlTexts :
          /\ {"form", "tables", "limit", "tail"} \subseteq DOMAIN t
          /\ t.limit = None \/ t.limit \in [reads : Nat \cup {None}, lets : Nat]
    /\ \A r \in ToolReplies : r.text \in BOOLEAN /\ r.names \in Seq(STRING)
ASSUME FiguresAreNumbers ==
    /\ \A s \in Summaries : \A t \in s : t.value \in Int
    /\ \A rows \in ResultSets :
          /\ Len(rows) \in Nat /\ rows = [i \in 1..Len(rows) |-> rows[i]]
          /\ \A i \in DOMAIN rows : rows[i].numeric => rows[i].value \in Int

VARIABLES
    pc,         \* "idle", "model" (a turn is awaited) or "tools"
    kind,       \* the endpoint of the request
    messages,   \* the transcript sent to the provider: a sequence of turns
    results,    \* results of the tool calls of the current turn
    used,       \* tools_used
    charts,     \* chart_sink
    insights,   \* insight_sink
    reply       \* the response, or NoReply

vars == <<pc, kind, messages, results, used, charts, insights, reply>>

NoReply == [kind |-> None, status |-> 0, body |-> None]

----------------------------------------------------------------------------
(* The services. *)

\* A read-only query in the tenant's database; ClickHouse may fail.
RunReadOnly(sql) ==
    {Raise("Unexpected")} \cup
        {Return([sql |-> sql, rows |-> IF n > sql.limit.lets THEN sql.limit.lets ELSE n]) :
           n \in CubeRows}

NlToSql ==
    Then(Meta, LAMBDA meta :
    Then(Generate("nl_to_sql", SqlTexts), LAMBDA text :
    Then(ValidateAndCap(text, MaxQueryRows), RunReadOnly)))

NlToChart ==
    Then(Meta, LAMBDA meta :
    Then(Generate("nl_to_chart", ChartTexts), LAMBDA text :
    Then(ValidateChartSpec(text, ChartGrounding(meta)), ResolveChart)))

\* No model call for an empty result set, and one more attempt when the
\* guardrail rejects the first summary.
Summarise(rows) ==
    LET once == Then(Generate("insights", Summaries),
                     LAMBDA s : VerifyNoInventedNumbers(s, ShownRows(rows)))
    IN  IF rows = <<>> THEN {Return({})} ELSE OrElse(once, "InsightGuardrailError", once)

\* DESCRIBE and count may fail; the statistics of one column may not, they are
\* only left out.
Profile(dataset) == {Raise("Unexpected"), Return(DatasetColumns[dataset])}

Suggest(dataset) ==
    IF dataset \notin DOMAIN DatasetColumns THEN {Raise("HTTPException")}
    ELSE Then(Profile(dataset), LAMBDA columns :
         Then(Generate("suggestions", SuggestionTexts), LAMBDA raw :
              {Return(ValidateSuggestions(raw, columns, dataset))}))

----------------------------------------------------------------------------
(* The endpoints: each names the exceptions it maps to a status. *)

Respond(outcomes, statuses, other) ==
    {IF Returned(o) THEN [status |-> 200, body |-> o.val]
     ELSE [status |-> IF o.exc \in DOMAIN statuses THEN statuses[o.exc] ELSE other,
           body |-> None] : o \in outcomes}

NlQuery == Respond(NlToSql, [SQLValidationError |-> 422, CubeAuthError |-> 503,
                             CubeQueryError |-> 503, LLMProviderError |-> 503], 500)

NlChart == Respond(NlToChart, [ChartValidationError |-> 422, CubeAuthError |-> 503,
                               CubeQueryError |-> 503, LLMProviderError |-> 503], 500)

\* Insights and suggestions fail closed: what no clause names is a 503.
GenerateInsight ==
    UNION {{[r EXCEPT !.body = [summary |-> @, rows |-> rows]] :
              r \in Respond(Summarise(rows), [InsightGuardrailError |-> 422], 503)} :
           rows \in ResultSets}

DatasetSuggestions ==
    UNION {{[r EXCEPT !.body = [suggestions |-> @, dataset |-> d]] :
              r \in Respond(Suggest(d), [HTTPException |-> 404], 503)} :
           d \in DOMAIN DatasetColumns \cup Strangers}

\* The probe answers 200 with ok false when the provider fails.
AiHealth ==
    {[status |-> 200, body |-> [ok |-> TRUE, detail |-> ModelForTenant(None)]]}
      \cup {LET e == Vendor(f) IN
            IF e.error = "LLMProviderError"
            THEN [status |-> 200, body |-> [ok |-> FALSE, detail |-> HealthDetail(e.status)]]
            ELSE [status |-> 500, body |-> None] : f \in ProviderFaults}

SemanticStatuses == [SemanticValidationError |-> 422, CubeAuthError |-> 503, CubeQueryError |-> 503]
SemanticModels == Respond(ListModels, SemanticStatuses, 500)
QuerySemantic ==
    UNION {IF RequestValid(req) THEN Respond(SemanticQuery(req), SemanticStatuses, 500)
           ELSE {[status |-> 422, body |-> None]} : req \in SemanticRequests}
SemanticValues ==
    UNION {Respond(DistinctValues(req), SemanticStatuses, 500) : req \in ValuesRequests}

OneShot ==
    [query |-> NlQuery, chart |-> NlChart, insights |-> GenerateInsight,
     suggestions |-> DatasetSuggestions, health |-> AiHealth, models |-> SemanticModels,
     semantic |-> QuerySemantic, values |-> SemanticValues]

----------------------------------------------------------------------------
(* The MCP server: a tool call becomes a request to the API, with the      *)
(* caller's own Authorization header.                                      *)

\* _handle: the detail of a 404 or 422 is passed on, the rest of the failures
\* get a fixed message.
McpMessage(status) ==
    CASE status \in {401, 403} -> "not authorized"
      [] status \in {404, 422} -> "detail"
      [] status = 503          -> "unavailable"
      [] OTHER                 -> "unexpected"

\* _cap_rows: at most max_tool_rows rows, and a note that there were more.
CapRows(body) == [rows |-> IF body.rows > MaxToolRows THEN MaxToolRows ELSE body.rows,
                  of |-> body.rows, truncated |-> body.rows > MaxToolRows]

McpResult(r) ==
    IF r.status = 200 THEN [status |-> 200, body |-> CapRows(r.body)]
    ELSE [status |-> 0, body |-> McpMessage(r.status)]

McpRequest(endpoint) ==
    {[status |-> 0, body |-> "unreachable"]} \cup {McpResult(r) : r \in OneShot[endpoint]}

\* Without a token nothing is sent.
McpTool(endpoint) == {[status |-> 0, body |-> "missing token"]} \cup McpRequest(endpoint)

----------------------------------------------------------------------------
(* Chat and assistant. *)

(* Mutant: only results of calls that worked are sent back.                *)
UserTurnNoErrors(rs) ==
    [role |-> "user", text |-> rs = <<>>, calls |-> <<>>,
     results |-> SelectSeq(rs, LAMBDA r : ~r.is_error)]

UserTurn(rs) == [role |-> "user", text |-> rs = <<>>, calls |-> <<>>, results |-> rs]
AssistantTurn(r) == [role |-> "assistant", text |-> r.text, results |-> <<>>,
    calls |-> [i \in DOMAIN r.names |-> [id |-> <<Len(messages), i>>, name |-> r.names[i]]]]

Init ==
    /\ pc = "idle"
    /\ kind = None
    /\ messages = <<>>
    /\ results = <<>>
    /\ used = <<>>
    /\ charts = <<>>
    /\ insights = <<>>
    /\ reply = NoReply

\* A tool's semantic query; a request that is not valid raises as it is built.
ToolQuery ==
    UNION {IF RequestValid(q) THEN SemanticQuery(q) ELSE {Raise("ValueError")} :
             q \in SemanticRequests}

\* What a handler returns to the loop: its value, or the exception it raised.
\* A summary is of the rows of a query of its own.
ToolCall(name) ==
    CASE name = "list_semantic_models" -> ListModels
      [] name = "query_semantic_model" -> ToolQuery
      [] name = "nl_to_sql"   -> NlToSql
      [] name = "nl_to_chart" -> NlToChart
      [] name = "summarize_insight" ->
           Then(ToolQuery, LAMBDA found : UNION {Summarise(rows) : rows \in ResultSets})

Skills ==
    {"list_semantic_models", "query_semantic_model", "nl_to_sql", "nl_to_chart"}
      \cup IF kind = "assistant" THEN {"summarize_insight"} ELSE {}

\* Every failure of a tool, the provider's within it too, is told to the model
\* as an error result: the loop goes on.
Dispatch(call) ==
    IF call.name \notin Skills
    THEN {[id |-> call.id, is_error |-> TRUE, content |-> None]}
    ELSE {[id |-> call.id, is_error |-> ~Returned(o),
           content |-> IF ~Returned(o) THEN None
                       ELSE IF call.name = "nl_to_chart" THEN o.val.spec
                       ELSE IF call.name = "summarize_insight" THEN o.val
                       ELSE None] : o \in ToolCall(call.name)}

(* Mutant: the sinks are read before the last call has run.                *)
RespondEarly(answer) ==
    /\ reply' = [kind |-> kind, status |-> 200,
                 body |-> [answer |-> answer, used |-> used', insights |-> insights,
                           charts |-> IF kind = "assistant" \/ charts = <<>> THEN charts
                                      ELSE <<charts[Len(charts)]>>]]
    /\ pc' = "idle"

Respond200(answer) ==
    /\ reply' = [kind |-> kind, status |-> 200,
                 body |-> [answer |-> answer, used |-> used', insights |-> insights',
                           charts |-> IF kind = "assistant" \/ charts' = <<>> THEN charts'
                                      ELSE <<charts'[Len(charts')]>>]]
    /\ pc' = "idle"

\* ask: a new transcript with the user's message, and new sinks.
Ask(k) ==
    /\ pc = "idle" /\ reply = NoReply
    /\ pc' = "model"
    /\ kind' = k
    /\ messages' = <<UserTurn(<<>>)>>
    /\ UNCHANGED <<results, used, charts, insights, reply>>

\* The provider fails: the request fails with it.
ProviderFails ==
    /\ pc = "model"
    /\ \E o \in Raised(CompleteWithTools({})) :
          reply' = [kind |-> kind, body |-> None,
                    status |-> IF o.exc = "LLMProviderError" THEN 503 ELSE 500]
    /\ pc' = "idle"
    /\ UNCHANGED <<kind, messages, results, used, charts, insights>>

\* The model answers without calling a tool.
ModelAnswers ==
    /\ pc = "model"
    /\ \E r \in Values(CompleteWithTools(ToolReplies)) :
          /\ r.names = <<>>
          /\ UNCHANGED <<kind, messages, results, used, charts, insights>>
          /\ Respond200(IF r.text THEN "text" ELSE "no answer")

\* The model asks for tools.
ModelCalls ==
    /\ pc = "model"
    /\ \E r \in Values(CompleteWithTools(ToolReplies)) :
          /\ r.names # <<>>
          /\ messages' = Append(messages, AssistantTurn(r))
    /\ pc' = "tools"
    /\ UNCHANGED <<kind, results, used, charts, insights, reply>>

\* The next tool call runs; after the last one its results are sent, unless
\* the turns are spent.
RunTool ==
    LET calls == messages[Len(messages)].calls
        call  == calls[Len(results) + 1]
        last  == Len(results) + 1 = Len(calls)
    IN
    /\ pc = "tools"
    /\ UNCHANGED kind
    /\ used' = Append(used, call.name)
    /\ \E r \in Dispatch(call) :
          /\ charts' = IF ~r.is_error /\ call.name = "nl_to_chart"
                       THEN Append(charts, r.content) ELSE charts
          /\ insights' = IF ~r.is_error /\ call.name = "summarize_insight"
                         THEN Append(insights, r.content) ELSE insights
          /\ IF last THEN /\ messages' = Append(messages, UserTurn(Append(results, r)))
                          /\ results' = <<>>
                     ELSE /\ messages' = messages
                          /\ results' = Append(results, r)
    /\ IF last /\ Len(messages) >= 2 * MaxTurns THEN Respond200("out of steps")
       ELSE pc' = (IF last THEN "model" ELSE "tools") /\ UNCHANGED reply

----------------------------------------------------------------------------

\* A one-shot endpoint answers.
Serve(k) ==
    /\ pc = "idle" /\ reply = NoReply
    /\ \E r \in OneShot[k] : reply' = [kind |-> k, status |-> r.status, body |-> r.body]
    /\ UNCHANGED <<pc, kind, messages, results, used, charts, insights>>

\* An MCP tool answers.
ServeMcp(endpoint) ==
    /\ pc = "idle" /\ reply = NoReply
    /\ \E r \in McpTool(endpoint) : reply' = [kind |-> "mcp", status |-> r.status, body |-> r.body]
    /\ UNCHANGED <<pc, kind, messages, results, used, charts, insights>>

(* Mutant: one chart sink serves all requests.                             *)
DeliverKeepsSink ==
    /\ pc = "idle" /\ reply # NoReply
    /\ kind' = None
    /\ messages' = <<>>
    /\ results' = <<>>
    /\ used' = <<>>
    /\ insights' = <<>>
    /\ reply' = NoReply
    /\ UNCHANGED <<pc, charts>>

\* The client has the response; the next request starts afresh.
Deliver ==
    /\ pc = "idle" /\ reply # NoReply
    /\ kind' = None
    /\ messages' = <<>>
    /\ results' = <<>>
    /\ used' = <<>>
    /\ charts' = <<>>
    /\ insights' = <<>>
    /\ reply' = NoReply
    /\ UNCHANGED pc

Next ==
    \/ \E k \in DOMAIN OneShot : Serve(k)
    \/ \E e \in {"query", "semantic"} : ServeMcp(e)
    \/ \E k \in LoopKinds : Ask(k)
    \/ ProviderFails
    \/ ModelAnswers
    \/ ModelCalls
    \/ RunTool
    \/ Deliver

Spec == Init /\ [][Next]_vars

----------------------------------------------------------------------------
(* Properties. *)

\* The variables keep their types: a request in progress has a kind and a
\* transcript that ends as its step demands, and no reply yet.
TypeOK ==
    /\ pc \in {"idle", "model", "tools"}
    /\ kind \in LoopKinds \cup {None}
    /\ pc # "idle" => kind \in LoopKinds /\ reply = NoReply /\ messages # <<>>
    /\ pc = "model" => results = <<>> /\ messages[Len(messages)].role = "user"
    /\ pc = "tools" => Len(results) < Len(messages[Len(messages)].calls)
    /\ Len(used) >= Len(charts) + Len(insights)

\* The provider rejects a transcript in which roles do not alternate, a turn
\* is empty, or a tool call is not answered once, in the next turn, under its
\* own id.  Whatever the tools do - succeed, raise, do not exist - every
\* transcript the loop sends is one the provider takes
\* (ChatService.ask, Agent.run, AnthropicProvider._to_anthropic_message).
TranscriptIsAnswered ==
    LET wire == [i \in DOMAIN messages |-> ToAnthropicMessage(messages[i])]
        words(t) == IF t.blocks[1].type = "text" THEN 1 ELSE 0
        Ids(t) == [k \in 1..(Len(t.blocks) - words(t)) |-> t.blocks[words(t) + k].id]
    IN  pc = "model" =>
          /\ Len(wire) % 2 = 1
          /\ \A i \in DOMAIN wire :
                /\ wire[i].role = IF i % 2 = 1 THEN "user" ELSE "assistant"
                /\ wire[i].blocks # <<>>
                /\ i % 2 = 0 => Ids(wire[i]) = Ids(wire[i + 1])
          /\ \A i, j \in DOMAIN messages : \A a \in DOMAIN messages[i].calls :
                \A b \in DOMAIN messages[j].calls :
                   messages[i].calls[a].id = messages[j].calls[b].id => <<i, a>> = <<j, b>>

\* The calls that have a result, by their turn and their place in it.
ResultsOf(k) == IF 2 * k < Len(messages) THEN messages[2 * k + 1].results ELSE results
Answered == UNION {{<<k, j>> : j \in DOMAIN ResultsOf(k)} : k \in 1..(Len(messages) \div 2)}
Result(c) == ResultsOf(c[1])[c[2]]
Called(c) == messages[2 * c[1]].calls[c[2]].name

NotAfter(b, c) == b[1] < c[1] \/ (b[1] = c[1] /\ b[2] <= c[2])
Latest(S) == {c \in S : \A b \in S : NotAfter(b, c)}

\* The sequence has the value of each call, in the order of the calls.
Lists(seq, value) ==
    /\ Len(seq) = Cardinality(DOMAIN value)
    /\ \A c \in DOMAIN value : seq[Cardinality({b \in DOMAIN value : NotAfter(b, c)})] = value[c]

Made(name) == {c \in Answered : Called(c) = name /\ ~Result(c).is_error}
Contents(S) == [c \in S |-> Result(c).content]

\* What rides back with an answer is what the model was told it had made: the
\* charts and the insights of a reply are the contents of the successful
\* results in the transcript, in order, none lost when the steps run out and
\* none kept of a call that failed; the chat returns its latest chart only
\* (build_handlers, build_skills, _result).
ReplyIsBacked ==
    kind # None /\ reply.status = 200 =>
        LET made == Made("nl_to_chart")
        IN  /\ Lists(reply.body.charts, Contents(IF kind = "assistant" THEN made ELSE Latest(made)))
            /\ Lists(reply.body.insights, Contents(Made("summarize_insight")))
            /\ Lists(reply.body.used, [c \in Answered |-> Called(c)])

\* Nothing ungoverned is answered with: the SQL that ran names governed tables
\* of the tenant only, its LIMIT opens with a number within the cap, and when it
\* is that number alone the rows are within it too; a chart asks for governed
\* members by their exact names (one that differs in case passes the gate, but
\* Cube refuses it) and plots what it asks for; a suggestion names profiled
\* columns only; a structured query is capped and grounded; an MCP client is told
\* of missing rows
\* (validate_and_cap, validate_chart_spec, validate_suggestions, _check_grounded, _cap_rows).
AnswersAreGoverned ==
    reply.status = 200 =>
        LET b == reply.body IN
        CASE reply.kind = "query" ->
               /\ \A t \in b.sql.tables : t.word \in GovernedTables /\ t.db \in {"", TenantDb}
               /\ WithinCap(b.sql.limit, MaxQueryRows) /\ ~b.sql.tail
               /\ IsPlain(b.sql.limit) => b.rows <= MaxQueryRows
          [] reply.kind = "chart" ->
               /\ b.spec.query.metric_refs \subseteq Measures
               /\ b.spec.encoding.x \in Dimensions \cup {None}
               /\ LowerAll(b.spec.encoding.series) \subseteq LowerAll(b.spec.query.metric_refs)
          [] reply.kind = "semantic" ->
               /\ b.rows <= MaxQueryRows
               /\ \A c \in b.columns : c.form = "bucket" \/ c \in Measures \cup Dimensions
          [] reply.kind = "suggestions" ->
               \A s \in b.suggestions :
                 /\ s.spec.query.dataset = b.dataset
                 /\ LowerAll(s.spec.query.inline.dimensions)
                      \subseteq LowerAll(DatasetColumns[b.dataset])
          [] reply.kind = "mcp" ->
               b.rows <= MaxToolRows /\ (b.truncated \/ b.rows = b.of)
          [] OTHER -> TRUE

\* The reference for the guardrail's arithmetic: a number within one unit of a
\* value that the model was shown, or within half a percent of a thousandth or
\* a millionth of it (or of a thousand or a million times it).
Near(value, ref) ==
    \/ Size(value - ref) <= 10
    \/ \E s \in {1000, 1000000} : \/ Size(ref - s * value) <= (s \div 200) * Size(value)
                                  \/ Size(value - s * ref) <= (s \div 200) * Size(ref)

\* A summary that is answered with states, in plain figures, only numbers that
\* are near a number of the rows the prompt showed, also when it is the second
\* attempt's and also when the result set was cut to fit the prompt
\* (InsightService.summarise, verify_no_invented_numbers).
SummariesAreNear ==
    reply.kind = "insights" /\ reply.status = 200 =>
        \A t \in reply.body.summary : t.form = "plain" =>
            \E i \in DOMAIN ShownRows(reply.body.rows) :
                /\ reply.body.rows[i].numeric
                /\ Near(t.value, reply.body.rows[i].value)

\* "the resolved data has no column for it - the renderer would silently plot
\* nulls" is what the validator says it prevents (ai/nl_chart/validator.py:297),
\* and "a missing key should not happen" is what the resolver relies on
\* (ai/nl_chart/service.py:247): no chart is answered with a column of nulls.
ChartHasItsData ==
    reply.kind = "chart" /\ reply.status = 200 =>
        (reply.body.rows > 0 => reply.body.null = {})
=============================================================================
