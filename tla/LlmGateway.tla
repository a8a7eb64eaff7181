----------------------------- MODULE LlmGateway -----------------------------
(***************************************************************************)
(* The language-model gateway (ai/gateway): the settings a request is      *)
(* completed with, the provider adapter that turns the vendor's failures   *)
(* into LLMProviderError, and the prompt templates.                        *)
(***************************************************************************)
EXTENDS Outcomes, Integers, Sequences

CONSTANTS
    DefaultModel,    \* AI__MODEL
    DefaultTokens,   \* AI__MAX_TOKENS
    Templates,       \* the (name, version) pairs found under the template root
    ProviderFaults   \* what the vendor's SDK raises; "validation" stands for the
                     \* exceptions that the adapter does not name

\* LLMProviderError carries the HTTP status the adapter knows, if any.
Vendor(fault) ==
    CASE fault = "authentication" -> [error |-> "LLMProviderError", status |-> 401]
      [] fault = "rate_limit"     -> [error |-> "LLMProviderError", status |-> 429]
      [] fault = "status"         -> [error |-> "LLMProviderError", status |-> 500]
      [] fault = "connection"     -> [error |-> "LLMProviderError", status |-> None]
      [] OTHER                    -> [error |-> "Unexpected", status |-> None]

\* override, else the request's own model, else the deployment's.
ModelForTenant(override) == IF override # None THEN override ELSE DefaultModel

Resolved(request) ==
    [request EXCEPT !.model = ModelForTenant(request.model),
                    !.max_tokens = IF @ # None THEN @ ELSE DefaultTokens]

\* The adapter's calls: the vendor fails, or answers with its first text block,
\* which may be empty, or, with tools, with its texts joined and every tool call.
Adapter(texts) == {Raise(Vendor(f).error) : f \in ProviderFaults} \cup {Return(t) : t \in texts}
AdapterWithTools(replies) ==
    {Raise(Vendor(f).error) : f \in ProviderFaults} \cup {Return(r) : r \in replies}

\* The gateway's: the same, with the settings resolved and no retry.
Complete(request, texts) ==
    Then(Adapter(texts), LAMBDA t : {Return([text |-> t, model |-> Resolved(request).model])})
CompleteWithTools(replies) == AdapterWithTools(replies)

\* The provider API's form of a turn: an assistant turn is its text block, if
\* it has text, then its calls; a user turn is its tool results or its text.
Block(type, id) == [type |-> type, id |-> id]
ToAnthropicMessage(turn) ==
    LET text == <<Block("text", None)>> IN
    IF turn.role = "assistant"
    THEN [role |-> "assistant",
          blocks |-> (IF turn.text THEN text ELSE <<>>)
                       \o [i \in DOMAIN turn.calls |-> Block("tool_use", turn.calls[i].id)]]
    ELSE [role |-> "user",
          blocks |-> IF turn.results = <<>> THEN text
                     ELSE [i \in DOMAIN turn.results |-> Block("tool_result", turn.results[i].id)]]

\* PromptLoader.render: a template that is missing raises, and no handler of
\* the routers names that exception.
Render(template) ==
    IF template \in Templates THEN {Return(template)} ELSE {Raise("Unexpected")}

\* A prompt is rendered, then completed; the text is what the caller reads.
Generate(template, texts) ==
    Then(Render(template), LAMBDA t :
    Then(Complete([model |-> None, max_tokens |-> None], texts), LAMBDA a : {Return(a.text)}))

\* The health probe's words for a provider failure, by the status it carries.
HealthDetail(status) ==
    CASE status = 401  -> "authentication failed"
      [] status = 429  -> "rate limited"
      [] status = None -> "unreachable"
      [] OTHER         -> "provider error"
=============================================================================
