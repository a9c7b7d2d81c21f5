-------------------------- MODULE ProviderAdapters --------------------------
(***************************************************************************)
(* The provider layer the scientific core sees: the adapters of            *)
(* providers/adapters.py over the guards of providers/protocol.py, the     *)
(* older providers of base.py, mock.py and registry.py, and the            *)
(* capability registry.                                                    *)
(*                                                                         *)
(* An adapter is [name, model, allow_network, enabled]; what the process   *)
(* finds outside is env = [sdks, keys], the SDK modules that can be        *)
(* imported and the providers whose key variable is set.  A request keeps  *)
(* the fields the adapters treat differently: [model, budget, seed, stop]; *)
(* a vendor's reply is [model, usage, finish, fingerprint, reasoning], with *)
(* usage FALSE when the reply carries no usage block.  "" is Python's      *)
(* empty string; None is the seed that is not set.                         *)
(***************************************************************************)
EXTENDS Integers, Sequences, FiniteSets

Providers == {"openai", "deepseek", "anthropic", "gemini", "mock"}
SdkOf == [openai |-> "openai", deepseek |-> "openai", anthropic |-> "anthropic",
          gemini |-> "google.genai", mock |-> "handoff_fidelity"]

\* A decision list: the first refusal that applies, or "".
First(checks) == 
  LET failing == {i \in DOMAIN checks : checks[i][1]}
  IN  IF failing = {} THEN ""
      ELSE checks[CHOOSE i \in failing : \A j \in failing : i <= j][2]

model_pinned(a) == a.model # "" /\ a.model # "UNFROZEN"
has_key(a, env) == a.name = "mock" \/ a.name \in env.keys
sdk_available(a, env) == SdkOf[a.name] \in env.sdks

state(a, env) ==
  LET listed == First(<< <<~a.enabled, "DISABLED">>,
                         <<a.name # "mock" /\ ~sdk_available(a, env), "SDK_MISSING">>,
                         <<~has_key(a, env), "NOT_CONFIGURED">> >>)
  IN  IF listed = "" THEN "CONFIGURED" ELSE listed

\* The class of the exception _preflight raises, "" when it lets the call pass.
\* PreflightTrustsSdk forgets that a client may not be installed.
PreflightTrustsSdk(a, env, r) ==
  First(<< <<~a.enabled \/ ~model_pinned(a) \/ ~has_key(a, env), "ProviderNotConfigured">>,
           <<~a.allow_network, "NetworkDisabled">>, <<r.budget <= 0, "ValueError">> >>)
preflight(a, env, r) ==
  First(<< <<~a.enabled, "ProviderNotConfigured">>,
           <<~model_pinned(a), "ProviderNotConfigured">>,
           <<~sdk_available(a, env), "ProviderNotConfigured">>,
           <<~has_key(a, env), "ProviderNotConfigured">>,
           <<~a.allow_network, "NetworkDisabled">>,
           <<r.budget <= 0, "ValueError">> >>)

Called(a, r) == IF r.model # "" THEN r.model ELSE a.model

ReasoningOnly == {"gpt-5.6", "gpt-6", "o1", "o3"}     \* model families, by the
Effort == {"gpt-5.1", "gpt-5.2"}                      \* prefix in their name

Stop(r, name) == IF r.stop THEN {name} ELSE {}
Sampling == {"temperature", "top_p"}

\* The options of the request each adapter sends, besides model and messages.
OpenAIOptions(a, r) ==
  (CASE Called(a, r) \in ReasoningOnly -> {"max_completion_tokens"}
     [] Called(a, r) \in Effort -> {"max_completion_tokens", "reasoning_effort"} \cup Sampling
     [] OTHER -> {"max_tokens"} \cup Sampling)
  \cup (IF r.seed = "None" THEN {} ELSE {"seed"}) \cup Stop(r, "stop")
DeepSeekOptions(a, r) == {"max_tokens"} \cup Sampling \cup Stop(r, "stop")
AnthropicOptions(a, r) == {"max_tokens"} \cup Stop(r, "stop_sequences")
GeminiOptions(a, r) == {}

\* A reply's token counts are -1 when the vendor reports no usage.
Tokens(v) == IF v.usage THEN 1 ELSE -1
Response(a, r, v, returned, finish, fingerprint, reasoning) ==
  [requested_model |-> Called(a, r), returned_model |-> returned, tokens |-> Tokens(v),
   finish_reason |-> finish, system_fingerprint |-> fingerprint,
   reasoning_tokens |-> reasoning]
Or(x, y) == IF x # "" THEN x ELSE y
ChatResponse(a, r, v) ==
  Response(a, r, v, Or(v.model, Called(a, r)), v.finish, v.fingerprint,
           IF v.usage THEN v.reasoning ELSE 0)
AnthropicResponse(a, r, v) ==
  Response(a, r, v, Or(v.model, Called(a, r)), v.finish, "", 0)
GeminiResponse(a, r, v) == Response(a, r, v, Called(a, r), "", "", 0)
MockResponse(a, r) ==
  [requested_model |-> Called(a, r), returned_model |-> a.model, tokens |-> 1,
   finish_reason |-> "stop", system_fingerprint |-> "", reasoning_tokens |-> 0]

Nothing == [requested_model |-> "", returned_model |-> "", tokens |-> -1,
            finish_reason |-> "", system_fingerprint |-> "", reasoning_tokens |-> 0]
Refused(error) == [error |-> error, sent |-> FALSE, options |-> {}, response |-> Nothing]

\* The mock answers from its script whatever the network guard says, and fails
\* when a trigger of fail_on is in the prompt.
mock_generate(a, r) ==
  IF ~a.enabled THEN Refused("ProviderNotConfigured")
  ELSE IF r.stop THEN Refused("NetworkDisabled")
  ELSE [error |-> "", sent |-> FALSE, options |-> {}, response |-> MockResponse(a, r)]

vendor_generate(a, env, r, v) ==
  LET refusal == preflight(a, env, r)
  IN  IF refusal # "" THEN Refused(refusal)
      ELSE [error |-> "", sent |-> TRUE,
            options |-> CASE a.name = "openai" -> OpenAIOptions(a, r)
                          [] a.name = "deepseek" -> DeepSeekOptions(a, r)
                          [] a.name = "anthropic" -> AnthropicOptions(a, r)
                          [] a.name = "gemini" -> GeminiOptions(a, r),
            response |-> CASE a.name \in {"openai", "deepseek"} -> ChatResponse(a, r, v)
                           [] a.name = "anthropic" -> AnthropicResponse(a, r, v)
                           [] a.name = "gemini" -> GeminiResponse(a, r, v)]

generate(a, env, r, v) ==
  IF a.name = "mock" THEN mock_generate(a, r) ELSE vendor_generate(a, env, r, v)
-----------------------------------------------------------------------------
(* The capability registry: what the documentation says of each provider.  *)

\* The identity classes that may back the primary confirmatory role.
admissible_as_primary_confirmatory ==
  {"IMMUTABLE_DATELESS_SNAPSHOT", "IMMUTABLE_DATED_SNAPSHOT",
   "CANONICAL_ID_DOCUMENTED_AS_SNAPSHOT", "DETERMINISTIC_STUB"}

Fields == <<"text_generation", "structured_output", "temperature_support", "seed_support",
            "streaming", "usage_reporting", "request_id", "pinned_model_snapshots">>
Support == [Y |-> "YES", N |-> "NO", U |-> "UNKNOWN"]

\* One row: the support of the eight fields in order, the class, resolved.
Row(y, class, resolved) ==
  [support |-> [f \in {Fields[i] : i \in 1..8} |->
                  Support[y[CHOOSE i \in 1..8 : Fields[i] = f]]],
   version_class |-> class, resolved |-> resolved]
UnknownRow == Row([i \in 1..8 |-> "U"], "UNRESOLVED", FALSE)

RegistryRows ==
  [openai    |-> Row(<<"Y","Y","U","U","Y","U","U","Y">>, "CANONICAL_ID_DOCUMENTED_AS_SNAPSHOT", FALSE),
   deepseek  |-> Row(<<"Y","Y","Y","N","Y","Y","U","N">>, "MOVING_ALIAS_WITH_RECORDED_BACKEND_VERSION", FALSE),
   anthropic |-> Row(<<"Y","Y","U","U","Y","Y","U","Y">>, "IMMUTABLE_DATELESS_SNAPSHOT", FALSE),
   gemini    |-> Row(<<"Y","Y","Y","U","Y","Y","U","U">>, "STABLE_LABEL_NO_WEIGHT_GUARANTEE", FALSE),
   mock      |-> Row(<<"Y","Y","N","Y","N","Y","Y","Y">>, "DETERMINISTIC_STUB", TRUE)]

capabilities_for(name) == IF name \in DOMAIN RegistryRows THEN RegistryRows[name] ELSE UnknownRow
unresolved_fields(c) == {f \in DOMAIN c.support : c.support[f] = "UNKNOWN"}

\* What the API and the browser are shown of an adapter.
status_dict(a, env) ==
  [state |-> state(a, env), secret_configured |-> has_key(a, env),
   sdk_available |-> sdk_available(a, env), model_pinned |-> model_pinned(a),
   capabilities_resolved |-> capabilities_for(a.name).resolved]
-----------------------------------------------------------------------------
(* The older providers: built by kind, guarded, and without a live call.   *)

KnownProviders == {"mock", "openai", "anthropic", "gemini", "huggingface"}

\* build_provider: the mock is never given network access, whatever is asked.
build_provider(kind, model, network) ==
  IF kind \notin KnownProviders THEN [error |-> "ProviderNotConfigured"]
  ELSE [error |-> "", kind |-> kind,
        model |-> IF kind = "mock" THEN Or(model, "mock-deterministic-v1") ELSE model,
        allow_network |-> kind # "mock" /\ network]

remote_generate(p, env) ==
  First(<< <<p.kind = "mock", "">>,
           <<~model_pinned(p), "ProviderNotConfigured">>,
           <<p.kind = "huggingface", "NotImplementedError">>,
           <<p.kind \notin env.keys, "ProviderNotConfigured">>,
           <<~p.allow_network, "NetworkDisabled">>,
           <<TRUE, "NotImplementedError">> >>)
=============================================================================
