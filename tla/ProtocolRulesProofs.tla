------------------------ MODULE ProtocolRulesProofs -------------------------
(***************************************************************************)
(* What the pure rules promise, whatever the sequence of calls: that the   *)
(* adapters are guarded, that budgets are optimal, bind and are paid for,  *)
(* that the inventory of atoms counts every match once, that what is       *)
(* written of results orders as the results do, and that what is claimed   *)
(* of them was earned.  Most of it is proved of the operators for          *)
(* arguments of every size; a call is then one instance of a theorem about *)
(* its operator.                                                           *)
(***************************************************************************)
EXTENDS MCProtocolRules, OperatorProofs

-----------------------------------------------------------------------------
(* Calls, and the providers.                                                *)

(* First: no check fails, or the message is that of the first that does.     *)
LEMMA FirstIsLeast ==
  ASSUME NEW n \in Nat, NEW checks, DOMAIN checks = 1 .. n
  PROVE  \/ /\ \A i \in 1 .. n : ~checks[i][1]
            /\ First(checks) = ""
         \/ \E i \in 1 .. n : /\ checks[i][1] /\ First(checks) = checks[i][2]
                             /\ \A j \in 1 .. n : checks[j][1] => i <= j
<1> DEFINE failing == {i \in DOMAIN checks : checks[i][1]}
<1>1. CASE failing = {}
  BY <1>1, Zenon DEF First
<1>2. CASE failing # {}
  <2>1. \E i \in failing : \A j \in failing : i <= j
    <3>1. failing \in SUBSET Nat
      OBVIOUS
    <3>2. PICK b : b \in failing
      BY <1>2
    <3> QED BY <3>1, <3>2, LeastNatural
  <2> DEFINE f == CHOOSE i \in failing : \A j \in failing : i <= j
  <2>2. f \in failing /\ \A j \in failing : f <= j
    BY <2>1
  <2>3. First(checks) = checks[f][2]
    BY <1>2, Zenon DEF First
  <2> QED BY <2>2, <2>3, Zenon
<1> QED BY <1>1, <1>2, Zenon

(* preflight passes exactly the calls that meet every guard of the adapter.  *)
LEMMA PreflightPasses ==
  ASSUME NEW a, NEW env, NEW r
  PROVE  preflight(a, env, r) = "" <=>
           /\ a.enabled /\ model_pinned(a) /\ sdk_available(a, env)
           /\ has_key(a, env) /\ a.allow_network /\ ~(r.budget <= 0)
<1> DEFINE checks ==
      << <<~a.enabled, "ProviderNotConfigured">>,
         <<~model_pinned(a), "ProviderNotConfigured">>,
         <<~sdk_available(a, env), "ProviderNotConfigured">>,
         <<~has_key(a, env), "ProviderNotConfigured">>,
         <<~a.allow_network, "NetworkDisabled">>,
         <<r.budget <= 0, "ValueError">> >>
<1>1. preflight(a, env, r) = First(checks)
  BY DEF preflight
<1>2. DOMAIN checks = 1 .. 6
  OBVIOUS
<1>3. /\ checks[1][1] <=> ~a.enabled
      /\ checks[2][1] <=> ~model_pinned(a)
      /\ checks[3][1] <=> ~sdk_available(a, env)
      /\ checks[4][1] <=> ~has_key(a, env)
      /\ checks[5][1] <=> ~a.allow_network
      /\ checks[6][1] <=> r.budget <= 0
  OBVIOUS
<1>4. /\ checks[1][2] # "" /\ checks[2][2] # "" /\ checks[3][2] # ""
      /\ checks[4][2] # "" /\ checks[5][2] # "" /\ checks[6][2] # ""
  OBVIOUS
<1>5. 1 .. 6 = {1, 2, 3, 4, 5, 6}
  OBVIOUS
<1>6. \/ (\A i \in 1 .. 6 : ~checks[i][1]) /\ First(checks) = ""
      \/ \E i \in 1 .. 6 : checks[i][1] /\ First(checks) = checks[i][2]
  <2> HIDE DEF checks
  <2> QED BY <1>2, FirstIsLeast, Zenon
<1> HIDE DEF checks
<1> QED BY <1>1, <1>3, <1>4, <1>5, <1>6, Zenon

(* status_dict shows CONFIGURED exactly when SDK, key and switch are there.  *)
LEMMA ConfiguredState ==
  ASSUME NEW a, NEW env
  PROVE  state(a, env) = "CONFIGURED" <=>
           /\ a.enabled /\ (a.name = "mock" \/ sdk_available(a, env)) /\ has_key(a, env)
<1> DEFINE checks ==
      << <<~a.enabled, "DISABLED">>,
         <<a.name # "mock" /\ ~sdk_available(a, env), "SDK_MISSING">>,
         <<~has_key(a, env), "NOT_CONFIGURED">> >>
<1>1. state(a, env) = IF First(checks) = "" THEN "CONFIGURED" ELSE First(checks)
  BY DEF state
<1>2. DOMAIN checks = 1 .. 3
  OBVIOUS
<1>3. /\ checks[1][1] <=> ~a.enabled
      /\ checks[2][1] <=> a.name # "mock" /\ ~sdk_available(a, env)
      /\ checks[3][1] <=> ~has_key(a, env)
  OBVIOUS
<1>4. checks[1][2] = "DISABLED" /\ checks[2][2] = "SDK_MISSING" /\ checks[3][2] = "NOT_CONFIGURED"
  OBVIOUS
<1>5. 1 .. 3 = {1, 2, 3}
  OBVIOUS
<1>6. \/ (\A i \in 1 .. 3 : ~checks[i][1]) /\ First(checks) = ""
      \/ \E i \in 1 .. 3 : checks[i][1] /\ First(checks) = checks[i][2]
  <2> HIDE DEF checks
  <2> QED BY <1>2, FirstIsLeast, Zenon
<1> HIDE DEF checks
<1> QED BY <1>1, <1>3, <1>4, <1>5, <1>6, Zenon

RowIs(row, y, class, resolved) ==
  /\ DOMAIN row.support = {Fields[i] : i \in 1 .. 8}
  /\ \A i \in 1 .. 8 : row.support[Fields[i]] = Support[y[i]]
  /\ row.version_class = class /\ row.resolved = resolved

(* The support of a seed in the row of each provider of the registry.        *)
LEMMA RowSupport ==
  ASSUME NEW y, NEW class, NEW resolved
  PROVE  RowIs(Row(y, class, resolved), y, class, resolved)
<1> DEFINE at(f) == CHOOSE i \in 1 .. 8 : Fields[i] = f
           row == Row(y, class, resolved)
<1>1. row = [support |-> [f \in {Fields[i] : i \in 1 .. 8} |-> Support[y[at(f)]]],
             version_class |-> class, resolved |-> resolved]
  BY DEF Row
<1>2. ASSUME NEW i \in 1 .. 8 PROVE at(Fields[i]) = i
  <2>1. \A j \in 1 .. 8 : Fields[j] = Fields[i] => j = i
    BY DEF Fields
  <2> QED BY <2>1
<1> HIDE DEF at
<1>3. ASSUME NEW i \in 1 .. 8 PROVE row.support[Fields[i]] = Support[y[i]]
  BY <1>1, <1>2
<1> QED BY <1>1, <1>3 DEF RowIs

(* A resolved row has no unresolved field, and snapshots mean a primary      *)
(* class.                                                                    *)
LEMMA RegistryFacts ==
  ASSUME NEW name \in Providers
  PROVE  LET row == capabilities_for(name)
         IN  /\ row.support["seed_support"] = "NO" <=> name = "deepseek"
             /\ row.resolved => unresolved_fields(row) = {}
             /\ row.support["pinned_model_snapshots"] = "YES"
                  <=> row.version_class \in admissible_as_primary_confirmatory
<1> DEFINE row == capabilities_for(name)
<1>0. /\ Fields[4] = "seed_support" /\ Fields[8] = "pinned_model_snapshots"
      /\ Support["Y"] = "YES" /\ Support["N"] = "NO" /\ Support["U"] = "UNKNOWN"
  BY DEF Fields, Support
<1>1. name \in {"openai", "deepseek", "anthropic", "gemini", "mock"}
  BY DEF Providers
<1>2. row = RegistryRows[name]
  BY <1>1 DEF capabilities_for, RegistryRows
<1>3. CASE name = "openai"
  <2> DEFINE y == <<"Y","Y","U","U","Y","U","U","Y">>
  <2>1. row = Row(y, "CANONICAL_ID_DOCUMENTED_AS_SNAPSHOT", FALSE)
    BY <1>2, <1>3 DEF RegistryRows
  <2>2. y[4] = "U" /\ y[8] = "Y"
    OBVIOUS
  <2>3. RowIs(Row(y, "CANONICAL_ID_DOCUMENTED_AS_SNAPSHOT", FALSE), y, "CANONICAL_ID_DOCUMENTED_AS_SNAPSHOT", FALSE)
    BY RowSupport
  <2> HIDE DEF y, row
  <2>4. RowIs(row, y, "CANONICAL_ID_DOCUMENTED_AS_SNAPSHOT", FALSE)
    BY <2>1, <2>3
  <2>5. /\ row.support["seed_support"] = Support[y[4]]
        /\ row.support["pinned_model_snapshots"] = Support[y[8]]
        /\ row.version_class = "CANONICAL_ID_DOCUMENTED_AS_SNAPSHOT" /\ ~row.resolved
    BY <1>0, <2>4 DEF RowIs
  <2> QED BY <1>0, <1>3, <2>2, <2>5 DEF row, admissible_as_primary_confirmatory
<1>4. CASE name = "deepseek"
  <2> DEFINE y == <<"Y","Y","Y","N","Y","Y","U","N">>
  <2>1. row = Row(y, "MOVING_ALIAS_WITH_RECORDED_BACKEND_VERSION", FALSE)
    BY <1>2, <1>4 DEF RegistryRows
  <2>2. y[4] = "N" /\ y[8] = "N"
    OBVIOUS
  <2>3. RowIs(Row(y, "MOVING_ALIAS_WITH_RECORDED_BACKEND_VERSION", FALSE), y, "MOVING_ALIAS_WITH_RECORDED_BACKEND_VERSION", FALSE)
    BY RowSupport
  <2> HIDE DEF y, row
  <2>4. RowIs(row, y, "MOVING_ALIAS_WITH_RECORDED_BACKEND_VERSION", FALSE)
    BY <2>1, <2>3
  <2>5. /\ row.support["seed_support"] = Support[y[4]]
        /\ row.support["pinned_model_snapshots"] = Support[y[8]]
        /\ row.version_class = "MOVING_ALIAS_WITH_RECORDED_BACKEND_VERSION" /\ ~row.resolved
    BY <1>0, <2>4 DEF RowIs
  <2> QED BY <1>0, <1>4, <2>2, <2>5 DEF row, admissible_as_primary_confirmatory
<1>5. CASE name = "anthropic"
  <2> DEFINE y == <<"Y","Y","U","U","Y","Y","U","Y">>
  <2>1. row = Row(y, "IMMUTABLE_DATELESS_SNAPSHOT", FALSE)
    BY <1>2, <1>5 DEF RegistryRows
  <2>2. y[4] = "U" /\ y[8] = "Y"
    OBVIOUS
  <2>3. RowIs(Row(y, "IMMUTABLE_DATELESS_SNAPSHOT", FALSE), y, "IMMUTABLE_DATELESS_SNAPSHOT", FALSE)
    BY RowSupport
  <2> HIDE DEF y, row
  <2>4. RowIs(row, y, "IMMUTABLE_DATELESS_SNAPSHOT", FALSE)
    BY <2>1, <2>3
  <2>5. /\ row.support["seed_support"] = Support[y[4]]
        /\ row.support["pinned_model_snapshots"] = Support[y[8]]
        /\ row.version_class = "IMMUTABLE_DATELESS_SNAPSHOT" /\ ~row.resolved
    BY <1>0, <2>4 DEF RowIs
  <2> QED BY <1>0, <1>5, <2>2, <2>5 DEF row, admissible_as_primary_confirmatory
<1>6. CASE name = "gemini"
  <2> DEFINE y == <<"Y","Y","Y","U","Y","Y","U","U">>
  <2>1. row = Row(y, "STABLE_LABEL_NO_WEIGHT_GUARANTEE", FALSE)
    BY <1>2, <1>6 DEF RegistryRows
  <2>2. y[4] = "U" /\ y[8] = "U"
    OBVIOUS
  <2>3. RowIs(Row(y, "STABLE_LABEL_NO_WEIGHT_GUARANTEE", FALSE), y, "STABLE_LABEL_NO_WEIGHT_GUARANTEE", FALSE)
    BY RowSupport
  <2> HIDE DEF y, row
  <2>4. RowIs(row, y, "STABLE_LABEL_NO_WEIGHT_GUARANTEE", FALSE)
    BY <2>1, <2>3
  <2>5. /\ row.support["seed_support"] = Support[y[4]]
        /\ row.support["pinned_model_snapshots"] = Support[y[8]]
        /\ row.version_class = "STABLE_LABEL_NO_WEIGHT_GUARANTEE" /\ ~row.resolved
    BY <1>0, <2>4 DEF RowIs
  <2> QED BY <1>0, <1>6, <2>2, <2>5 DEF row, admissible_as_primary_confirmatory
<1>7. CASE name = "mock"
  <2> DEFINE y == <<"Y","Y","N","Y","N","Y","Y","Y">>
  <2>1. row = Row(y, "DETERMINISTIC_STUB", TRUE)
    BY <1>2, <1>7 DEF RegistryRows
  <2>2. y[4] = "Y" /\ y[8] = "Y" /\ \A i \in 1 .. 8 : y[i] \in {"Y", "N"}
    OBVIOUS
  <2>6. RowIs(Row(y, "DETERMINISTIC_STUB", TRUE), y, "DETERMINISTIC_STUB", TRUE)
    BY RowSupport
  <2> HIDE DEF y, row
  <2>7. RowIs(row, y, "DETERMINISTIC_STUB", TRUE)
    BY <2>1, <2>6
  <2>3. /\ DOMAIN row.support = {Fields[i] : i \in 1 .. 8}
        /\ \A i \in 1 .. 8 : row.support[Fields[i]] = Support[y[i]]
        /\ row.version_class = "DETERMINISTIC_STUB" /\ row.resolved = TRUE
    BY <2>7 DEF RowIs
  <2>4. \A f \in DOMAIN row.support : row.support[f] # "UNKNOWN"
    BY <1>0, <2>2, <2>3
  <2>5. unresolved_fields(row) = {}
    BY <2>4 DEF unresolved_fields
  <2> QED BY <1>0, <1>7, <2>2, <2>3, <2>5 DEF row, admissible_as_primary_confirmatory
<1> QED BY <1>1, <1>3, <1>4, <1>5, <1>6, <1>7

(* A vendor adapter sends a request exactly when its guards pass.            *)
LEMMA VendorCall ==
  ASSUME NEW a, a.name \in Providers, NEW r, NEW v, NEW env, a.name # "mock"
  PROVE  LET g == generate(a, env, r, v)
         IN  /\ g.sent <=> preflight(a, env, r) = ""
             /\ "seed" \in g.options => a.name = "openai"
             /\ a.name = "openai" /\ r.model \in ReasoningOnly => g.options \cap Sampling = {}
             /\ g.sent => g.response.requested_model = Called(a, r)
             /\ g.error = "" => g.response.returned_model # ""
<1> DEFINE g == generate(a, env, r, v)
           refusal == preflight(a, env, r)
<1>1. g = vendor_generate(a, env, r, v)
  BY Zenon DEF generate
<1>2. CASE refusal # ""
  <2>1. g = Refused(refusal)
    BY <1>1, <1>2, Zenon DEF vendor_generate
  <2>2. g.sent = FALSE /\ g.options = {} /\ g.error = refusal
    <3> HIDE DEF g, refusal
    <3> QED BY <2>1 DEF Refused
  <2> HIDE DEF g, refusal
  <2> QED BY <1>2, <2>2, Zenon DEF g, refusal
<1>3. CASE refusal = ""
  <2> DEFINE chat == ChatResponse(a, r, v)
             anthropic == AnthropicResponse(a, r, v)
             gemini == GeminiResponse(a, r, v)
             options == CASE a.name = "openai" -> OpenAIOptions(a, r)
                          [] a.name = "deepseek" -> DeepSeekOptions(a, r)
                          [] a.name = "anthropic" -> AnthropicOptions(a, r)
                          [] a.name = "gemini" -> GeminiOptions(a, r)
             response == CASE a.name \in {"openai", "deepseek"} -> chat
                           [] a.name = "anthropic" -> anthropic
                           [] a.name = "gemini" -> gemini
  <2>1. g = [error |-> "", sent |-> TRUE, options |-> options, response |-> response]
    BY <1>1, <1>3, Zenon DEF vendor_generate
  <2>2. a.name \in {"openai", "deepseek", "anthropic", "gemini"}
    BY DEF Providers
  <2>3. "seed" \in options => a.name = "openai"
    <3>1. "seed" \notin DeepSeekOptions(a, r)
      BY DEF DeepSeekOptions, Sampling, Stop
    <3>2. "seed" \notin AnthropicOptions(a, r)
      BY DEF AnthropicOptions, Stop
    <3>3. "seed" \notin GeminiOptions(a, r)
      BY DEF GeminiOptions
    <3> QED BY <2>2, <3>1, <3>2, <3>3
  <2>4. Called(a, r) # ""
    <3>1. model_pinned(a)
      BY <1>3, PreflightPasses, Zenon
    <3> QED BY <3>1, Zenon DEF Called, model_pinned
  <2>10. a.name = "openai" /\ r.model \in ReasoningOnly => options \cap Sampling = {}
    <3> SUFFICES ASSUME a.name = "openai", r.model \in ReasoningOnly
                 PROVE  OpenAIOptions(a, r) \cap Sampling = {}
      BY Zenon
    <3>1. Called(a, r) \in ReasoningOnly
      BY Zenon DEF Called, ReasoningOnly
    <3>2. (CASE Called(a, r) \in ReasoningOnly -> {"max_completion_tokens"}
             [] Called(a, r) \in Effort -> {"max_completion_tokens", "reasoning_effort"} \cup Sampling
             [] OTHER -> {"max_tokens"} \cup Sampling) = {"max_completion_tokens"}
      <4>1. Called(a, r) \notin Effort
        BY <3>1 DEF ReasoningOnly, Effort
      <4> QED BY <3>1, <4>1
    <3>3. OpenAIOptions(a, r)
            = {"max_completion_tokens"} \cup (IF r.seed = "None" THEN {} ELSE {"seed"}) \cup Stop(r, "stop")
      BY <3>2, Zenon DEF OpenAIOptions
    <3> QED BY <3>3 DEF Sampling, Stop
  <2>5. response \in {chat, anthropic, gemini}
    BY <2>2
  <2>6. chat.requested_model = Called(a, r) /\ chat.returned_model # ""
    BY <2>4, Zenon DEF ChatResponse, Response, Or
  <2>7. anthropic.requested_model = Called(a, r) /\ anthropic.returned_model # ""
    BY <2>4, Zenon DEF AnthropicResponse, Response, Or
  <2>8. gemini.requested_model = Called(a, r) /\ gemini.returned_model # ""
    BY <2>4, Zenon DEF GeminiResponse, Response
  <2> HIDE DEF options, response, chat, anthropic, gemini, g, refusal
  <2>9. g.sent = TRUE /\ g.options = options /\ g.response = response
    BY <2>1, Zenon
  <2> QED BY <1>3, <2>3, <2>10, <2>5, <2>6, <2>7, <2>8, <2>9, Zenon DEF g, refusal
<1> QED BY <1>2, <1>3, Zenon

CallIsGuarded(a, env, r, g) ==
  LET shown == status_dict(a, env)
      row == capabilities_for(a.name)
  IN  /\ a.name # "mock" =>
           (g.sent <=> /\ shown.state = "CONFIGURED" /\ shown.model_pinned
                       /\ a.allow_network /\ r.budget > 0)
      /\ a.name = "mock" => ~g.sent
      /\ row.support["seed_support"] = "NO" => "seed" \notin g.options
      /\ a.name = "openai" /\ r.model \in ReasoningOnly => g.options \cap Sampling = {}
      /\ g.sent => g.response.requested_model = Called(a, r)
      /\ g.error = "" => g.response.returned_model # "" \/ a.name = "mock"
      /\ row.resolved => unresolved_fields(row) = {}
      /\ row.support["pinned_model_snapshots"] = "YES"
           <=> row.version_class \in admissible_as_primary_confirmatory

(* The same for every adapter of the registry, the mock among them.          *)
LEMMA AdapterCall ==
  ASSUME NEW a, a.name \in Providers, NEW r, r.budget \in Int, NEW v, NEW env
  PROVE  CallIsGuarded(a, env, r, generate(a, env, r, v))
<1> DEFINE g == generate(a, env, r, v)
           shown == status_dict(a, env)
           row == capabilities_for(a.name)
<1>1. /\ row.support["seed_support"] = "NO" <=> a.name = "deepseek"
      /\ row.resolved => unresolved_fields(row) = {}
      /\ row.support["pinned_model_snapshots"] = "YES"
           <=> row.version_class \in admissible_as_primary_confirmatory
  <2> QED BY RegistryFacts
<1>2. CASE a.name = "mock"
  <2>1. g = mock_generate(a, r)
    BY <1>2, Zenon DEF generate
  <2>2. g.sent = FALSE
    <3> HIDE DEF g
    <3>1. CASE ~a.enabled
      <4>1. g = Refused("ProviderNotConfigured")
        BY <2>1, <3>1, Zenon DEF mock_generate
      <4> QED BY <4>1 DEF Refused
    <3>2. CASE a.enabled /\ r.stop
      <4>1. g = Refused("NetworkDisabled")
        BY <2>1, <3>2, Zenon DEF mock_generate
      <4> QED BY <4>1 DEF Refused
    <3>3. CASE a.enabled /\ ~r.stop
      <4>1. g = [error |-> "", sent |-> FALSE, options |-> {}, response |-> MockResponse(a, r)]
        BY <2>1, <3>3, Zenon DEF mock_generate
      <4> QED BY <4>1, Zenon
    <3> QED BY <3>1, <3>2, <3>3
  <2> HIDE DEF g, row
  <2> QED BY <1>1, <1>2, <2>2 DEF g, row, CallIsGuarded
<1>3. CASE a.name # "mock"
  <2>1. /\ g.sent <=> preflight(a, env, r) = ""
        /\ "seed" \in g.options => a.name = "openai"
        /\ a.name = "openai" /\ r.model \in ReasoningOnly => g.options \cap Sampling = {}
        /\ g.sent => g.response.requested_model = Called(a, r)
        /\ g.error = "" => g.response.returned_model # ""
    BY <1>3, VendorCall, Zenon
  <2>2. shown.state = state(a, env) /\ shown.model_pinned = model_pinned(a)
    BY DEF status_dict
  <2>3. r.budget > 0 <=> ~(r.budget <= 0)
    OBVIOUS
  <2>4. g.sent <=> /\ shown.state = "CONFIGURED" /\ shown.model_pinned
                   /\ a.allow_network /\ r.budget > 0
    <3> HIDE DEF g, shown
    <3> QED BY <1>3, <2>1, <2>2, <2>3, PreflightPasses, ConfiguredState, Zenon
  <2> HIDE DEF g, shown, row
  <2> QED BY <1>1, <1>3, <2>1, <2>4, Zenon DEF g, shown, row, CallIsGuarded
<1> QED BY <1>2, <1>3

(* build_provider and generate of the older providers answer for the mock    *)
(* alone.                                                                    *)
LEMMA LegacyCall ==
  ASSUME NEW kind, NEW asked, NEW net, NEW env
  PROVE  LET p == build_provider(kind, asked, net)
             ret == IF p.error # "" THEN p.error ELSE remote_generate(p, env)
         IN  ret = "" <=> p.error = "" /\ p.kind = "mock"
<1> DEFINE p == build_provider(kind, asked, net)
           checks == << <<p.kind = "mock", "">>,
                        <<~model_pinned(p), "ProviderNotConfigured">>,
                        <<p.kind = "huggingface", "NotImplementedError">>,
                        <<p.kind \notin env.keys, "ProviderNotConfigured">>,
                        <<~p.allow_network, "NetworkDisabled">>,
                        <<TRUE, "NotImplementedError">> >>
<1>1. remote_generate(p, env) = First(checks)
  BY Zenon DEF remote_generate
<1>2. DOMAIN checks = 1 .. 6
  OBVIOUS
<1>3. /\ checks[1][1] <=> p.kind = "mock"
      /\ checks[6][1]
  BY DEF build_provider
<1>4. /\ checks[1][2] = "" /\ checks[2][2] # "" /\ checks[3][2] # ""
      /\ checks[4][2] # "" /\ checks[5][2] # "" /\ checks[6][2] # ""
  OBVIOUS
<1>5. 1 .. 6 = {1, 2, 3, 4, 5, 6}
  OBVIOUS
<1>6. \/ (\A i \in 1 .. 6 : ~checks[i][1]) /\ First(checks) = ""
      \/ \E i \in 1 .. 6 : /\ checks[i][1] /\ First(checks) = checks[i][2]
                           /\ \A j \in 1 .. 6 : checks[j][1] => i <= j
  <2> HIDE DEF checks
  <2> QED BY <1>2, FirstIsLeast, Zenon
<1>7. First(checks) = "" <=> p.kind = "mock"
  <2> HIDE DEF checks, p
  <2>1. PICK i \in 1 .. 6 : /\ checks[i][1] /\ First(checks) = checks[i][2]
                           /\ \A j \in 1 .. 6 : checks[j][1] => i <= j
    <3>1. ~ \A i \in 1 .. 6 : ~checks[i][1]
      BY <1>3, 6 \in 1 .. 6, Zenon
    <3> QED BY <1>6, <3>1, Zenon
  <2>2. i = 1 => p.kind = "mock"
    BY <1>3, <2>1
  <2>3. p.kind = "mock" => i = 1
    BY <1>3, <2>1
  <2>4. i # 1 => checks[i][2] # ""
    BY <1>4, <1>5, Zenon
  <2> QED BY <1>4, <2>1, <2>2, <2>3, <2>4, Zenon
<1> HIDE DEF checks, p
<1>8. (IF p.error # "" THEN p.error ELSE remote_generate(p, env)) = ""
        <=> p.error = "" /\ p.kind = "mock"
  BY <1>1, <1>7, Zenon
<1> QED BY <1>8, Zenon DEF p

ToldApart ==
  {"generate", "legacy",
   "knapsack", "targeting", "allocate", "evict", "calibrate", "subset", "calibration", "interaction",
   "atomize", "review", "kappa", "outcomes", "bold", "interval", "seal", "guard",
   "reproduce", "superiority", "bootstrap", "manuscript", "manifest", "compress", "benchmark", "comparators", "cell", "ledger"}

(* The rule a call names is the rule it was made of.                          *)
LEMMA RuleOfCall ==
  ASSUME Next
  PROVE  /\ call'.rule = "generate" => Generate
         /\ call'.rule = "legacy" => Legacy
         /\ call'.rule = "knapsack" => Knapsack
         /\ call'.rule = "targeting" => Target
         /\ call'.rule = "allocate" => Allocate
         /\ call'.rule = "evict" => Evict
         /\ call'.rule = "calibrate" => Calibrate
         /\ call'.rule = "subset" => Thin
         /\ call'.rule = "calibration" => Calibration
         /\ call'.rule = "interaction" => Interact
         /\ call'.rule = "atomize" => Atomize
         /\ call'.rule = "review" => Review
         /\ call'.rule = "kappa" => Agree
         /\ call'.rule = "seal" => Sealing
         /\ call'.rule = "guard" => Guard
         /\ call'.rule = "bold" => Bold
         /\ call'.rule = "outcomes" => Export
         /\ call'.rule = "interval" => Interval
         /\ call'.rule = "reproduce" => Reproduce
         /\ call'.rule = "superiority" => Superiority
         /\ call'.rule = "bootstrap" => Bootstrap
         /\ call'.rule = "manuscript" => Manuscript
         /\ call'.rule = "manifest" => Freeze
         /\ call'.rule = "compress" => Compress
         /\ call'.rule = "benchmark" => Benchmark
         /\ call'.rule = "comparators" => Comparators
         /\ call'.rule = "cell" => Cell
         /\ call'.rule = "ledger" => Ledger
<1> DEFINE Other == call'.rule \notin ToldApart
           Told == /\ call'.rule = "generate" => Generate
                   /\ call'.rule = "legacy" => Legacy
                   /\ call'.rule = "knapsack" => Knapsack
                   /\ call'.rule = "targeting" => Target
                   /\ call'.rule = "allocate" => Allocate
                   /\ call'.rule = "evict" => Evict
                   /\ call'.rule = "calibrate" => Calibrate
                   /\ call'.rule = "subset" => Thin
                   /\ call'.rule = "calibration" => Calibration
                   /\ call'.rule = "interaction" => Interact
                   /\ call'.rule = "atomize" => Atomize
                   /\ call'.rule = "review" => Review
                   /\ call'.rule = "kappa" => Agree
                   /\ call'.rule = "seal" => Sealing
                   /\ call'.rule = "guard" => Guard
                   /\ call'.rule = "bold" => Bold
                   /\ call'.rule = "outcomes" => Export
                   /\ call'.rule = "interval" => Interval
                   /\ call'.rule = "reproduce" => Reproduce
                   /\ call'.rule = "superiority" => Superiority
                   /\ call'.rule = "bootstrap" => Bootstrap
                   /\ call'.rule = "manuscript" => Manuscript
                   /\ call'.rule = "manifest" => Freeze
                   /\ call'.rule = "compress" => Compress
                   /\ call'.rule = "benchmark" => Benchmark
                   /\ call'.rule = "comparators" => Comparators
                   /\ call'.rule = "cell" => Cell
                   /\ call'.rule = "ledger" => Ledger
<1>1. \A rule, args, ret : Call(rule, args, ret) => call'.rule = rule
  BY DEF Call
<1>2. ASSUME Other PROVE Told
  BY <1>2 DEF ToldApart
<1>3. ASSUME Generate PROVE Told
  <2>1. \A args, ret : Call("generate", args, ret) => call'.rule = "generate" BY <1>1
  <2>2. \E args, ret : Call("generate", args, ret) BY <1>3, SMTT(20) DEF Generate
  <2>3. call'.rule = "generate" BY <2>1, <2>2
  <2> QED BY <1>3, <2>3
<1>4. ASSUME Legacy PROVE Told
  <2>1. \A args, ret : Call("legacy", args, ret) => call'.rule = "legacy" BY <1>1
  <2>3. call'.rule = "legacy" BY <1>4, <2>1, Zenon DEF Legacy
  <2> QED BY <1>4, <2>3
<1>5. ASSUME Knapsack PROVE Told
  <2>1. \A args, ret : Call("knapsack", args, ret) => call'.rule = "knapsack" BY <1>1
  <2>3. call'.rule = "knapsack" BY <1>5, <2>1, Zenon DEF Knapsack
  <2> QED BY <1>5, <2>3
<1>6. ASSUME Target PROVE Told
  <2>1. \A args, ret : Call("targeting", args, ret) => call'.rule = "targeting" BY <1>1
  <2>3. call'.rule = "targeting" BY <1>6, <2>1, Zenon DEF Target
  <2> QED BY <1>6, <2>3
<1>7. ASSUME Allocate PROVE Told
  <2>1. \A args, ret : Call("allocate", args, ret) => call'.rule = "allocate" BY <1>1
  <2>3. call'.rule = "allocate" BY <1>7, <2>1, Zenon DEF Allocate
  <2> QED BY <1>7, <2>3
<1>8. ASSUME Evict PROVE Told
  <2>1. \A args, ret : Call("evict", args, ret) => call'.rule = "evict" BY <1>1
  <2>3. call'.rule = "evict" BY <1>8, <2>1, Zenon DEF Evict
  <2> QED BY <1>8, <2>3
<1>9. ASSUME Calibrate PROVE Told
  <2>1. \A args, ret : Call("calibrate", args, ret) => call'.rule = "calibrate" BY <1>1
  <2>3. call'.rule = "calibrate" BY <1>9, <2>1, Zenon DEF Calibrate
  <2> QED BY <1>9, <2>3
<1>10. ASSUME Thin PROVE Told
  <2>1. \A args, ret : Call("subset", args, ret) => call'.rule = "subset" BY <1>1
  <2>3. call'.rule = "subset" BY <1>10, <2>1, Zenon DEF Thin
  <2> QED BY <1>10, <2>3
<1>11. ASSUME Calibration PROVE Told
  <2>1. \A args, ret : Call("calibration", args, ret) => call'.rule = "calibration" BY <1>1
  <2>2. \E args, ret : Call("calibration", args, ret) BY <1>11, SMTT(20) DEF Calibration
  <2>3. call'.rule = "calibration" BY <2>1, <2>2
  <2> QED BY <1>11, <2>3
<1>12. ASSUME Interact PROVE Told
  <2>1. \A args, ret : Call("interaction", args, ret) => call'.rule = "interaction" BY <1>1
  <2>3. call'.rule = "interaction" BY <1>12, <2>1, Zenon DEF Interact
  <2> QED BY <1>12, <2>3
<1>13. ASSUME Reproduce PROVE Told
  <2>1. \A args, ret : Call("reproduce", args, ret) => call'.rule = "reproduce" BY <1>1
  <2>3. call'.rule = "reproduce" BY <1>13, <2>1, Zenon DEF Reproduce
  <2> QED BY <1>13, <2>3
<1>14. ASSUME Superiority PROVE Told
  <2>1. \A args, ret : Call("superiority", args, ret) => call'.rule = "superiority" BY <1>1
  <2>3. call'.rule = "superiority" BY <1>14, <2>1, Zenon DEF Superiority
  <2> QED BY <1>14, <2>3
<1>15. ASSUME Bootstrap PROVE Told
  <2>1. \A args, ret : Call("bootstrap", args, ret) => call'.rule = "bootstrap" BY <1>1
  <2>3. call'.rule = "bootstrap" BY <1>15, <2>1, Zenon DEF Bootstrap
  <2> QED BY <1>15, <2>3
<1>16. ASSUME Manuscript PROVE Told
  <2>1. \A args, ret : Call("manuscript", args, ret) => call'.rule = "manuscript" BY <1>1
  <2>3. call'.rule = "manuscript" BY <1>16, <2>1, Zenon DEF Manuscript
  <2> QED BY <1>16, <2>3
<1>17. ASSUME Freeze PROVE Told
  <2>1. \A args, ret : Call("manifest", args, ret) => call'.rule = "manifest" BY <1>1
  <2>3. call'.rule = "manifest" BY <1>17, <2>1, Zenon DEF Freeze
  <2> QED BY <1>17, <2>3
<1>18. ASSUME Compress PROVE Told
  <2>1. \A args, ret : Call("compress", args, ret) => call'.rule = "compress" BY <1>1
  <2>3. call'.rule = "compress" BY <1>18, <2>1, Zenon DEF Compress
  <2> QED BY <1>18, <2>3
<1>19. ASSUME Benchmark PROVE Told
  <2>1. \A args, ret : Call("benchmark", args, ret) => call'.rule = "benchmark" BY <1>1
  <2>3. call'.rule = "benchmark" BY <1>19, <2>1, Zenon DEF Benchmark
  <2> QED BY <1>19, <2>3
<1>20. ASSUME Comparators PROVE Told
  <2>1. \A args, ret : Call("comparators", args, ret) => call'.rule = "comparators" BY <1>1
  <2>3. call'.rule = "comparators" BY <1>20, <2>1, Zenon DEF Comparators
  <2> QED BY <1>20, <2>3
<1>21. ASSUME Cell PROVE Told
  <2>1. \A args, ret : Call("cell", args, ret) => call'.rule = "cell" BY <1>1
  <2>3. call'.rule = "cell" BY <1>21, <2>1, Zenon DEF Cell
  <2> QED BY <1>21, <2>3
<1>22. ASSUME Ledger PROVE Told
  <2>1. \A args, ret : Call("ledger", args, ret) => call'.rule = "ledger" BY <1>1
  <2>3. call'.rule = "ledger" BY <1>22, <2>1, Zenon DEF Ledger
  <2> QED BY <1>22, <2>3
<1>23. ASSUME Design PROVE Told
  <2>1. \A args, ret : Call("design", args, ret) => call'.rule = "design" BY <1>1
  <2>3. call'.rule = "design" BY <1>23, <2>1, Zenon DEF Design
  <2>4. Other BY <2>3 DEF ToldApart
  <2> QED BY <1>2, <2>4
<1>24. ASSUME Decompose PROVE Told
  <2>1. \A args, ret : Call("decompose", args, ret) => call'.rule = "decompose" BY <1>1
  <2>3. call'.rule = "decompose" BY <1>24, <2>1, Zenon DEF Decompose
  <2>4. Other BY <2>3 DEF ToldApart
  <2> QED BY <1>2, <2>4
<1>25. ASSUME ByClass PROVE Told
  <2>1. \A args, ret : Call("classes", args, ret) => call'.rule = "classes" BY <1>1
  <2>3. call'.rule = "classes" BY <1>25, <2>1, Zenon DEF ByClass
  <2>4. Other BY <2>3 DEF ToldApart
  <2> QED BY <1>2, <2>4
<1>26. ASSUME Region PROVE Told
  <2>1. \A args, ret : Call("region", args, ret) => call'.rule = "region" BY <1>1
  <2>3. call'.rule = "region" BY <1>26, <2>1, Zenon DEF Region
  <2>4. Other BY <2>3 DEF ToldApart
  <2> QED BY <1>2, <2>4
<1>27. ASSUME Probe PROVE Told
  <2>1. \A args, ret : Call("probe", args, ret) => call'.rule = "probe" BY <1>1
  <2>3. call'.rule = "probe" BY <1>27, <2>1, Zenon DEF Probe
  <2>4. Other BY <2>3 DEF ToldApart
  <2> QED BY <1>2, <2>4
<1>28. ASSUME Fold PROVE Told
  <2>1. \A args, ret : Call("fold", args, ret) => call'.rule = "fold" BY <1>1
  <2>3. call'.rule = "fold" BY <1>28, <2>1, Zenon DEF Fold
  <2>4. Other BY <2>3 DEF ToldApart
  <2> QED BY <1>2, <2>4
<1>29. ASSUME Fit PROVE Told
  <2>1. \A args, ret : Call("fit", args, ret) => call'.rule = "fit" BY <1>1
  <2>3. call'.rule = "fit" BY <1>29, <2>1, Zenon DEF Fit
  <2>4. Other BY <2>3 DEF ToldApart
  <2> QED BY <1>2, <2>4
<1>30. ASSUME Validate PROVE Told
  <2>1. \A args, ret : Call("validate", args, ret) => call'.rule = "validate" BY <1>1
  <2>2. PICK n \in 1 .. 4 : \E predicted, truth \in [1 .. n -> BOOLEAN], stratum \in 1 .. 2, gate \in {50, 99} :
          LET v == validation_score(predicted, truth)
          IN  Call("validate", [predicted |-> predicted, truth |-> truth, stratum |-> stratum, gate |-> gate],
                         [score |-> v, passed |-> validation_passed(v, stratum, gate)])
    BY <1>30, Zenon DEF Validate
  <2>3. \E args, ret : Call("validate", args, ret)
    <3>1. PICK predicted, truth, stratum, gate :
            LET v == validation_score(predicted, truth)
            IN  Call("validate", [predicted |-> predicted, truth |-> truth, stratum |-> stratum, gate |-> gate],
                           [score |-> v, passed |-> validation_passed(v, stratum, gate)])
      BY <2>2
    <3> QED BY <3>1, Zenon
  <2>4. call'.rule = "validate" BY <2>1, <2>3, Zenon
  <2>5. Other BY <2>4 DEF ToldApart
  <2> QED BY <1>2, <2>5
<1>31. ASSUME Edit PROVE Told
  <2>1. \A args, ret : Call("edit", args, ret) => call'.rule = "edit" BY <1>1
  <2>3. call'.rule = "edit" BY <1>31, <2>1, Zenon DEF Edit
  <2>4. Other BY <2>3 DEF ToldApart
  <2> QED BY <1>2, <2>4
<1>32. ASSUME Sham PROVE Told
  <2>1. \A args, ret : Call("sham", args, ret) => call'.rule = "sham" BY <1>1
  <2>3. call'.rule = "sham" BY <1>32, <2>1, Zenon DEF Sham
  <2>4. Other BY <2>3 DEF ToldApart
  <2> QED BY <1>2, <2>4
<1>33. ASSUME Skeleton PROVE Told
  <2>1. \A args, ret : Call("skeleton", args, ret) => call'.rule = "skeleton" BY <1>1
  <2>3. call'.rule = "skeleton" BY <1>33, <2>1, Zenon DEF Skeleton
  <2>4. Other BY <2>3 DEF ToldApart
  <2> QED BY <1>2, <2>4
<1>34. ASSUME Atomize PROVE Told
  <2>1. \A args, ret : Call("atomize", args, ret) => call'.rule = "atomize" BY <1>1
  <2>3. call'.rule = "atomize" BY <1>34, <2>1, Zenon DEF Atomize
  <2> QED BY <1>34, <2>3
<1>35. ASSUME Review PROVE Told
  <2>1. \A args, ret : Call("review", args, ret) => call'.rule = "review" BY <1>1
  <2>3. call'.rule = "review" BY <1>35, <2>1, Zenon DEF Review
  <2> QED BY <1>35, <2>3
<1>36. ASSUME Agree PROVE Told
  <2>1. \A args, ret : Call("kappa", args, ret) => call'.rule = "kappa" BY <1>1
  <2>3. call'.rule = "kappa" BY <1>36, <2>1, Zenon DEF Agree
  <2> QED BY <1>36, <2>3
<1>37. ASSUME Export PROVE Told
  <2>1. \A args, ret : Call("outcomes", args, ret) => call'.rule = "outcomes" BY <1>1
  <2>3. call'.rule = "outcomes" BY <1>37, <2>1, Zenon DEF Export
  <2> QED BY <1>37, <2>3
<1>38. ASSUME Bold PROVE Told
  <2>1. \A args, ret : Call("bold", args, ret) => call'.rule = "bold" BY <1>1
  <2>3. call'.rule = "bold" BY <1>38, <2>1, Zenon DEF Bold
  <2> QED BY <1>38, <2>3
<1>39. ASSUME Interval PROVE Told
  <2>1. \A args, ret : Call("interval", args, ret) => call'.rule = "interval" BY <1>1
  <2>3. call'.rule = "interval" BY <1>39, <2>1, Zenon DEF Interval
  <2> QED BY <1>39, <2>3
<1>40. ASSUME Sealing PROVE Told
  <2>1. \A args, ret : Call("seal", args, ret) => call'.rule = "seal" BY <1>1
  <2>3. call'.rule = "seal" BY <1>40, <2>1, Zenon DEF Sealing
  <2> QED BY <1>40, <2>3
<1>41. ASSUME Guard PROVE Told
  <2>1. \A args, ret : Call("guard", args, ret) => call'.rule = "guard" BY <1>1
  <2>3. call'.rule = "guard" BY <1>41, <2>1, Zenon DEF Guard
  <2> QED BY <1>41, <2>3
<1>42. ASSUME Return PROVE Told
  <2>1. Other BY <1>42 DEF Return, Idle, ToldApart
  <2> QED BY <1>2, <2>1
<1> HIDE DEF Other, Told
<1>43. Told
  BY <1>3, <1>4, <1>5, <1>6, <1>7, <1>8, <1>9, <1>10, <1>11, <1>12, <1>13, <1>14, <1>15, <1>16, <1>17, <1>18, <1>19, <1>20,
     <1>21, <1>22, <1>23, <1>24, <1>25, <1>26, <1>27, <1>28, <1>29, <1>30, <1>31, <1>32, <1>33, <1>34, <1>35, <1>36, <1>37, <1>38, <1>39, <1>40, <1>41, <1>42, Zenon DEF Next
<1> QED BY <1>43 DEF Told

(* generate and status_dict (providers/adapters.py, protocol.py),            *)
(* capabilities_for and the older build_provider: in every sequence of       *)
(* calls, a vendor adapter sends a request exactly when the interface shows  *)
(* it configured and pinned, the network is allowed and a token budget is    *)
(* left; it sends no option the registry denies, none that the model of the  *)
(* request refuses, and reports the model it named; the mocks send nothing.  *)
THEOREM AdaptersAreGuarded == Spec => []AdaptersAgree
<1>1. Init => AdaptersAgree
  BY DEF Init, Idle, AdaptersAgree
<1>2. ASSUME AdaptersAgree, [Next]_call PROVE AdaptersAgree'
  <2>1. CASE UNCHANGED call
    BY <1>2, <2>1, Zenon DEF AdaptersAgree
  <2>2. CASE Next /\ call'.rule = "generate"
    <3>0. Generate
      BY <2>2, RuleOfCall
    <3>1. PICK a \in Adapters, r \in Requests, v \in Replies :
            \E env \in Worlds(a.name) :
              Call("generate", [a |-> a, env |-> env, r |-> r], generate(a, env, r, v))
      BY <3>0 DEF Generate
    <3>2. PICK env :
            Call("generate", [a |-> a, env |-> env, r |-> r], generate(a, env, r, v))
      BY <3>1
    <3>3. /\ call'.rule = "generate" /\ call'.args.a = a /\ call'.args.env = env /\ call'.args.r = r
          /\ call'.ret = generate(a, env, r, v)
      BY <3>2 DEF Call
    <3>4. CallIsGuarded(a, env, r, generate(a, env, r, v))
      <4>1. a.name \in Providers
        BY Zenon DEF Adapters
      <4>2. r.budget \in {0, 1}
        BY Zenon DEF Requests
      <4> QED BY <4>1, <4>2, AdapterCall
    <3>5. CallIsGuarded(call'.args.a, call'.args.env, call'.args.r, call'.ret)
      BY <3>3, <3>4
    <3>6. call'.rule # "legacy"
      BY <3>3
    <3> QED BY <3>5, <3>6, Zenon DEF CallIsGuarded, AdaptersAgree
  <2>3. CASE Next /\ call'.rule = "legacy"
    <3>0. Legacy
      BY <2>3, RuleOfCall
    <3>1. PICK kind, asked, net, env :
            LET p == build_provider(kind, asked, net)
            IN  Call("legacy", p, IF p.error # "" THEN p.error ELSE remote_generate(p, env))
      BY <3>0, Zenon DEF Legacy
    <3> DEFINE p == build_provider(kind, asked, net)
               ret == IF p.error # "" THEN p.error ELSE remote_generate(p, env)
    <3>2. ret = "" <=> p.error = "" /\ p.kind = "mock"
      BY LegacyCall, Zenon
    <3>3. call' = [rule |-> "legacy", args |-> p, ret |-> ret]
      BY <3>1, Zenon DEF Call
    <3> HIDE DEF p, ret
    <3>4. call'.rule = "legacy" /\ call'.args = p /\ call'.ret = ret
      BY <3>3
    <3> QED BY <3>2, <3>4, Zenon DEF AdaptersAgree
  <2>4. CASE call'.rule \notin {"generate", "legacy"}
    BY <2>4, Zenon DEF AdaptersAgree
  <2> QED BY <1>2, <2>1, <2>2, <2>3, <2>4
<1> QED BY <1>1, <1>2, PTL DEF Spec

-----------------------------------------------------------------------------
(* Allocation, targeting and the knapsack.                                   *)

(* The rules of a call are those of BudgetRules: Max,                        *)
LEMMA SameMax == \A S : Max(S) = Budget!Max(S)
BY Zenon DEF Max, Budget!Max

(* the table of the knapsack,                                                *)
LEMMA SameBest == \A s, B : Best(s, B) = Budget!Best(s, B)
BY Zenon DEF Best, Budget!Best, Max, Budget!Max

(* the order in which it reads the items,                                    *)
LEMMA SameOrder == \A X : InOrderOfCost(X) = Budget!InOrderOfCost(X)
BY Zenon DEF InOrderOfCost, Budget!InOrderOfCost, CheaperFirst, Budget!CheaperFirst, Cardinality, Budget!Cardinality

(* its way back through the table,                                           *)
LEMMA SameBack == \A s, dp, B : Backtrack(s, dp, B) = Budget!Backtrack(s, dp, B)
BY Zenon DEF Backtrack, Budget!Backtrack, Takes, Budget!Takes, Fits, Budget!Fits, Grab, Budget!Grab

(* and what it returns.                                                      *)
LEMMA SameKnapsack ==
  ASSUME NEW X, NEW B
  PROVE  /\ knapsack(X, B).chosen = Budget!knapsack(X, B).chosen
         /\ knapsack(X, B).total_utility = Budget!knapsack(X, B).total_utility
<1> DEFINE s == Budget!InOrderOfCost(X)
           dp == Budget!Best(s, B)
           S == Budget!Backtrack(s, dp, B)
           t == InOrderOfCost(X)
           dq == Best(t, B)
           T == Backtrack(t, dq, B)
<1>1. /\ Budget!knapsack(X, B).chosen = {it.id : it \in S}
      /\ Budget!knapsack(X, B).total_utility = dp[<<Len(s), B>>]
  BY DEF Budget!knapsack
<1>2. /\ knapsack(X, B).chosen = {it.id : it \in T}
      /\ knapsack(X, B).total_utility = dq[<<Len(t), B>>]
  BY DEF knapsack
<1>3. s = t
  BY SameOrder
<1>4. dp = dq
  BY <1>3, SameBest
<1>5. S = T
  BY <1>3, <1>4, SameBack
<1> HIDE DEF s, dp, S, t, dq, T
<1> QED BY <1>1, <1>2, <1>3, <1>4, <1>5

(* TotalOf is a sum over a set.                                              *)
LEMMA TotalIs == \A S, f : TotalOf(S, f) = SumOver(f, S)
BY DEF TotalOf, SumFunctionOnSet, FoldFunctionOnSet, MapThenFoldSet,
       SumOver, MapThenSumSet, MapThenFoldSet

(* The atom Trim drops, and the value it computes at each step.              *)
LeastUseful(S, score) ==
  CHOOSE a \in S : \A b \in S : score[a] < score[b] \/ (score[a] = score[b] /\ a <= b)
Settled(S, cost, budget, header, joint) ==
  S = {} \/ MessageTokens(S, cost, header, joint) <= budget
TrimEntry(kept, k, selected, cost, score, budget, header, joint) ==
  IF k = 0 THEN selected
  ELSE IF Settled(kept[k - 1], cost, budget, header, joint) THEN kept[k - 1]
  ELSE kept[k - 1] \ {LeastUseful(kept[k - 1], score)}
IsTrim(kept, selected, cost, score, budget, header, joint) ==
  kept = [k \in 0 .. Cardinality(selected) |->
            TrimEntry(kept, k, selected, cost, score, budget, header, joint)]

(* Trim is the table of its rounds.                                          *)
LEMMA TrimValue ==
  ASSUME NEW selected, NEW cost, NEW score, NEW budget, NEW header, NEW joint,
         \E kept : IsTrim(kept, selected, cost, score, budget, header, joint)
  PROVE  \E kept : /\ IsTrim(kept, selected, cost, score, budget, header, joint)
                   /\ Trim(selected, cost, score, budget, header, joint)
                        = kept[Cardinality(selected)]
<1> DEFINE G == CHOOSE kept : IsTrim(kept, selected, cost, score, budget, header, joint)
<1>1. IsTrim(G, selected, cost, score, budget, header, joint)
  OBVIOUS
<1>2. Trim(selected, cost, score, budget, header, joint) = G[Cardinality(selected)]
  BY Zenon DEF Trim, IsTrim, TrimEntry, Settled, LeastUseful
<1> QED BY <1>1, <1>2

(* The message dropped next is one of those selected.                        *)
LEMMA LeastUsefulIsMember ==
  ASSUME NEW S, IsFiniteSet(S), S # {}, S \subseteq Int, NEW score, \A a \in S : score[a] \in Int
  PROVE  LeastUseful(S, score) \in S
<1> DEFINE R == {p \in S \X S : score[p[1]] < score[p[2]] \/ (score[p[1]] = score[p[2]] /\ p[1] < p[2])}
<1>1. \A a, b \in S : <<a, b>> \in R <=> score[a] < score[b] \/ (score[a] = score[b] /\ a < b)
  OBVIOUS
<1> HIDE DEF R
<1>2. Orders(R, S)
  <2>1. \A a \in S : <<a, a>> \notin R
    BY <1>1
  <2>2. ASSUME NEW a \in S, NEW b \in S, a # b PROVE <<a, b>> \in R \/ <<b, a>> \in R
    <3>1. a \in Int /\ b \in Int /\ score[a] \in Int /\ score[b] \in Int
      OBVIOUS
    <3> QED BY <1>1, <2>2, <3>1
  <2>3. ASSUME NEW a \in S, NEW b \in S, NEW c \in S, <<a, b>> \in R, <<b, c>> \in R
        PROVE  <<a, c>> \in R
    <3>1. /\ a \in Int /\ b \in Int /\ c \in Int
          /\ score[a] \in Int /\ score[b] \in Int /\ score[c] \in Int
      OBVIOUS
    <3> QED BY <1>1, <2>3, <3>1
  <2> QED BY <2>1, <2>2, <2>3, Zenon DEF Orders
<1>3. PICK a \in S : \A b \in S : b = a \/ <<a, b>> \in R
  BY <1>2, LeastMember
<1>4. \A b \in S : score[a] < score[b] \/ (score[a] = score[b] /\ a <= b)
  <2> SUFFICES ASSUME NEW b \in S PROVE score[a] < score[b] \/ (score[a] = score[b] /\ a <= b)
    OBVIOUS
  <2>1. a \in Int /\ b \in Int
    OBVIOUS
  <2>2. CASE b = a
    BY <2>1, <2>2
  <2>3. CASE <<a, b>> \in R
    BY <1>1, <2>1, <2>3
  <2> QED BY <1>3, <2>2, <2>3
<1> QED BY <1>4 DEF LeastUseful

(* The loop of allocate (causalrelay/allocator.py) ends with a message that  *)
(* fits, or with nothing in it.                                              *)
LEMMA TrimSettles ==
  ASSUME NEW selected, IsFiniteSet(selected), selected \subseteq Int, NEW cost,
         NEW score, \A a \in selected : score[a] \in Int, NEW budget, NEW header, NEW joint
  PROVE  LET S == Trim(selected, cost, score, budget, header, joint)
         IN  S \subseteq selected /\ Settled(S, cost, budget, header, joint)
<1> DEFINE n == Cardinality(selected)
           Done(S) == Settled(S, cost, budget, header, joint)
           Less(S) == IF Done(S) THEN S ELSE S \ {LeastUseful(S, score)}
           h == [k \in 1 .. n |-> [S \in SUBSET selected |-> Less(S)]]
<1>1. n \in Nat /\ Cardinality(selected) = n
  <2>1. Cardinality(selected) = Cardinality(selected)
    BY Zenon DEF Cardinality, Cardinality
  <2> QED BY <2>1, FS_CardinalityType
<1>2. \A S \in SUBSET selected : Less(S) \in SUBSET selected
  OBVIOUS
<1> HIDE DEF Done, n, Less
<1>3. h \in [1 .. n -> [SUBSET selected -> SUBSET selected]]
  BY <1>2
<1>4. \A k \in 1 .. n, S \in SUBSET selected : h[k][S] = Less(S)
  OBVIOUS
<1> HIDE DEF h
<1>5. PICK f : IsChain(f, n, SUBSET selected, selected, h)
  BY <1>1, <1>3, ChainExists
<1>6. /\ f \in [0 .. n -> SUBSET selected] /\ f[0] = selected
      /\ \A k \in 1 .. n : f[k] = Less(f[k - 1])
  <2>1. \A k \in 1 .. n : f[k - 1] \in SUBSET selected /\ f[k] = h[k][f[k - 1]]
    BY <1>1, <1>5 DEF IsChain
  <2> QED BY <1>4, <1>5, <2>1 DEF IsChain
<1>7. IsTrim(f, selected, cost, score, budget, header, joint)
  <2>1. \A k \in 0 .. n : f[k] = TrimEntry(f, k, selected, cost, score, budget, header, joint)
    <3> SUFFICES ASSUME NEW k \in 0 .. n
                 PROVE  f[k] = TrimEntry(f, k, selected, cost, score, budget, header, joint)
      OBVIOUS
    <3>1. CASE k = 0
      BY <1>6, <3>1 DEF TrimEntry
    <3>2. CASE k # 0
      <4>1. k \in 1 .. n
        BY <1>1, <3>2
      <4>2. f[k] = Less(f[k - 1])
        BY <1>6, <4>1
      <4> QED BY <3>2, <4>2, Zenon DEF TrimEntry, Less, Done
    <3> QED BY <3>1, <3>2
  <2>2. DOMAIN f = 0 .. n /\ f = [k \in DOMAIN f |-> f[k]]
    BY <1>6
  <2> QED BY <1>1, <2>1, <2>2, Zenon DEF IsTrim
<1>8. PICK c : /\ IsTrim(c, selected, cost, score, budget, header, joint)
               /\ Trim(selected, cost, score, budget, header, joint) = c[n]
  BY <1>1, <1>7, TrimValue
<1>9. \A k \in 0 .. n : c[k] = IF k = 0 THEN selected ELSE Less(c[k - 1])
  BY <1>1, <1>8 DEF IsTrim, TrimEntry, Less, Done
<1> DEFINE P == {k \in 0 .. n : c[k] \subseteq selected /\ (Done(c[k]) \/ Cardinality(c[k]) = n - k)}
<1>10. 0 \in P
  BY <1>1, <1>9 DEF n
<1>11. ASSUME NEW k \in 1 .. n, k - 1 \in P PROVE k \in P
  <2>1. k - 1 \in 0 .. n /\ k \in 0 .. n /\ k # 0
    BY <1>1
  <2>2. c[k] = Less(c[k - 1]) /\ c[k - 1] \subseteq selected
    BY <1>9, <1>11, <2>1
  <2>3. CASE Done(c[k - 1])
    BY <2>1, <2>2, <2>3 DEF Less
  <2>4. CASE ~ Done(c[k - 1])
    <3>1. Cardinality(c[k - 1]) = n - (k - 1)
      BY <1>11, <2>4
    <3>2. c[k] = c[k - 1] \ {LeastUseful(c[k - 1], score)}
      BY <2>2, <2>4 DEF Less
    <3>3. c[k - 1] # {} /\ IsFiniteSet(c[k - 1])
      BY <2>2, <2>4, FS_Subset DEF Done, Settled
    <3>4. LeastUseful(c[k - 1], score) \in c[k - 1]
      BY <2>2, <3>3, LeastUsefulIsMember
    <3>5. Cardinality(c[k]) = Cardinality(c[k - 1]) - 1
      <4> DEFINE S == c[k - 1]
                 x == LeastUseful(S, score)
      <4>1. x \in S /\ IsFiniteSet(S) /\ c[k] = S \ {x}
        BY <3>2, <3>3, <3>4
      <4> HIDE DEF S, x
      <4>2. Cardinality(c[k]) = Cardinality(S) - 1
        BY <4>1, FS_RemoveElement
      <4> QED BY <4>2 DEF S
    <3>6. n - (k - 1) - 1 = n - k
      BY <1>1
    <3> QED BY <2>1, <2>2, <3>1, <3>2, <3>5, <3>6
  <2> QED BY <2>3, <2>4
<1> HIDE DEF P
<1>12. n \in P
  BY <1>1, <1>10, <1>11, InductUpTo
<1>13. c[n] \subseteq selected /\ (Done(c[n]) \/ Cardinality(c[n]) = 0)
  BY <1>1, <1>12 DEF P
<1>14. Done(c[n])
  <2>1. IsFiniteSet(c[n])
    BY <1>13, FS_Subset
  <2> QED BY <1>13, <2>1, FS_EmptySet DEF Done, Settled
<1> QED BY <1>8, <1>13, <1>14 DEF Done

(* allocate (causalrelay/allocate.py):  the message it sends is made of the  *)
(* atoms it was given and costs at most the budget once the header and the   *)
(* joints are counted, unless nothing is left in it but the header; for any  *)
(* costs, scores and budget.                                                 *)
THEOREM AllocatedMessageFits ==
  ASSUME NEW atoms, IsFiniteSet(atoms), atoms \subseteq Int,
         NEW cost, \A a \in atoms : cost[a] \in Nat,
         NEW score, \A a \in atoms : score[a] \in Int,
         NEW budget \in Nat, NEW header \in Int, NEW joint \in Int
  PROVE  LET r == allocate(atoms, cost, score, budget, header, joint)
         IN  /\ r.chosen_atom_ids \subseteq atoms
             /\ IF r.chosen_atom_ids = {} THEN r.total_cost = header ELSE r.total_cost <= budget
<1> DEFINE utility == [a \in atoms |-> Max({0, score[a]})]
           item == [a \in atoms |-> [id |-> a, cost |-> cost[a], util |-> utility[a]]]
           X == {[id |-> a, cost |-> cost[a], util |-> utility[a]] : a \in atoms}
           sol == knapsack(X, budget)
           S == Trim(sol.chosen, cost, score, budget, header, joint)
           total == MessageTokens(S, cost, header, joint)
           r == allocate(atoms, cost, score, budget, header, joint)
<1>1. r = [chosen_atom_ids |-> S, total_cost |-> total, predicted_utility |-> TotalOf(S, utility)]
  BY Zenon DEF allocate
<1>2. r.chosen_atom_ids = S /\ r.total_cost = total
  <2> HIDE DEF r, S, total, utility
  <2> QED BY <1>1
<1>3. \A a \in atoms : utility[a] \in Int
  <2> SUFFICES ASSUME NEW a \in atoms PROVE utility[a] \in Int
    OBVIOUS
  <2>1. score[a] \in Int /\ 0 \in Int
    OBVIOUS
  <2>2. Max({0, score[a]}) = IF score[a] > 0 THEN score[a] ELSE 0
    BY <2>1, MaxOfTwo, SameMax
  <2> QED BY <2>1, <2>2
<1> HIDE DEF utility
<1>4. X = {item[a] : a \in atoms}
  OBVIOUS
<1>5. IsFiniteSet(X)
  <2> HIDE DEF item, X
  <2> QED BY <1>4, FiniteImage
<1>6. /\ \A x \in X : x.id \in atoms /\ x.cost \in Nat /\ x.util \in Int
      /\ \A x, y \in X : x.cost = y.cost /\ x.id = y.id => x = y
  BY <1>3
<1> HIDE DEF item, X
<1>7. PICK T : sol.chosen = {x.id : x \in T} /\ T \subseteq X
  <2>1. Priced(X) /\ \A x \in X : x.id \in Int
    BY <1>5, <1>6 DEF Priced
  <2> QED BY <1>6, <2>1, KnapsackIsOptimal, SameKnapsack DEF BestChoice
<1>8. sol.chosen \subseteq atoms
  BY <1>6, <1>7
<1> HIDE DEF sol
<1>9. S \subseteq sol.chosen /\ Settled(S, cost, budget, header, joint)
  <2>1. IsFiniteSet(sol.chosen) /\ sol.chosen \subseteq Int /\ \A a \in sol.chosen : score[a] \in Int
    BY <1>8, FS_Subset
  <2> QED BY <2>1, TrimSettles
<1>10. S = {} => total = header
  <2>1. TotalOf({}, cost) = 0
    BY TotalIs, SumOfNone
  <2>2. Cardinality({}) = 0
    <3>1. Cardinality({}) = Cardinality({})
      BY Zenon DEF Cardinality, Cardinality
    <3> QED BY <3>1, FS_EmptySet
  <2>3. MessageTokens({}, cost, header, joint) = header
    BY <2>1, <2>2 DEF MessageTokens
  <2> QED BY <2>3
<1> HIDE DEF S, total, r
<1> QED BY <1>2, <1>8, <1>9, <1>10 DEF r, Settled, total

(* A set of records or items with identifiers of their own, costs and        *)
(* utilities.                                                                *)
Catalogue(X) ==
  /\ Priced(X) /\ \A x \in X : x.id \in Int
  /\ \A x, y \in X : x.id = y.id => x = y

(* The sums over a catalogue are naturals and integers.                      *)
LEMMA CatalogueSums ==
  ASSUME NEW X, Catalogue(X), NEW T \in SUBSET X
  PROVE  /\ TotalOf(T, [it \in X |-> it.cost]) = CostSum(T)
         /\ TotalOf(T, [it \in X |-> it.util]) = UtilSum(T)
         /\ CostSum(T) \in Nat /\ UtilSum(T) \in Int /\ IsFiniteSet(T)
<1>1. IsFiniteSet(T) /\ \A x \in T : x.cost \in Nat /\ x.util \in Int
  BY FS_Subset DEF Catalogue, Priced
<1> DEFINE c == [it \in X |-> it.cost]
           u == [it \in X |-> it.util]
           d == [it \in T |-> it.cost]
           v == [it \in T |-> it.util]
<1>2. \A x \in T : c[x] = d[x] /\ u[x] = v[x] /\ c[x] \in Nat /\ u[x] \in Int
  BY <1>1
<1>3. CostSum(T) = SumOver(d, T) /\ UtilSum(T) = SumOver(v, T)
  BY DEF CostSum, UtilSum
<1> HIDE DEF c, u, d, v
<1>4. SumOver(c, T) = SumOver(d, T)
  BY <1>1, <1>2, SumCongruence
<1>5. SumOver(u, T) = SumOver(v, T)
  BY <1>1, <1>2, SumCongruence
<1>6. SumOver(c, T) \in Nat /\ SumOver(u, T) \in Int
  BY <1>1, <1>2, SumIsNat, SumIsInt
<1> QED BY <1>1, <1>3, <1>4, <1>5, <1>6, TotalIs DEF c, u

(* What knapsack is asked for.                                               *)
BestPurchase(items, budget, r) ==
  LET Cost(S) == TotalOf(S, [it \in items |-> it.cost])
      Util(S) == TotalOf(S, [it \in items |-> it.util])
      chosen == {it \in items : it.id \in r.chosen}
  IN  /\ Cost(chosen) <= budget /\ Util(chosen) = r.total_utility
      /\ \A S \in SUBSET items : Cost(S) <= budget => Util(S) <= r.total_utility

(* knapsack: what it chooses is within the budget, attains the utility it    *)
(* reports, and no purchase within the budget has more.                      *)
LEMMA KnapsackBuysBest ==
  ASSUME NEW X, Catalogue(X), NEW B \in Nat
  PROVE  BestPurchase(X, B, knapsack(X, B))
<1> DEFINE r == knapsack(X, B)
           chosen == {it \in X : it.id \in r.chosen}
<1>1. PICK S : r.chosen = {x.id : x \in S} /\ BestChoice(S, X, B, r.total_utility)
  BY KnapsackIsOptimal, SameKnapsack DEF Catalogue
<1>2. chosen = S
  BY <1>1 DEF Catalogue, BestChoice
<1>3. \A T \in SUBSET X : /\ TotalOf(T, [it \in X |-> it.cost]) = CostSum(T)
                         /\ TotalOf(T, [it \in X |-> it.util]) = UtilSum(T)
  BY CatalogueSums
<1>4. chosen \in SUBSET X
  OBVIOUS
<1> HIDE DEF r, chosen
<1>5. BestPurchase(X, B, r)
  BY <1>1, <1>2, <1>3, <1>4, Zenon DEF BestPurchase, BestChoice, chosen
<1> QED BY <1>5 DEF r

(* The oracle of evaluate_targeting, over the records it is made from.       *)
LEMMA OracleIsBest ==
  ASSUME NEW records, Catalogue(records), NEW budget \in Nat
  PROVE  LET X == {[id |-> r.id, cost |-> r.cost, util |-> r.util] : r \in records}
             best == knapsack(X, budget).total_utility
         IN  /\ best \in Int
             /\ \A P \in SUBSET records : CostSum(P) <= budget => UtilSum(P) <= best
<1> DEFINE item == [r \in records |-> [id |-> r.id, cost |-> r.cost, util |-> r.util]]
           X == {[id |-> r.id, cost |-> r.cost, util |-> r.util] : r \in records}
           best == knapsack(X, budget).total_utility
<1>1. \A r, s \in records : item[r] = item[s] => r = s
  BY DEF Catalogue
<1>2. X = {item[r] : r \in records}
  OBVIOUS
<1>3. \A r \in records : /\ item[r].id = r.id /\ item[r].cost = r.cost /\ item[r].util = r.util
                         /\ r.id \in Int /\ r.cost \in Nat /\ r.util \in Int
  BY DEF Catalogue, Priced
<1> HIDE DEF item, X
<1>4. IsFiniteSet(records) /\ IsFiniteSet(X)
  BY <1>2, FiniteImage DEF Catalogue, Priced
<1>5. Catalogue(X)
  <2>1. \A x \in X : x.id \in Int /\ x.cost \in Nat /\ x.util \in Int
    BY <1>2, <1>3
  <2>2. \A x, y \in X : x.id = y.id => x = y
    BY <1>2, <1>3 DEF Catalogue
  <2> QED BY <1>4, <2>1, <2>2 DEF Catalogue, Priced
<1>6. BestPurchase(X, budget, knapsack(X, budget))
  BY <1>5, KnapsackBuysBest
<1>7. \A T \in SUBSET X : CostSum(T) <= budget => UtilSum(T) <= best
  <2>1. ASSUME NEW T \in SUBSET X, CostSum(T) <= budget PROVE UtilSum(T) <= best
    <3>1. /\ TotalOf(T, [it \in X |-> it.cost]) = CostSum(T)
          /\ TotalOf(T, [it \in X |-> it.util]) = UtilSum(T)
      BY <1>5, CatalogueSums
    <3> QED BY <1>6, <2>1, <3>1, Zenon DEF BestPurchase
  <2> QED BY <2>1
<1>8. best \in Int
  <2> DEFINE chosen == {it \in X : it.id \in knapsack(X, budget).chosen}
  <2>1. TotalOf(chosen, [it \in X |-> it.util]) = best
    BY <1>6, Zenon DEF BestPurchase
  <2>2. chosen \in SUBSET X
    OBVIOUS
  <2> HIDE DEF chosen, best
  <2> QED BY <1>5, <2>1, <2>2, CatalogueSums
<1> HIDE DEF best
<1>9. ASSUME NEW P \in SUBSET records, CostSum(P) <= budget PROVE UtilSum(P) <= best
  <2> DEFINE T == {item[r] : r \in P}
             c == [r \in P |-> r.cost]
             u == [r \in P |-> r.util]
             d == [x \in T |-> x.cost]
             v == [x \in T |-> x.util]
  <2>1. IsFiniteSet(P) /\ T \in SUBSET X
    BY <1>2, <1>4, FS_Subset
  <2>2. \A r \in P : c[r] \in Int /\ u[r] \in Int /\ d[item[r]] = c[r] /\ v[item[r]] = u[r]
    BY <1>3
  <2>3. CostSum(P) = SumOver(c, P) /\ UtilSum(P) = SumOver(u, P)
    BY DEF CostSum, UtilSum
  <2>4. CostSum(T) = SumOver(d, T) /\ UtilSum(T) = SumOver(v, T)
    BY DEF CostSum, UtilSum
  <2> HIDE DEF c, u, d, v
  <2>5. \A r, s \in P : item[r] = item[s] => r = s
    BY <1>1
  <2>6. SumOver(d, T) = SumOver(c, P)
    BY <2>1, <2>2, <2>5, SumOfImage
  <2>7. SumOver(v, T) = SumOver(u, P)
    BY <2>1, <2>2, <2>5, SumOfImage
  <2> HIDE DEF T
  <2> QED BY <1>7, <1>9, <2>1, <2>3, <2>4, <2>6, <2>7
<1> QED BY <1>8, <1>9 DEF X, best

(* One record of RandomPick's loop, and the states the loop can be in.       *)
PackStep(acc, i, records, budget) ==
  LET cost == CostOf(records, i)
  IN  IF acc.spent + cost <= budget
      THEN [spent |-> acc.spent + cost, picked |-> acc.picked \cup {i}]
      ELSE acc
IsPack(pack, records, order, budget) ==
  pack = [k \in 0 .. Len(order) |->
            IF k = 0 THEN [spent |-> 0, picked |-> {}]
            ELSE PackStep(pack[k - 1], order[k], records, budget)]

(* RandomPick is the table of its rounds.                                    *)
LEMMA PackValue ==
  ASSUME NEW records, NEW order, NEW budget, \E pack : IsPack(pack, records, order, budget)
  PROVE  \E pack : /\ IsPack(pack, records, order, budget)
                   /\ RandomPick(records, order, budget) = pack[Len(order)].picked
<1> DEFINE G == CHOOSE pack : IsPack(pack, records, order, budget)
<1>1. IsPack(G, records, order, budget)
  OBVIOUS
<1>2. RandomPick(records, order, budget) = G[Len(order)].picked
  BY Zenon DEF RandomPick, IsPack, PackStep
<1> QED BY <1>1, <1>2

(* The cost and utility of a record of a catalogue are its own.              *)
LEMMA CostOfRecord ==
  ASSUME NEW records, Catalogue(records), NEW r \in records
  PROVE  CostOf(records, r.id) = r.cost
BY DEF Catalogue, CostOf

(* No random draw is worth more than the oracle: the loop never spends more  *)
(* than the budget, however often the shuffle names a record.                *)
LEMMA DrawIsBounded ==
  ASSUME NEW records, Catalogue(records), NEW budget \in Nat,
         NEW order \in Seq({r.id : r \in records})
  PROVE  CostSum({r \in records : r.id \in RandomPick(records, order, budget)}) <= budget
<1> DEFINE n == Len(order)
           Ids == {r.id : r \in records}
           Of(picked) == {r \in records : r.id \in picked}
           V == [spent : 0 .. budget, picked : SUBSET Ids]
           zero == [spent |-> 0, picked |-> {}]
           h == [k \in 1 .. n |-> [acc \in V |-> PackStep(acc, order[k], records, budget)]]
<1>1. n \in Nat /\ \A k \in 1 .. n : order[k] \in Ids
  OBVIOUS
<1>2. \A i \in Ids : CostOf(records, i) \in Nat
  BY CostOfRecord DEF Catalogue, Priced
<1>3. ASSUME NEW acc \in V, NEW i \in Ids PROVE PackStep(acc, i, records, budget) \in V
  <2>1. CostOf(records, i) \in Nat
    BY <1>2
  <2> QED BY <2>1 DEF PackStep
<1>4. zero \in V
  OBVIOUS
<1> HIDE DEF V, zero, Ids, n
<1>5. h \in [1 .. n -> [V -> V]]
  BY <1>1, <1>3
<1>6. \A k \in 1 .. n, acc \in V : h[k][acc] = PackStep(acc, order[k], records, budget)
  OBVIOUS
<1> HIDE DEF h
<1>7. PICK f : IsChain(f, n, V, zero, h)
  BY <1>1, <1>4, <1>5, ChainExists
<1>8. /\ f \in [0 .. n -> V] /\ f[0] = zero
      /\ \A k \in 1 .. n : f[k] = PackStep(f[k - 1], order[k], records, budget)
  <2>1. \A k \in 1 .. n : f[k - 1] \in V /\ f[k] = h[k][f[k - 1]]
    BY <1>1, <1>7 DEF IsChain
  <2> QED BY <1>6, <1>7, <2>1 DEF IsChain
<1>9. IsPack(f, records, order, budget)
  <2>1. \A k \in 0 .. n : f[k] = IF k = 0 THEN zero ELSE PackStep(f[k - 1], order[k], records, budget)
    <3> SUFFICES ASSUME NEW k \in 0 .. n
                 PROVE  f[k] = IF k = 0 THEN zero ELSE PackStep(f[k - 1], order[k], records, budget)
      OBVIOUS
    <3>1. k = 0 \/ k \in 1 .. n
      BY <1>1
    <3> QED BY <1>8, <3>1
  <2>2. f = [k \in 0 .. n |-> f[k]]
    BY <1>8
  <2> QED BY <2>1, <2>2, Zenon DEF IsPack, n, zero
<1>10. PICK c : /\ IsPack(c, records, order, budget)
                /\ RandomPick(records, order, budget) = c[n].picked
  BY <1>9, PackValue DEF n
<1>11. /\ c[0] = zero
       /\ \A k \in 1 .. n : c[k] = PackStep(c[k - 1], order[k], records, budget)
  <2>1. c = [k \in 0 .. n |-> IF k = 0 THEN zero ELSE PackStep(c[k - 1], order[k], records, budget)]
    BY <1>10, Zenon DEF IsPack, n, zero
  <2>2. \A k \in 0 .. n : c[k] = IF k = 0 THEN zero ELSE PackStep(c[k - 1], order[k], records, budget)
    BY <2>1, Zenon
  <2>3. 0 \in 0 .. n /\ \A k \in 1 .. n : k \in 0 .. n /\ k # 0
    BY <1>1
  <2> QED BY <2>2, <2>3
<1> DEFINE Ok(k) == c[k] \in V /\ CostSum(Of(c[k].picked)) <= c[k].spent
           P == {k \in 0 .. n : Ok(k)}
<1>12. 0 \in P
  <2>1. c[0].picked = {} /\ c[0].spent = 0
    BY <1>11 DEF zero
  <2>2. Of({}) = {}
    OBVIOUS
  <2> HIDE DEF Of
  <2>3. CostSum(Of(c[0].picked)) = 0
    BY <2>1, <2>2, NothingTaken
  <2>4. Ok(0)
    BY <1>4, <1>11, <2>1, <2>3
  <2> HIDE DEF Ok
  <2> QED BY <1>1, <2>4
<1>13. ASSUME NEW k \in 1 .. n, k - 1 \in P PROVE k \in P
  <2> DEFINE acc == c[k - 1]
             i == order[k]
  <2>0. k \in 0 .. n /\ k - 1 \in 0 .. n
    BY <1>1
  <2>1. acc \in V /\ CostSum(Of(acc.picked)) <= acc.spent /\ c[k] = PackStep(acc, i, records, budget)
    BY <2>0, <1>11, <1>13
  <2>2. PICK r \in records : i = r.id
    BY <1>1 DEF Ids
  <2>3. CostOf(records, i) = r.cost /\ r.cost \in Nat
    BY <2>2, CostOfRecord DEF Catalogue, Priced
  <2> HIDE DEF acc, i
  <2>4. c[k] \in V
    BY <1>1, <1>3, <2>1 DEF i
  <2>5. ASSUME acc.spent + r.cost <= budget PROVE Ok(k)
    <3>1. c[k].spent = acc.spent + r.cost /\ c[k].picked = acc.picked \cup {i}
      BY <2>1, <2>3, <2>5 DEF PackStep
    <3> DEFINE T == Of(c[k].picked)
    <3>2. T = Of(acc.picked) \cup {r}
      BY <2>2, <3>1 DEF Catalogue
    <3>3. acc.spent \in Int /\ Of(acc.picked) \in SUBSET records /\ T \in SUBSET records /\ r \in T
      BY <2>1, <3>2 DEF V
    <3>4. CostSum(Of(acc.picked)) \in Nat /\ CostSum(T) \in Nat
      <4> HIDE DEF T, Of
      <4> QED BY <3>3, CatalogueSums
    <3>5. CASE r \in Of(acc.picked)
      <4>1. T = Of(acc.picked)
        BY <3>2, <3>5
      <4> HIDE DEF T, Of
      <4> QED BY <2>1, <2>3, <2>4, <3>1, <3>3, <3>4, <4>1 DEF T
    <3>6. CASE r \notin Of(acc.picked)
      <4>1. T \ {r} = Of(acc.picked)
        BY <3>2, <3>6
      <4> HIDE DEF T, Of
      <4>2. Priced(T)
        BY <3>3, CatalogueSums DEF Priced, Catalogue
      <4>3. CostSum(T) = r.cost + CostSum(T \ {r})
        BY <3>3, <4>2, ItemTaken
      <4>4. CostSum(T) <= c[k].spent
        <5> DEFINE x == CostSum(T \ {r})
                   y == CostSum(T)
        <5>1. x \in Nat /\ x <= acc.spent
          BY <2>1, <3>4, <4>1
        <5>2. y = r.cost + x
          BY <4>3
        <5> HIDE DEF x, y
        <5>3. y <= acc.spent + r.cost
          BY <2>3, <3>3, <5>1, <5>2
        <5> QED BY <3>1, <5>3 DEF y
      <4> QED BY <2>4, <4>4, Zenon DEF T
    <3> QED BY <3>5, <3>6
  <2>6. ASSUME ~ (acc.spent + r.cost <= budget) PROVE Ok(k)
    <3>1. c[k] = acc
      BY <2>1, <2>3, <2>6 DEF PackStep
    <3> QED BY <2>1, <2>4, <3>1
  <2>7. Ok(k)
    BY <2>5, <2>6
  <2> HIDE DEF Ok
  <2> QED BY <2>0, <2>7
<1> HIDE DEF P, Ok
<1>14. n \in P
  <2>1. \A k \in 0 .. n : k \in P
    BY <1>1, <1>12, <1>13, InductUpTo
  <2> QED BY <1>1, <2>1
<1>15. c[n].spent \in 0 .. budget /\ CostSum(Of(c[n].picked)) <= c[n].spent
  <2>1. Ok(n)
    BY <1>14 DEF P
  <2> QED BY <2>1 DEF V, Ok
<1>16. CostSum(Of(c[n].picked)) \in Nat
  <2>1. Of(c[n].picked) \in SUBSET records
    OBVIOUS
  <2> HIDE DEF Of
  <2> QED BY <2>1, CatalogueSums
<1>17. CostSum(Of(c[n].picked)) <= budget
  BY <1>15, <1>16
<1> QED BY <1>10, <1>17

(* What a targeting ratio compares: the draws and the observed message with  *)
(* the oracle.                                                               *)
TargetingBounded(records, budget, n, t) ==
  LET observed == {r \in records : r.transmitted}
  IN  /\ t.g_rand <= n * t.g_star
      /\ TotalOf(observed, [r \in observed |-> r.cost]) <= budget => t.g_obs <= t.g_star

(* evaluate_targeting (causal/targeting.py): no random draw is worth more    *)
(* than the oracle, so their mean is at most the oracle's worth, and neither *)
(* is what was observed when it was affordable; for any records, budget and  *)
(* shuffles.  The targeting ratio compares with a baseline it can reach.     *)
THEOREM TargetingIsBounded ==
  ASSUME NEW records, Catalogue(records), NEW budget \in Nat,
         NEW n \in Nat, NEW draws \in [1 .. n -> Seq({r.id : r \in records})]
  PROVE  TargetingBounded(records, budget, n, evaluate_targeting(records, budget, draws))
<1> DEFINE X == {[id |-> r.id, cost |-> r.cost, util |-> r.util] : r \in records}
           best == knapsack(X, budget).total_utility
           observed == {r \in records : r.transmitted}
           g_obs == Utility(records, {r.id : r \in observed})
           Of(picked) == {r \in records : r.id \in picked}
           G == [i \in DOMAIN draws |-> Utility(records, RandomPick(records, draws[i], budget))]
           g_rand == SumFunction(G)
           t == evaluate_targeting(records, budget, draws)
<1>1. t = [g_obs |-> g_obs, g_star |-> best, g_rand |-> g_rand,
           eta_defined |-> best * Len(draws) > g_rand]
  BY Zenon DEF evaluate_targeting
<1>2. t.g_obs = g_obs /\ t.g_star = best /\ t.g_rand = g_rand
  <2> HIDE DEF t, g_obs, best, g_rand
  <2> QED BY <1>1
<1>3. best \in Int /\ \A P \in SUBSET records : CostSum(P) <= budget => UtilSum(P) <= best
  BY OracleIsBest
<1>4. \A picked : Utility(records, picked) = UtilSum(Of(picked)) /\ UtilSum(Of(picked)) \in Int
  BY CatalogueSums DEF Utility
<1> HIDE DEF best
<1>5. ASSUME NEW i \in 1 .. n PROVE G[i] \in Int /\ G[i] <= best
  <2> DEFINE picked == RandomPick(records, draws[i], budget)
  <2>1. draws[i] \in Seq({r.id : r \in records})
    OBVIOUS
  <2>2. CostSum(Of(picked)) <= budget
    BY <2>1, DrawIsBounded
  <2>3. G[i] = Utility(records, picked)
    OBVIOUS
  <2>4. Of(picked) \in SUBSET records
    OBVIOUS
  <2> HIDE DEF Of, picked, G
  <2> QED BY <1>3, <1>4, <2>2, <2>3, <2>4
<1>6. g_rand <= n * best
  <2>1. DOMAIN G = 1 .. n
    OBVIOUS
  <2> HIDE DEF G
  <2>2. g_rand = SumOver(G, 1 .. n)
    BY <2>1 DEF SumFunction, SumFunctionOnSet, FoldFunctionOnSet, MapThenFoldSet,
                SumOver, MapThenSumSet, MapThenFoldSet
  <2>3. IsFiniteSet(1 .. n) /\ Cardinality(1 .. n) = n
    BY FS_Interval
  <2> HIDE DEF g_rand
  <2>4. SumOver(G, 1 .. n) <= n * best
    BY <1>3, <1>5, <2>3, SumAtMost
  <2> QED BY <2>2, <2>4
<1>7. ASSUME TotalOf(observed, [r \in observed |-> r.cost]) <= budget PROVE g_obs <= best
  <2>1. TotalOf(observed, [r \in observed |-> r.cost]) = CostSum(observed)
    BY TotalIs DEF CostSum
  <2>2. observed \in SUBSET records /\ Of({r.id : r \in observed}) = observed
    BY DEF Catalogue
  <2> HIDE DEF observed, Of
  <2>3. CostSum(observed) <= budget
    BY <1>7, <2>1
  <2>4. UtilSum(observed) <= best
    BY <1>3, <2>2, <2>3
  <2> QED BY <1>4, <2>2, <2>4
<1> HIDE DEF t, g_obs, g_rand, observed
<1>8. TargetingBounded(records, budget, n, t)
  BY <1>2, <1>6, <1>7 DEF TargetingBounded, observed
<1> QED BY <1>8 DEF t

-----------------------------------------------------------------------------
(* Eviction and calibration.                                                 *)

(* The gap of two atoms is a natural, the same both ways.                    *)
LEMMA GapIs ==
  ASSUME NEW tokens, NEW a, NEW b, tokens[a] \in Int, tokens[b] \in Int
  PROVE  /\ Gap(tokens, a, b) \in Nat
         /\ Gap(tokens, a, b) = Gap(tokens, b, a)
BY DEF Gap, Abs

(* The partner choose_eviction_partner takes, in the order of its key.       *)
PartnerBefore(tokens, role, focal, b, c) ==
  LET x == Gap(tokens, focal, b)
      y == Gap(tokens, focal, c)
      m == IF role[b] = role[focal] THEN 1 ELSE 0
      n == IF role[c] = role[focal] THEN 1 ELSE 0
  IN  x < y \/ (x = y /\ (m < n \/ (m = n /\ b < c)))

PartnerOrder(S, tokens, role, focal) ==
  {p \in S \X S : PartnerBefore(tokens, role, focal, p[1], p[2])}

(* The partners of an atom are totally ordered by rank.                      *)
LEMMA PartnersOrder ==
  ASSUME NEW S, S \subseteq Int, NEW focal, NEW tokens, NEW role,
         tokens[focal] \in Int, \A b \in S : tokens[b] \in Int
  PROVE  /\ Orders(PartnerOrder(S, tokens, role, focal), S)
         /\ \A b, c \in S : <<b, c>> \in PartnerOrder(S, tokens, role, focal)
                              <=> PartnerBefore(tokens, role, focal, b, c)
<1> DEFINE R == PartnerOrder(S, tokens, role, focal)
           g(b) == Gap(tokens, focal, b)
           m(b) == IF role[b] = role[focal] THEN 1 ELSE 0
<1>1. \A b, c \in S : <<b, c>> \in R <=> PartnerBefore(tokens, role, focal, b, c)
  BY DEF PartnerOrder
<1>2. \A b \in S : g(b) \in Int /\ m(b) \in Int /\ b \in Int
  BY GapIs
<1>3. \A b, c : PartnerBefore(tokens, role, focal, b, c)
                  <=> g(b) < g(c) \/ (g(b) = g(c) /\ (m(b) < m(c) \/ (m(b) = m(c) /\ b < c)))
  BY Zenon DEF PartnerBefore
<1> HIDE DEF R, g, m
<1>4. \A d \in S : <<d, d>> \notin R
  BY <1>1, <1>2, <1>3
<1>5. ASSUME NEW d \in S, NEW e \in S, d # e PROVE <<d, e>> \in R \/ <<e, d>> \in R
  BY <1>1, <1>2, <1>3, <1>5
<1>6. ASSUME NEW d \in S, NEW e \in S, NEW f \in S, <<d, e>> \in R, <<e, f>> \in R
      PROVE  <<d, f>> \in R
  <2>1. PartnerBefore(tokens, role, focal, d, e) /\ PartnerBefore(tokens, role, focal, e, f)
    BY <1>1, <1>6
  <2>2. PartnerBefore(tokens, role, focal, d, f)
    BY <1>2, <1>3, <2>1
  <2> QED BY <1>1, <2>2
<1>7. Orders(R, S)
  BY <1>4, <1>5, <1>6, Zenon DEF Orders
<1> QED BY <1>1, <1>7 DEF R

(* A partner that is as near as any other atom, and a candidate itself.      *)
PartnerIsNearest(focal, atoms, tokens, tolerance, partner) ==
  /\ partner # focal /\ partner \in candidate_set(atoms, tokens, tolerance)
  /\ \A b \in atoms \ {focal} : Gap(tokens, focal, partner) <= Gap(tokens, focal, b)

(* choose_eviction_partner (interventions/budget_neutral.py): the partner is  *)
(* another atom, no atom of the document is nearer to the focal one in        *)
(* tokens, and it is itself a candidate, so the contrast can be run from      *)
(* either side; for any atoms, token counts, roles and tolerance.             *)
THEOREM EvictionIsNearest ==
  ASSUME NEW atoms, IsFiniteSet(atoms), atoms \subseteq Int,
         NEW tokens, \A a \in atoms : tokens[a] \in Int, NEW role, NEW tolerance \in Int,
         NEW focal \in candidate_set(atoms, tokens, tolerance)
  PROVE  PartnerIsNearest(focal, atoms, tokens, tolerance,
                          choose_eviction_partner(focal, atoms, tokens, role, tolerance))
<1> DEFINE S == feasible_partners(focal, atoms, tokens, tolerance)
           Place(b) == <<Gap(tokens, focal, b), IF role[b] = role[focal] THEN 1 ELSE 0, b>>
           Before(x, y) == x[1] < y[1] \/ (x[1] = y[1] /\ (x[2] < y[2] \/ (x[2] = y[2] /\ x[3] <= y[3])))
           Foremost(b) == \A c \in S : Before(Place(b), Place(c))
           p == choose_eviction_partner(focal, atoms, tokens, role, tolerance)
           R == PartnerOrder(S, tokens, role, focal)
<1>1. p = CHOOSE b \in S : Foremost(b)
  BY Zenon DEF choose_eviction_partner
<1>2. focal \in atoms /\ S # {}
  BY DEF candidate_set
<1>3. S \subseteq atoms \ {focal} /\ \A b \in atoms \ {focal} : b \in S <=> Gap(tokens, focal, b) <= tolerance
  BY DEF feasible_partners
<1> HIDE DEF S
<1>4. Orders(R, S) /\ \A b, c \in S : <<b, c>> \in R <=> PartnerBefore(tokens, role, focal, b, c)
  <2>1. S \subseteq Int /\ tokens[focal] \in Int /\ \A b \in S : tokens[b] \in Int
    BY <1>2, <1>3
  <2> QED BY <2>1, PartnersOrder
<1> HIDE DEF R
<1>5. PICK b \in S : \A c \in S : c = b \/ <<b, c>> \in R
  <2>1. IsFiniteSet(S)
    BY <1>3, FS_Subset
  <2> QED BY <1>2, <1>4, <2>1, LeastMember
<1>6. Foremost(b)
  <2> SUFFICES ASSUME NEW c \in S PROVE Before(Place(b), Place(c))
    OBVIOUS
  <2>1. b \in Int /\ c \in Int
    BY <1>3
  <2>2. CASE c = b
    BY <2>1, <2>2
  <2>3. CASE PartnerBefore(tokens, role, focal, b, c)
    BY <2>1, <2>3 DEF PartnerBefore
  <2> QED BY <1>4, <1>5, <2>2, <2>3
<1>7. p \in S /\ Foremost(p)
  <2> HIDE DEF Foremost, p
  <2> QED BY <1>1, <1>5, <1>6
<1>8. ASSUME NEW c \in S PROVE Gap(tokens, focal, p) <= Gap(tokens, focal, c)
  <2>1. Before(Place(p), Place(c))
    BY <1>7
  <2> HIDE DEF p
  <2>2. Gap(tokens, focal, p) \in Nat /\ Gap(tokens, focal, c) \in Nat
    BY <1>2, <1>3, <1>7, GapIs
  <2> QED BY <2>1, <2>2
<1> HIDE DEF p, Foremost
<1>9. ASSUME NEW b2 \in atoms \ {focal}
      PROVE  Gap(tokens, focal, p) <= Gap(tokens, focal, b2)
  <2>1. CASE b2 \in S
    BY <1>8, <2>1
  <2>2. CASE b2 \notin S
    <3>1. Gap(tokens, focal, p) <= tolerance /\ ~ (Gap(tokens, focal, b2) <= tolerance)
      BY <1>3, <1>7, <2>2
    <3>2. Gap(tokens, focal, p) \in Nat /\ Gap(tokens, focal, b2) \in Nat
      BY <1>2, <1>3, <1>7, GapIs
    <3> QED BY <3>1, <3>2
  <2> QED BY <2>1, <2>2
<1>10. p \in candidate_set(atoms, tokens, tolerance)
  <2>1. p \in atoms \ {focal} /\ Gap(tokens, focal, p) <= tolerance
    BY <1>3, <1>7
  <2>2. focal \in atoms \ {p} /\ Gap(tokens, p, focal) <= tolerance
    BY <1>2, <2>1, GapIs
  <2>3. focal \in feasible_partners(p, atoms, tokens, tolerance)
    BY <2>2 DEF feasible_partners
  <2> QED BY <2>1, <2>3 DEF candidate_set
<1>11. PartnerIsNearest(focal, atoms, tokens, tolerance, p)
  BY <1>3, <1>7, <1>9, <1>10 DEF PartnerIsNearest
<1> QED BY <1>11 DEF p

(* Fractions x/b, y/c and z/e compared crosswise.                            *)
LEMMA Cancels ==
  ASSUME NEW p \in Int, NEW q \in Int, NEW c \in Nat, c # 0
  PROVE  /\ p * c < q * c => p < q
         /\ p * c = q * c => p = q
OBVIOUS

(* A product with a positive factor keeps the order.                         *)
LEMMA Scales ==
  ASSUME NEW p \in Int, NEW q \in Int, NEW c \in Nat, c # 0, p < q
  PROVE  p * c < q * c
OBVIOUS

(* Comparing fractions by cross products is transitive.                      *)
LEMMA CrossTransitive ==
  ASSUME NEW x \in Int, NEW y \in Int, NEW z \in Int,
         NEW b \in Nat, NEW c \in Nat, NEW e \in Nat, b # 0, c # 0, e # 0
  PROVE  /\ x * c < y * b /\ y * e < z * c => x * e < z * b
         /\ x * c < y * b /\ y * e = z * c => x * e < z * b
         /\ x * c = y * b /\ y * e < z * c => x * e < z * b
         /\ x * c = y * b /\ y * e = z * c => x * e = z * b
<1> DEFINE p == x * c
           q == y * b
           r == y * e
           s == z * c
           t == x * e
           u == z * b
<1>1. p \in Int /\ q \in Int /\ r \in Int /\ s \in Int /\ t \in Int /\ u \in Int
  OBVIOUS
<1>2. p * e = t * c /\ q * e = r * b /\ s * b = u * c
  OBVIOUS
<1> HIDE DEF p, q, r, s, t, u
<1>3. p * e \in Int /\ q * e \in Int /\ r * b \in Int /\ s * b \in Int
  BY <1>1
<1>4. ASSUME p < q, r < s PROVE t < u
  <2>1. p * e < q * e /\ r * b < s * b
    BY <1>1, <1>4, Scales
  <2>2. t * c < u * c
    BY <1>2, <1>3, <2>1
  <2> QED BY <1>1, <2>2, Cancels
<1>5. ASSUME p < q, r = s PROVE t < u
  <2>1. p * e < q * e
    BY <1>1, <1>5, Scales
  <2>2. t * c < u * c
    BY <1>2, <1>3, <1>5, <2>1
  <2> QED BY <1>1, <2>2, Cancels
<1>6. ASSUME p = q, r < s PROVE t < u
  <2>1. r * b < s * b
    BY <1>1, <1>6, Scales
  <2>2. t * c < u * c
    BY <1>2, <1>3, <1>6, <2>1
  <2> QED BY <1>1, <2>2, Cancels
<1>7. ASSUME p = q, r = s PROVE t = u
  <2>1. t * c = u * c
    BY <1>2, <1>7
  <2> QED BY <1>1, <2>1, Cancels
<1> QED BY <1>4, <1>5, <1>6, <1>7 DEF p, q, r, s, t, u

(* Budget b stands strictly before c in the choice of select_primary_budget.  *)
Closer(m2, b, c) ==
  \/ Distance(m2, b) * c < Distance(m2, c) * b
  \/ Distance(m2, b) * c = Distance(m2, c) * b /\ b > c
CloserOrder(S, m2) == {p \in S \X S : Closer(m2, p[1], p[2])}

(* The budgets of a grid are totally ordered by their distance to the        *)
(* target.                                                                   *)
LEMMA BudgetsOrder ==
  ASSUME NEW S, S \subseteq Nat \ {0}, NEW m2 \in Int
  PROVE  /\ Orders(CloserOrder(S, m2), S)
         /\ \A b, c \in S : <<b, c>> \in CloserOrder(S, m2) <=> Closer(m2, b, c)
<1> DEFINE R == CloserOrder(S, m2)
           D(b) == Distance(m2, b)
<1>1. \A b, c \in S : <<b, c>> \in R <=> Closer(m2, b, c)
  BY DEF CloserOrder
<1>2. \A b \in S : b \in Nat /\ b # 0 /\ b \in Int /\ D(b) \in Int
  BY DEF Distance, Abs
<1>3. \A b, c : Closer(m2, b, c) <=> D(b) * c < D(c) * b \/ (D(b) * c = D(c) * b /\ b > c)
  BY Zenon DEF Closer
<1> HIDE DEF R, D
<1>4. \A b, c \in S : D(b) * c \in Int
  BY <1>2
<1>5. ASSUME NEW d \in S PROVE <<d, d>> \notin R
  BY <1>1, <1>2, <1>3, <1>4
<1>6. ASSUME NEW d \in S, NEW e \in S, d # e PROVE <<d, e>> \in R \/ <<e, d>> \in R
  BY <1>1, <1>2, <1>3, <1>4, <1>6
<1>7. ASSUME NEW d \in S, NEW e \in S, NEW f \in S, <<d, e>> \in R, <<e, f>> \in R
      PROVE  <<d, f>> \in R
  <2>1. Closer(m2, d, e) /\ Closer(m2, e, f)
    BY <1>1, <1>7
  <2>2. /\ D(d) * e < D(e) * d \/ (D(d) * e = D(e) * d /\ d > e)
        /\ D(e) * f < D(f) * e \/ (D(e) * f = D(f) * e /\ e > f)
    BY <1>3, <2>1
  <2>3. /\ D(d) * e < D(e) * d /\ D(e) * f < D(f) * e => D(d) * f < D(f) * d
        /\ D(d) * e < D(e) * d /\ D(e) * f = D(f) * e => D(d) * f < D(f) * d
        /\ D(d) * e = D(e) * d /\ D(e) * f < D(f) * e => D(d) * f < D(f) * d
        /\ D(d) * e = D(e) * d /\ D(e) * f = D(f) * e => D(d) * f = D(f) * d
    BY <1>2, CrossTransitive
  <2>4. d > e /\ e > f => d > f
    BY <1>2
  <2>5. Closer(m2, d, f)
    BY <1>3, <2>2, <2>3, <2>4, Zenon
  <2> QED BY <1>1, <2>5
<1>8. Orders(R, S)
  BY <1>5, <1>6, <1>7, Zenon DEF Orders
<1> QED BY <1>1, <1>8 DEF R

(* The budget chosen for a median is one of the grid and none is nearer.      *)
LEMMA NearestBudget ==
  ASSUME NEW grid, IsFiniteSet(grid), grid # {}, NEW m2 \in Int,
         \A b \in grid : b \in Nat /\ b # 0
  PROVE  \E b \in grid : \A c \in grid : Nearer(m2, b, c)
<1> DEFINE R == CloserOrder(grid, m2)
<1>1. Orders(R, grid) /\ \A b, c \in grid : <<b, c>> \in R <=> Closer(m2, b, c)
  <2>1. grid \subseteq Nat \ {0}
    OBVIOUS
  <2> QED BY <2>1, BudgetsOrder
<1> HIDE DEF R
<1>2. PICK b \in grid : \A c \in grid : c = b \/ <<b, c>> \in R
  <2>1. IsFiniteSet(grid) /\ grid # {} /\ Orders(R, grid)
    BY <1>1
  <2>2. \E x \in grid : \A y \in grid : y = x \/ <<x, y>> \in R
    BY <2>1, LeastMember
  <2> QED BY <2>2
<1>3. ASSUME NEW c \in grid PROVE Nearer(m2, b, c)
  <2>1. b \in Int /\ c \in Int
    OBVIOUS
  <2>2. CASE c = b
    BY <2>1, <2>2 DEF Nearer
  <2>3. CASE Closer(m2, b, c)
    BY <2>1, <2>3 DEF Closer, Nearer
  <2> QED BY <1>1, <1>2, <2>2, <2>3
<1> QED BY <1>3

(* On a grid that spans less than a factor of three, the nearest budget to   *)
(* half the median is below the median whenever any budget is.               *)
LEMMA NearestBinds ==
  ASSUME NEW m2 \in Int, NEW b \in Nat, NEW c \in Nat, b # 0, c # 0, c < 3 * b,
         Nearer(m2, c, b), m2 > 2 * b
  PROVE  m2 > 2 * c
<1> SUFFICES ASSUME m2 <= 2 * c PROVE FALSE
  OBVIOUS
<1> DEFINE P == b * c
           Q == m2 * b
           R == m2 * c
<1>1. P \in Int /\ Q \in Int /\ R \in Int
  OBVIOUS
<1>2. Distance(m2, c) = 4 * c - m2
  BY DEF Distance, Abs
<1>3. Distance(m2, c) * b = 4 * P - Q
  BY <1>2
<1>4. b < c
  OBVIOUS
<1>5. P > 0
  OBVIOUS
<1>6. CASE m2 >= 4 * b
  <2>1. Distance(m2, b) = m2 - 4 * b
    BY <1>6 DEF Distance, Abs
  <2>2. Distance(m2, b) * c = R - 4 * P
    BY <2>1
  <2>3. Q <= 2 * P
    OBVIOUS
  <2>4. m2 < 6 * b
    OBVIOUS
  <2>5. R < 6 * P
    <3>1. m2 * c < (6 * b) * c
      BY <2>4, Scales
    <3>2. (6 * b) * c = 6 * P
      OBVIOUS
    <3> QED BY <3>1, <3>2
  <2>6. 4 * P - Q <= R - 4 * P
    <3>1. 4 * P - Q \in Int /\ R - 4 * P \in Int
      BY <1>1
    <3> HIDE DEF P, Q, R
    <3> QED BY <1>3, <2>2, <3>1 DEF Nearer
  <2> HIDE DEF P, Q, R
  <2> QED BY <1>1, <2>3, <2>5, <2>6
<1>7. CASE ~ (m2 >= 4 * b)
  <2>1. Distance(m2, b) = 4 * b - m2
    BY <1>7 DEF Distance, Abs
  <2>2. Distance(m2, b) * c = 4 * P - R
    BY <2>1
  <2>3. 4 * P - Q <= 4 * P - R
    <3>1. 4 * P - Q \in Int /\ 4 * P - R \in Int
      BY <1>1
    <3> HIDE DEF P, Q, R
    <3> QED BY <1>3, <2>2, <3>1 DEF Nearer
  <2>4. R > Q
    <3>1. m2 \in Nat /\ m2 # 0
      OBVIOUS
    <3>2. b * m2 < c * m2
      BY <1>4, <3>1, Scales
    <3> QED BY <3>2
  <2> HIDE DEF P, Q, R
  <2> QED BY <1>1, <2>3, <2>4
<1> QED BY <1>6, <1>7

(* Ranked(costs, k) is one of the costs: sorted(costs)[k - 1] exists.        *)
LEMMA RankedIsCost ==
  ASSUME NEW n \in Nat, NEW costs, DOMAIN costs = 1 .. n, \A i \in 1 .. n : costs[i] \in Int,
         NEW k \in 1 .. n
  PROVE  Ranked(costs, k) \in {costs[i] : i \in 1 .. n}
<1> DEFINE V == {costs[i] : i \in 1 .. n}
           UpToValue(v) == {i \in 1 .. n : costs[i] <= v}
           Under(v) == {i \in 1 .. n : costs[i] < v}
           W == {v \in V : k <= Cardinality(UpToValue(v))}
<1>1. IsFiniteSet(1 .. n) /\ Cardinality(1 .. n) = n /\ n # 0
  BY FS_Interval
<1>2. IsFiniteSet(V) /\ V # {} /\ V \subseteq Int
  <2>1. IsFiniteSet(V)
    BY <1>1, FiniteImage
  <2> QED BY <2>1
<1>3. \A v : /\ IsFiniteSet(UpToValue(v)) /\ Cardinality(UpToValue(v)) \in Nat
             /\ IsFiniteSet(Under(v)) /\ Cardinality(Under(v)) \in Nat
  <2> SUFFICES ASSUME NEW v
               PROVE  /\ IsFiniteSet(UpToValue(v)) /\ Cardinality(UpToValue(v)) \in Nat
                      /\ IsFiniteSet(Under(v)) /\ Cardinality(Under(v)) \in Nat
    OBVIOUS
  <2>1. UpToValue(v) \subseteq 1 .. n /\ Under(v) \subseteq 1 .. n
    OBVIOUS
  <2> HIDE DEF UpToValue, Under
  <2> QED BY <1>1, <2>1, FS_Subset, FS_CardinalityType
<1>4. W # {}
  <2>1. PICK m \in V : \A v \in V : v <= m
    BY <1>2, GreatestInteger
  <2>2. UpToValue(m) = 1 .. n
    BY <2>1
  <2>3. m \in W
    <3>1. k <= Cardinality(UpToValue(m))
      <4> HIDE DEF UpToValue
      <4> QED BY <1>1, <2>2
    <3> QED BY <3>1
  <2> QED BY <2>3
<1>5. PICK v \in W : \A w \in W : v <= w
  <2>1. IsFiniteSet(W) /\ W \subseteq Int
    BY <1>2, FS_Subset
  <2> HIDE DEF W
  <2> QED BY <1>4, <2>1, LeastInteger
<1>6. v \in V /\ k <= Cardinality(UpToValue(v))
  BY <1>5
<1>7. Cardinality(Under(v)) < k
  <2> SUFFICES ASSUME k <= Cardinality(Under(v)) PROVE FALSE
    <3> DEFINE count == Cardinality(Under(v))
    <3>1. count \in Nat
      BY <1>3
    <3> HIDE DEF count
    <3>2. ~ (k <= count) => count < k
      BY <3>1
    <3> QED BY <3>2 DEF count
  <2> DEFINE U == {costs[i] : i \in Under(v)}
             B == Under(v)
  <2>1. B # {}
    <3>1. k <= Cardinality(B) /\ IsFiniteSet(B)
      BY <1>3
    <3> HIDE DEF B
    <3> QED BY <3>1, FS_EmptySet
  <2>2. IsFiniteSet(B)
    BY <1>3
  <2>3. IsFiniteSet(U) /\ U # {} /\ U \subseteq V
    <3>1. U # {} /\ U \subseteq V
      BY <2>1
    <3>2. IsFiniteSet({costs[i] : i \in B})
      <4> HIDE DEF B
      <4> QED BY <2>2, FiniteImage
    <3> QED BY <3>1, <3>2
  <2>4. PICK w \in U : \A u \in U : u <= w
    <3>1. U \subseteq Int
      BY <1>2, <2>3
    <3> HIDE DEF U
    <3> QED BY <2>3, <3>1, GreatestInteger
  <2>5. w \in V /\ w < v
    BY <2>4
  <2>6. UpToValue(w) = B
    <3>1. ASSUME NEW i \in 1 .. n PROVE costs[i] <= w <=> costs[i] < v
      <4>1. w \in Int /\ v \in Int /\ costs[i] \in Int
        BY <1>2, <1>6, <2>5
      <4>2. costs[i] < v => costs[i] <= w
        BY <2>4
      <4> QED BY <2>5, <4>1, <4>2
    <3> QED BY <3>1
  <2>7. w \in W
    BY <2>5, <2>6
  <2>8. v <= w /\ w \in Int /\ v \in Int
    BY <1>2, <1>5, <1>6, <2>5, <2>7
  <2> QED BY <2>5, <2>8
<1>8. \E u \in {costs[i] : i \in DOMAIN costs} :
        /\ Cardinality({i \in DOMAIN costs : costs[i] < u}) < k
        /\ k <= Cardinality({i \in DOMAIN costs : costs[i] <= u})
  <2>1. Cardinality(Under(v)) < k /\ k <= Cardinality(UpToValue(v))
    BY <1>6, <1>7
  <2> QED BY <1>6, <2>1
<1> QED BY <1>8, Zenon DEF Ranked

(* Twice the median of integers is an integer,                               *)
LEMMA MedianIsInt ==
  ASSUME NEW n \in Nat, n # 0, NEW costs \in [1 .. n -> Int]
  PROVE  MedianTwice(costs) \in Int
<1>1. Len(costs) = n
  OBVIOUS
<1>2. (n + 1) \div 2 \in 1 .. n /\ (n + 2) \div 2 \in 1 .. n
  OBVIOUS
<1>3. Ranked(costs, (n + 1) \div 2) \in Int /\ Ranked(costs, (n + 2) \div 2) \in Int
  <2>1. /\ Ranked(costs, (n + 1) \div 2) \in {costs[i] : i \in 1 .. n}
        /\ Ranked(costs, (n + 2) \div 2) \in {costs[i] : i \in 1 .. n}
    BY <1>2, RankedIsCost
  <2> QED BY <2>1
<1> QED BY <1>1, <1>3 DEF MedianTwice

(* and of naturals a natural.                                                *)
LEMMA MedianIsNat ==
  ASSUME NEW n \in Nat, n # 0, NEW costs \in [1 .. n -> Nat]
  PROVE  MedianTwice(costs) \in Nat
<1>1. Len(costs) = n
  OBVIOUS
<1>2. (n + 1) \div 2 \in 1 .. n /\ (n + 2) \div 2 \in 1 .. n
  OBVIOUS
<1>3. Ranked(costs, (n + 1) \div 2) \in Nat /\ Ranked(costs, (n + 2) \div 2) \in Nat
  <2>1. /\ Ranked(costs, (n + 1) \div 2) \in {costs[i] : i \in 1 .. n}
        /\ Ranked(costs, (n + 2) \div 2) \in {costs[i] : i \in 1 .. n}
    <3>1. \A i \in 1 .. n : costs[i] \in Int
      OBVIOUS
    <3>2. DOMAIN costs = 1 .. n
      OBVIOUS
    <3> QED BY <1>2, <3>1, <3>2, RankedIsCost
  <2> QED BY <2>1
<1> QED BY <1>1, <1>3 DEF MedianTwice

(* select_primary_budget (calibration/budget_calibration.py): on a grid that *)
(* spans less than a factor of three, the budget chosen binds -- the median  *)
(* document does not fit in it -- whenever some budget of the grid does; for *)
(* any token counts.                                                         *)
THEOREM PrimaryBudgetBinds ==
  ASSUME NEW grid, IsFiniteSet(grid), grid # {}, grid \subseteq Nat \ {0},
         \A b, c \in grid : c < 3 * b,
         NEW n \in Nat, n # 0, NEW costs \in [1 .. n -> Int]
  PROVE  /\ select_primary_budget(costs, grid) \in grid
         /\ (\E b \in grid : binds(costs, b))
              => binds(costs, select_primary_budget(costs, grid))
<1> DEFINE m2 == MedianTwice(costs)
           c == select_primary_budget(costs, grid)
<1>1. m2 \in Int
  BY MedianIsInt
<1>2. \E b \in grid : \A d \in grid : Nearer(m2, b, d)
  <2> HIDE DEF m2
  <2> QED BY <1>1, NearestBudget
<1>3. c \in grid /\ \A d \in grid : Nearer(m2, c, d)
  BY <1>2, Zenon DEF select_primary_budget
<1> HIDE DEF c
<1>4. ASSUME NEW b \in grid, binds(costs, b) PROVE binds(costs, c)
  <2>1. m2 > 2 * b
    BY <1>4 DEF binds
  <2> HIDE DEF m2
  <2>2. m2 > 2 * c
    <3>1. b \in Nat /\ c \in Nat /\ b # 0 /\ c # 0 /\ c < 3 * b /\ Nearer(m2, c, b)
      BY <1>3
    <3> QED BY <1>1, <2>1, <3>1, NearestBinds
  <2> QED BY <2>2 DEF m2, binds
<1> QED BY <1>3, <1>4 DEF c

(* Max of a nonempty finite set of integers.                                 *)
LEMMA MaxIsGreatest ==
  ASSUME NEW S, IsFiniteSet(S), S \subseteq Int, S # {}
  PROVE  Max(S) \in S /\ \A x \in S : x <= Max(S)
<1>1. \E x \in S : \A y \in S : x >= y
  <2>1. PICK x \in S : \A y \in S : y <= x
    BY GreatestInteger
  <2>2. \A y \in S : y \in Int /\ x \in Int
    OBVIOUS
  <2> QED BY <2>1, <2>2
<1>2. Max(S) \in S /\ \A y \in S : Max(S) >= y
  BY <1>1, Zenon DEF Max
<1>3. \A y \in S : y \in Int /\ Max(S) \in Int
  BY <1>2
<1> QED BY <1>2, <1>3

(* Min of a nonempty finite set of integers.                                 *)
LEMMA MinIsMember ==
  ASSUME NEW S, IsFiniteSet(S), S \subseteq Int, S # {}
  PROVE  Min(S) \in S
<1>1. PICK x \in S : \A y \in S : x <= y
  BY LeastInteger
<1> QED BY <1>1 DEF Min

(* A subset size that is affordable, and the largest that is.                *)
SubsetPaid(n, candidates, budget, retention, grid, percent, floor) ==
  n # -1 => /\ n \in grid /\ retention >= floor
            /\ 200 * (n * candidates) <= budget * percent
            /\ \A m \in grid : m > n => 200 * (m * candidates) > budget * percent

(* select_experiment_c_subset (calibration/selection.py): a size it returns   *)
(* is one of the grid, both arms of every candidate pair of that many         *)
(* documents fit in the share of the budget set aside for them, no larger     *)
(* size of the grid would, and the pairs retained reach the floor; for any    *)
(* grid, candidate count, budget, share and floor.                            *)
THEOREM SubsetIsPaid ==
  ASSUME NEW grid, IsFiniteSet(grid), grid \subseteq Int, NEW candidates \in Nat,
         NEW budget \in Nat, NEW percent \in Nat, NEW retention \in Int, NEW floor \in Int
  PROVE  SubsetPaid(select_experiment_c_subset(candidates, budget, retention, grid, percent, floor),
                    candidates, budget, retention, grid, percent, floor)
<1> DEFINE p == budget * percent
           ceiling == p \div 100
           affordable == {n \in grid : retention >= floor /\ n * candidates * 2 <= ceiling}
           s == select_experiment_c_subset(candidates, budget, retention, grid, percent, floor)
<1>1. s = IF affordable = {} THEN -1 ELSE Max(affordable)
  BY Zenon DEF select_experiment_c_subset
<1>2. p \in Nat
  OBVIOUS
<1>3. \A m \in grid : m \in Int /\ m * candidates \in Int
  OBVIOUS
<1>4. \A m \in grid : m \in affordable <=> retention >= floor /\ (m * candidates) * 2 <= ceiling
  OBVIOUS
<1>5. affordable \subseteq grid
  OBVIOUS
<1> HIDE DEF p, affordable
<1>6. \A x \in Int : x * 2 <= ceiling <=> 200 * x <= p
  BY <1>2
<1>7. ASSUME affordable # {} PROVE s \in affordable /\ \A m \in affordable : m <= s
  <2>1. IsFiniteSet(affordable) /\ affordable \subseteq Int
    BY <1>5, FS_Subset
  <2>2. s = Max(affordable)
    BY <1>1, <1>7
  <2> QED BY <1>7, <2>1, <2>2, MaxIsGreatest
<1> HIDE DEF s
<1>8. ASSUME affordable # {} PROVE SubsetPaid(s, candidates, budget, retention, grid, percent, floor)
  <2>1. s \in grid /\ retention >= floor /\ (s * candidates) * 2 <= ceiling
    BY <1>4, <1>5, <1>7, <1>8
  <2> HIDE DEF ceiling
  <2>2. 200 * (s * candidates) <= p
    BY <1>3, <1>6, <2>1
  <2>3. ASSUME NEW m \in grid, m > s PROVE 200 * (m * candidates) > p
    <3>1. m \notin affordable
      <4>1. m \in Int /\ s \in Int
        BY <2>1
      <4> QED BY <1>7, <1>8, <2>3, <4>1
    <3>2. ~ ((m * candidates) * 2 <= ceiling)
      BY <1>4, <2>1, <3>1
    <3> DEFINE x == m * candidates
    <3>3. x \in Int
      BY <1>3
    <3> HIDE DEF x
    <3>4. ~ (x * 2 <= ceiling) => ~ (200 * x <= p)
      BY <1>6, <3>3
    <3>5. ~ (200 * x <= p) => 200 * x > p
      BY <1>2, <3>3
    <3> QED BY <3>2, <3>4, <3>5 DEF x
  <2> QED BY <2>1, <2>2, <2>3, Zenon DEF SubsetPaid, p
<1>9. ASSUME affordable = {} PROVE s = -1
  BY <1>1, <1>9
<1>10. SubsetPaid(s, candidates, budget, retention, grid, percent, floor)
  <2>1. CASE affordable = {}
    BY <1>9, <2>1, Zenon DEF SubsetPaid
  <2> QED BY <1>8, <2>1
<1> QED BY <1>10 DEF s

(* The atoms of document d that keep a partner at tolerance t, their share   *)
(* in 1200ths, and what run_calibration takes for the retention at t.        *)
KeptAt(tokens, d, t) == Cardinality(candidate_set(DOMAIN tokens[d], tokens[d], t))
ShareAt(tokens, t) ==
  [d \in DOMAIN tokens |-> (1200 * KeptAt(tokens, d, t)) \div Cardinality(DOMAIN tokens[d])]
RetentionAt(tokens, t) == SumFunction(ShareAt(tokens, t)) \div Len(tokens)
RetentionGrid(tokens, tolerances) == [t \in tolerances |-> RetentionAt(tokens, t)]
MedianKept(tokens, t) == Rounded(MedianTwice([d \in DOMAIN tokens |-> KeptAt(tokens, d, t)]))
ChosenTolerance(tolerance, fallback) == IF tolerance = -1 THEN fallback ELSE tolerance

CalibrationIs(r, tokens, tolerances, fallback, call_budget, sizes) ==
  LET retention == RetentionGrid(tokens, tolerances)
      chosen == ChosenTolerance(r.tolerance, fallback)
  IN  /\ r.tolerance = select_eviction_tolerance(retention, tolerances, 960)
      /\ r.candidates = MedianKept(tokens, chosen)
      /\ r.subset_size = select_experiment_c_subset(r.candidates, call_budget, retention[chosen],
                                                          sizes, 15, 960)

(* The tolerance, the candidates and the subset that run_calibration writes. *)
LEMMA CalibrationParts ==
  ASSUME NEW tokens, NEW budgets, NEW tolerances, NEW fallback, NEW call_budget, NEW sizes
  PROVE  CalibrationIs(run_calibration(tokens, budgets, tolerances, fallback, call_budget, sizes),
                       tokens, tolerances, fallback, call_budget, sizes)
<1> DEFINE retention == RetentionGrid(tokens, tolerances)
           tolerance == select_eviction_tolerance(retention, tolerances, 960)
           chosen == ChosenTolerance(tolerance, fallback)
           candidates == MedianKept(tokens, chosen)
           b_star == select_primary_budget([d \in DOMAIN tokens |-> SumFunction(tokens[d])], budgets)
           size == select_experiment_c_subset(candidates, call_budget, retention[chosen], sizes, 15, 960)
           r == run_calibration(tokens, budgets, tolerances, fallback, call_budget, sizes)
<1>1. r = [b_star |-> b_star, tolerance |-> tolerance, candidates |-> candidates, subset_size |-> size]
  BY Zenon DEF run_calibration, RetentionGrid, RetentionAt, ShareAt, KeptAt, MedianKept, ChosenTolerance
<1>2. r.tolerance = tolerance /\ r.candidates = candidates /\ r.subset_size = size
  <2> HIDE DEF r, tolerance, candidates, size, b_star
  <2> QED BY <1>1
<1> HIDE DEF r
<1>3. CalibrationIs(r, tokens, tolerances, fallback, call_budget, sizes)
  <2>1. ChosenTolerance(r.tolerance, fallback) = chosen
    BY <1>2
  <2> HIDE DEF retention, tolerance, chosen
  <2>2. r.tolerance = tolerance /\ r.candidates = MedianKept(tokens, chosen)
    BY <1>2
  <2>3. r.subset_size = select_experiment_c_subset(r.candidates, call_budget, retention[chosen], sizes, 15, 960)
    BY <1>2
  <2> QED BY <2>1, <2>2, <2>3, Zenon DEF CalibrationIs, retention, tolerance
<1> QED BY <1>3 DEF r

TokenTables(tokens, n) ==
  tokens \in Seq(UNION {[1 .. m -> Int] : m \in Nat \ {0}}) /\ Len(tokens) = n

(* What a calibration record may say.                                        *)
CalibrationSound(r, tokens, tolerances, allowance, sizes) ==
  /\ r.tolerance = -1 => r.subset_size = -1
  /\ r.tolerance # -1 => /\ r.tolerance \in tolerances
                         /\ SumOver(ShareAt(tokens, r.tolerance), DOMAIN tokens) >= 960 * Len(tokens)
  /\ r.candidates \in Nat
  /\ r.subset_size # -1 => /\ r.subset_size \in sizes
                           /\ 200 * (r.subset_size * r.candidates) <= allowance * 15

(* run_calibration (scripts/run_calibration.py): a calibration that finds no  *)
(* tolerance keeping four fifths of the atoms paired names no Experiment C   *)
(* subset, one that finds it keeps them, and the subset it names is within    *)
(* its share of the calls; for any documents, grids and budgets.              *)
THEOREM CalibrationIsSound ==
  ASSUME NEW n \in Nat, n # 0, NEW tokens, TokenTables(tokens, n),
         NEW tolerances, IsFiniteSet(tolerances), tolerances \subseteq Nat,
         NEW fallback \in tolerances, NEW allowance \in Nat,
         NEW sizes, IsFiniteSet(sizes), sizes \subseteq Int, NEW budgets
  PROVE  CalibrationSound(run_calibration(tokens, budgets, tolerances, fallback, allowance, sizes),
                          tokens, tolerances, allowance, sizes)
<1> DEFINE r == run_calibration(tokens, budgets, tolerances, fallback, allowance, sizes)
           retention == RetentionGrid(tokens, tolerances)
           good == {t \in tolerances \cap DOMAIN retention : retention[t] >= 960}
           chosen == ChosenTolerance(r.tolerance, fallback)
<1>1. CalibrationIs(r, tokens, tolerances, fallback, allowance, sizes)
  BY CalibrationParts
<1> HIDE DEF r
<1>2. DOMAIN tokens = 1 .. n /\ Len(tokens) = n /\ IsFiniteSet(1 .. n)
  BY FS_Interval DEF TokenTables
<1>3. ASSUME NEW d \in 1 .. n, NEW t
      PROVE  KeptAt(tokens, d, t) \in Nat /\ ShareAt(tokens, t)[d] \in Int
  <2>1. tokens[d] \in UNION {[1 .. m -> Int] : m \in Nat \ {0}}
    BY <1>2 DEF TokenTables
  <2>2. PICK m \in Nat \ {0} : DOMAIN tokens[d] = 1 .. m
    BY <2>1
  <2> DEFINE C == candidate_set(1 .. m, tokens[d], t)
             k == KeptAt(tokens, d, t)
  <2>3. C \subseteq 1 .. m
    BY DEF candidate_set
  <2>4. IsFiniteSet(1 .. m) /\ Cardinality(1 .. m) = m
    BY FS_Interval
  <2>5. k = Cardinality(C)
    BY <2>2 DEF KeptAt
  <2> HIDE DEF C, k
  <2>6. k \in Nat
    BY <2>3, <2>4, <2>5, FS_Subset, FS_CardinalityType
  <2>7. Cardinality(DOMAIN tokens[d]) = m
    BY <2>2, <2>4
  <2>8. ShareAt(tokens, t)[d] = (1200 * k) \div m
    BY <1>2, <2>7 DEF ShareAt, k
  <2> QED BY <2>6, <2>8 DEF k
<1>4. ASSUME NEW t PROVE /\ RetentionAt(tokens, t) = SumOver(ShareAt(tokens, t), 1 .. n) \div n
                         /\ SumOver(ShareAt(tokens, t), 1 .. n) \in Int
                         /\ RetentionAt(tokens, t) \in Int
  <2> DEFINE F == ShareAt(tokens, t)
  <2>1. DOMAIN F = 1 .. n
    BY <1>2 DEF ShareAt
  <2>2. \A d \in 1 .. n : F[d] \in Int
    BY <1>3
  <2>3. RetentionAt(tokens, t) = SumFunction(F) \div n
    BY <1>2 DEF RetentionAt
  <2> HIDE DEF F
  <2>4. SumFunction(F) = SumOver(F, 1 .. n)
    BY <2>1 DEF SumFunction, SumFunctionOnSet, FoldFunctionOnSet, MapThenFoldSet,
                SumOver, MapThenSumSet, MapThenFoldSet
  <2>5. SumOver(F, 1 .. n) \in Int
    BY <1>2, <2>2, SumIsInt
  <2> QED BY <2>3, <2>4, <2>5 DEF F
<1>5. /\ r.tolerance = select_eviction_tolerance(retention, tolerances, 960)
      /\ r.candidates = MedianKept(tokens, chosen)
      /\ r.subset_size = select_experiment_c_subset(r.candidates, allowance, retention[chosen], sizes, 15, 960)
  BY <1>1, Zenon DEF CalibrationIs
<1>6. r.tolerance = IF good = {} THEN -1 ELSE Min(good)
  BY <1>5, Zenon DEF select_eviction_tolerance
<1>7. \A t \in tolerances : /\ retention[t] = RetentionAt(tokens, t) /\ retention[t] \in Int
                            /\ t \in good <=> retention[t] >= 960
  BY <1>4 DEF RetentionGrid
<1>8. good \subseteq tolerances /\ IsFiniteSet(good) /\ \A t \in tolerances : t \in Nat
  <2>1. good \subseteq tolerances
    OBVIOUS
  <2> QED BY <2>1, FS_Subset
<1> HIDE DEF retention, good
<1>9. ASSUME good # {} PROVE r.tolerance \in good /\ r.tolerance # -1
  <2>1. IsFiniteSet(good) /\ good \subseteq Int
    BY <1>8
  <2>2. r.tolerance \in good
    BY <1>6, <1>9, <2>1, MinIsMember
  <2>3. r.tolerance \in Nat
    BY <1>8, <2>2
  <2> QED BY <2>2, <2>3
<1>10. ASSUME good = {} PROVE r.tolerance = -1 /\ chosen = fallback
  BY <1>6, <1>10 DEF ChosenTolerance
<1>11. chosen \in tolerances
  BY <1>8, <1>9, <1>10 DEF ChosenTolerance
<1>12. r.candidates \in Nat
  <2> DEFINE K == [d \in DOMAIN tokens |-> KeptAt(tokens, d, chosen)]
             m2 == MedianTwice(K)
  <2>1. K \in [1 .. n -> Nat]
    BY <1>2, <1>3
  <2> HIDE DEF K
  <2>2. m2 \in Nat
    BY <2>1, MedianIsNat
  <2> HIDE DEF m2
  <2>3. Rounded(m2) \in Nat
    BY <2>2 DEF Rounded
  <2> QED BY <1>5, <2>3 DEF K, m2, MedianKept
<1>13. SubsetPaid(r.subset_size, r.candidates, allowance, retention[chosen], sizes, 15, 960)
  <2>1. retention[chosen] \in Int
    BY <1>7, <1>11
  <2> DEFINE v == retention[chosen]
             c == r.candidates
             percent == 15
             floor == 960
  <2>2. v \in Int /\ c \in Nat /\ percent \in Nat /\ floor \in Int
    BY <1>12, <2>1
  <2>3. r.subset_size = select_experiment_c_subset(c, allowance, v, sizes, percent, floor)
    BY <1>5
  <2> HIDE DEF v, c, percent, floor
  <2>4. SubsetPaid(select_experiment_c_subset(c, allowance, v, sizes, percent, floor),
                   c, allowance, v, sizes, percent, floor)
    BY <2>2, SubsetIsPaid
  <2> QED BY <2>3, <2>4 DEF v, c, percent, floor
<1> HIDE DEF chosen
<1>14. r.tolerance = -1 => r.subset_size = -1
  <2> SUFFICES ASSUME r.tolerance = -1, r.subset_size # -1 PROVE FALSE
    OBVIOUS
  <2>1. good = {}
    BY <1>9
  <2>2. retention[fallback] >= 960
    BY <1>10, <1>13, <2>1 DEF SubsetPaid
  <2> QED BY <1>7, <2>1, <2>2
<1>15. ASSUME r.tolerance # -1
       PROVE  r.tolerance \in tolerances /\ SumOver(ShareAt(tokens, r.tolerance), DOMAIN tokens) >= 960 * Len(tokens)
  <2> DEFINE total == SumOver(ShareAt(tokens, r.tolerance), 1 .. n)
  <2>1. r.tolerance \in good
    BY <1>9, <1>10, <1>15
  <2>2. RetentionAt(tokens, r.tolerance) >= 960 /\ r.tolerance \in tolerances
    <3>1. r.tolerance \in tolerances
      BY <1>8, <2>1
    <3>2. retention[r.tolerance] >= 960 /\ retention[r.tolerance] = RetentionAt(tokens, r.tolerance)
      BY <1>7, <2>1, <3>1, Zenon
    <3> QED BY <3>1, <3>2
  <2>3. total \in Int /\ total \div n >= 960
    BY <1>4, <2>2
  <2> HIDE DEF total
  <2> DEFINE q == total \div n
  <2>4. n * q <= total /\ q \in Int
    BY <2>3
  <2> HIDE DEF q
  <2>5. 960 * n <= n * q
    <3>1. q >= 960
      BY <2>3 DEF q
    <3> QED BY <2>4, <3>1
  <2>6. total >= 960 * n
    <3> DEFINE x == n * q
               y == 960 * n
    <3>1. x <= total /\ y <= x /\ x \in Int /\ y \in Int /\ total \in Int
      BY <2>3, <2>4, <2>5
    <3> HIDE DEF x, y
    <3>2. total >= y
      BY <3>1
    <3> QED BY <3>2 DEF y
  <2> QED BY <1>2, <2>2, <2>6 DEF total
<1>16. CalibrationSound(r, tokens, tolerances, allowance, sizes)
  BY <1>12, <1>13, <1>14, <1>15 DEF CalibrationSound, SubsetPaid
<1> QED BY <1>16 DEF r

(* A summand of naturals is at most their sum.                               *)
LEMMA SummandAtMost ==
  ASSUME NEW S, IsFiniteSet(S), NEW F, \A x \in S : F[x] \in Nat, NEW e \in S
  PROVE  F[e] <= SumOver(F, S)
<1>1. \A x \in S : F[x] \in Int
  OBVIOUS
<1>2. SumOver(F, S) = F[e] + SumOver(F, S \ {e})
  BY <1>1, SumTakesOut
<1>3. IsFiniteSet(S \ {e})
  BY FS_Subset
<1>4. SumOver(F, S \ {e}) \in Nat
  BY <1>3, SumIsNat
<1> QED BY <1>2, <1>4

(* Every interaction is small against the effects.                           *)
InteractionsSmall(inter, deltas) ==
  \A i \in DOMAIN inter :
    inter[i] * 4 * Len(deltas) <= Len(inter) * SumOver([j \in DOMAIN deltas |-> Abs(deltas[j])], DOMAIN deltas)

(* interaction_diagnostic (causal/targeting.py): when additivity is said to  *)
(* be supported, every single interaction, and not only their mean, is at     *)
(* most a quarter of the mean effect times the number of interactions; for    *)
(* any vectors.                                                               *)
THEOREM AdditivityIsEarned ==
  ASSUME NEW n \in Nat, NEW with \in [1 .. n -> Int], NEW without \in [1 .. n -> Int],
         NEW m \in Nat, NEW deltas \in [1 .. m -> Int],
         additivity_supported(with, without, deltas)
  PROVE  InteractionsSmall([i \in 1 .. n |-> Abs(with[i] - without[i])], deltas)
<1> DEFINE F == [i \in DOMAIN with |-> Abs(with[i] - without[i])]
           G == [j \in DOMAIN deltas |-> Abs(deltas[j])]
           inter == SumOver(F, 1 .. n)
           base == SumOver(G, 1 .. m)
<1>1. DOMAIN F = 1 .. n /\ DOMAIN G = 1 .. m /\ Len(with) = n /\ Len(deltas) = m
  OBVIOUS
<1>3. 4 * SumFunction(F) * m <= SumFunction(G) * n
  BY <1>1 DEF additivity_supported
<1>4. \A i \in 1 .. n : F[i] \in Nat
  BY DEF Abs
<1>5. \A j \in 1 .. m : G[j] \in Nat
  BY DEF Abs
<1>6. \A i \in 1 .. n : F[i] = [k \in 1 .. n |-> Abs(with[k] - without[k])][i]
  BY <1>1
<1> HIDE DEF F, G
<1>7. SumFunction(F) = inter /\ SumFunction(G) = base
  BY <1>1 DEF SumFunction, SumFunctionOnSet, FoldFunctionOnSet, MapThenFoldSet,
              SumOver, MapThenSumSet, MapThenFoldSet
<1>8. IsFiniteSet(1 .. n) /\ IsFiniteSet(1 .. m)
  BY FS_Interval
<1>9. inter \in Nat /\ base \in Nat
  BY <1>4, <1>5, <1>8, SumIsNat
<1>10. ASSUME NEW i \in 1 .. n PROVE F[i] * 4 * m <= n * base
  <2>2. F[i] <= inter
    BY <1>4, <1>8, SummandAtMost
  <2>3. F[i] \in Nat
    BY <1>4
  <2> HIDE DEF inter, base
  <2> DEFINE f == F[i]
  <2>4. f <= inter /\ f \in Nat
    BY <1>9, <2>2, <2>3
  <2>5. 4 * inter * m <= base * n
    BY <1>3, <1>7 
  <2> HIDE DEF f
  <2>6. f * (4 * m) <= inter * (4 * m)
    BY <1>9, <2>4
  <2>7. 4 * inter * m = inter * (4 * m) /\ f * 4 * m = f * (4 * m) /\ base * n = n * base
    BY <1>9, <2>4
  <2> DEFINE x == f * (4 * m)
             y == inter * (4 * m)
             z == n * base
  <2>8. x \in Int /\ y \in Int /\ z \in Int
    BY <1>9, <2>4
  <2>9. x <= y /\ y <= z
    BY <2>5, <2>6, <2>7
  <2> HIDE DEF x, y, z
  <2>10. x <= z
    BY <2>8, <2>9
  <2> QED BY <2>7, <2>10 DEF x, z, f
<1> QED BY <1>1, <1>6, <1>10 DEF InteractionsSmall, G, F

-----------------------------------------------------------------------------
(* The calls about budgets.                                                  *)

(* The numbers from 1 to n.                                                  *)
LEMMA UpTo ==
  ASSUME NEW n \in Nat
  PROVE  IsFiniteSet(1 .. n) /\ 1 .. n \subseteq Int
BY FS_Interval

(* The atoms of the calls.                                                   *)
LEMMA UpToThree == IsFiniteSet(1 .. 3) /\ 1 .. 3 \subseteq Int
<1> DEFINE n == 3
<1>1. n \in Nat
  OBVIOUS
<1> HIDE DEF n
<1>2. IsFiniteSet(1 .. n) /\ 1 .. n \subseteq Int
  BY <1>1, UpTo
<1> QED BY <1>2 DEF n

(* The items of a call are a catalogue.                                      *)
LEMMA ItemsAreCatalogues ==
  ASSUME NEW c \in [1 .. 3 -> Nat], NEW u \in [1 .. 3 -> Int], NEW row, DOMAIN row = 1 .. 3,
         \A i \in 1 .. 3 : row[i].id = i /\ row[i].cost = c[i] /\ row[i].util = u[i]
  PROVE  Catalogue({row[i] : i \in 1 .. 3})
<1> DEFINE X == {row[i] : i \in 1 .. 3}
<1>1. IsFiniteSet(1 .. 3)
  BY UpToThree
<1>2. IsFiniteSet(X)
  BY <1>1, FiniteImage
<1>3. \A i \in 1 .. 3 : row[i].id \in Int /\ row[i].cost \in Nat /\ row[i].util \in Int
  OBVIOUS
<1> QED BY <1>2, <1>3 DEF Catalogue, Priced

(* A call of knapsack.                                                       *)
LEMMA KnapsackCalls ==
  ASSUME Knapsack
  PROVE  BestPurchase(call'.args.items, call'.args.budget, call'.ret)
<1>1. PICK items \in Items, b \in 0 .. 6 :
        Call("knapsack", [items |-> items, budget |-> b], knapsack(items, b))
  BY Zenon DEF Knapsack
<1>2. PICK c \in [1 .. 3 -> 1 .. 3], u \in [1 .. 3 -> 0 .. 2] :
        items = {[id |-> i, cost |-> c[i], util |-> u[i]] : i \in 1 .. 3}
  BY DEF Items
<1> DEFINE row == [i \in 1 .. 3 |-> [id |-> i, cost |-> c[i], util |-> u[i]]]
<1>3. \A i \in 1 .. 3 : row[i].id = i /\ row[i].cost = c[i] /\ row[i].util = u[i]
  OBVIOUS
<1>4. items = {row[i] : i \in 1 .. 3} /\ DOMAIN row = 1 .. 3
  BY <1>2
<1>5. c \in [1 .. 3 -> Nat] /\ u \in [1 .. 3 -> Int]
  OBVIOUS
<1> HIDE DEF row
<1>6. Catalogue({row[i] : i \in 1 .. 3})
  BY <1>3, <1>4, <1>5, ItemsAreCatalogues
<1>7. Catalogue(items) /\ b \in Nat
  BY <1>4, <1>6
<1>8. BestPurchase(items, b, knapsack(items, b))
  BY <1>7, KnapsackBuysBest
<1>9. call'.args.items = items /\ call'.args.budget = b /\ call'.ret = knapsack(items, b)
  BY <1>1 DEF Call
<1> QED BY <1>8, <1>9

(* A call of evaluate_targeting.                                             *)
LEMMA TargetCalls ==
  ASSUME Target
  PROVE  TargetingBounded(call'.args.records, call'.args.budget, 2, call'.ret)
<1> DEFINE draws == << <<1, 2, 3>>, <<3, 1, 2>> >>
<1>1. PICK records \in Records, b \in 1 .. 4 :
        Call("targeting", [records |-> records, budget |-> b], evaluate_targeting(records, b, draws))
  BY Zenon DEF Target
<1>2. PICK c \in [1 .. 3 -> 1 .. 2], u \in [1 .. 3 -> 0 .. 2], T \in SUBSET (1 .. 3) :
        records = {[id |-> i, cost |-> c[i], util |-> u[i], transmitted |-> i \in T] : i \in 1 .. 3}
  BY DEF Records
<1> DEFINE row == [i \in 1 .. 3 |-> [id |-> i, cost |-> c[i], util |-> u[i], transmitted |-> i \in T]]
<1>3. \A i \in 1 .. 3 : row[i].id = i /\ row[i].cost = c[i] /\ row[i].util = u[i]
  OBVIOUS
<1>4. records = {row[i] : i \in 1 .. 3} /\ DOMAIN row = 1 .. 3
  BY <1>2
<1>5. c \in [1 .. 3 -> Nat] /\ u \in [1 .. 3 -> Int]
  OBVIOUS
<1> HIDE DEF row
<1>6. Catalogue({row[i] : i \in 1 .. 3})
  BY <1>3, <1>4, <1>5, ItemsAreCatalogues
<1>7. Catalogue(records) /\ b \in Nat
  BY <1>4, <1>6
<1>8. {r.id : r \in records} = 1 .. 3
  BY <1>3, <1>4
<1>9. draws \in [1 .. 2 -> Seq(1 .. 3)]
  <2>1. <<1, 2, 3>> \in Seq(1 .. 3) /\ <<3, 1, 2>> \in Seq(1 .. 3)
    OBVIOUS
  <2>2. DOMAIN draws = 1 .. 2 /\ draws[1] = <<1, 2, 3>> /\ draws[2] = <<3, 1, 2>>
    OBVIOUS
  <2>3. draws = [i \in 1 .. 2 |-> draws[i]]
    BY <2>2
  <2>4. \A i \in 1 .. 2 : i = 1 \/ i = 2
    OBVIOUS
  <2> HIDE DEF draws
  <2>5. \A i \in 1 .. 2 : draws[i] \in Seq(1 .. 3)
    BY <2>1, <2>2, <2>4, Zenon
  <2> QED BY <2>3, <2>5, Zenon
<1> HIDE DEF draws
<1>10. draws \in [1 .. 2 -> Seq({r.id : r \in records})]
  BY <1>8, <1>9
<1>11. TargetingBounded(records, b, 2, evaluate_targeting(records, b, draws))
  <2> DEFINE n == 2
  <2>1. n \in Nat /\ draws \in [1 .. n -> Seq({r.id : r \in records})]
    BY <1>10
  <2> HIDE DEF n
  <2>2. TargetingBounded(records, b, n, evaluate_targeting(records, b, draws))
    BY <1>7, <2>1, TargetingIsBounded
  <2> QED BY <2>2 DEF n
<1>12. call'.args.records = records /\ call'.args.budget = b
       /\ call'.ret = evaluate_targeting(records, b, draws)
  BY <1>1 DEF Call
<1> QED BY <1>11, <1>12

MessageFits(budget, header, r) ==
  r.total_cost <= Max({budget, IF r.chosen_atom_ids = {} THEN header ELSE 0})

(* Max of two integers.                                                      *)
LEMMA RulesMaxOfTwo ==
  ASSUME NEW x \in Int, NEW y \in Int PROVE Max({x, y}) = IF y > x THEN y ELSE x
BY SameMax, MaxOfTwo

(* A call of allocate.                                                       *)
LEMMA AllocateCalls ==
  ASSUME Allocate
  PROVE  MessageFits(call'.args.budget, call'.args.header, call'.ret)
<1>1. PICK cost \in [1 .. 3 -> 1 .. 2], score \in [1 .. 3 -> -1 .. 1], b \in 0 .. 4, header \in 0 .. 1, joint \in 0 .. 1 :
        Call("allocate", [budget |-> b, header |-> header],
                   allocate(1 .. 3, cost, score, b, header, joint))
  BY Zenon DEF Allocate
<1> DEFINE atoms == 1 .. 3
           r == allocate(atoms, cost, score, b, header, joint)
<1>2. IsFiniteSet(atoms) /\ atoms \subseteq Int
  BY UpToThree
<1>3. (\A a \in atoms : cost[a] \in Nat) /\ \A a \in atoms : score[a] \in Int
  OBVIOUS
<1>4. b \in Nat /\ b \in Int /\ header \in Int /\ joint \in Int
  OBVIOUS
<1> HIDE DEF atoms
<1>5. /\ r.chosen_atom_ids \subseteq atoms
      /\ IF r.chosen_atom_ids = {} THEN r.total_cost = header ELSE r.total_cost <= b
  BY <1>2, <1>3, <1>4, AllocatedMessageFits
<1> HIDE DEF r
<1> DEFINE h == IF r.chosen_atom_ids = {} THEN header ELSE 0
<1>6. h \in Int /\ (r.chosen_atom_ids = {} => h = header) /\ (r.chosen_atom_ids # {} => h = 0)
  BY <1>4
<1> HIDE DEF h
<1>7. Max({b, h}) = IF h > b THEN h ELSE b
  BY <1>4, <1>6, RulesMaxOfTwo
<1>8. r.total_cost <= Max({b, h})
  <2>1. CASE r.chosen_atom_ids = {}
    BY <1>4, <1>5, <1>6, <1>7, <2>1
  <2>2. CASE r.chosen_atom_ids # {}
    <3>1. r.total_cost <= b
      BY <1>5, <2>2
    <3>2. Max({b, h}) = b
      BY <1>4, <1>6, <1>7, <2>2
    <3> QED BY <3>1, <3>2
  <2> QED BY <2>1, <2>2
<1>9. MessageFits(b, header, r)
  BY <1>8 DEF MessageFits, h
<1>10. call'.args.budget = b /\ call'.args.header = header /\ call'.ret = r
  BY <1>1 DEF Call, r, atoms
<1> QED BY <1>9, <1>10

(* A call of choose_eviction_partner.                                        *)
LEMMA EvictCalls ==
  ASSUME Evict
  PROVE  PartnerIsNearest(call'.args.focal, 1 .. 3, call'.args.tokens, call'.args.tolerance, call'.ret)
<1>1. PICK tokens \in [1 .. 3 -> 1 .. 4], tolerance \in 0 .. 2 :
        \E focal \in candidate_set(1 .. 3, tokens, tolerance) :
          Call("evict", [focal |-> focal, tokens |-> tokens, tolerance |-> tolerance],
                     choose_eviction_partner(focal, 1 .. 3, tokens, Roles3, tolerance))
  BY Zenon DEF Evict
<1>2. PICK focal \in candidate_set(1 .. 3, tokens, tolerance) :
          Call("evict", [focal |-> focal, tokens |-> tokens, tolerance |-> tolerance],
                     choose_eviction_partner(focal, 1 .. 3, tokens, Roles3, tolerance))
  BY <1>1
<1> DEFINE atoms == 1 .. 3
           p == choose_eviction_partner(focal, atoms, tokens, Roles3, tolerance)
<1>3. IsFiniteSet(atoms) /\ atoms \subseteq Int /\ \A a \in atoms : tokens[a] \in Int
  BY UpToThree
<1>4. tolerance \in Int /\ focal \in candidate_set(atoms, tokens, tolerance)
  OBVIOUS
<1> HIDE DEF atoms
<1>5. PartnerIsNearest(focal, atoms, tokens, tolerance, p)
  BY <1>3, <1>4, EvictionIsNearest
<1>6. /\ call'.args.focal = focal /\ call'.args.tokens = tokens /\ call'.args.tolerance = tolerance
      /\ call'.ret = p
  BY <1>2 DEF Call, atoms
<1> QED BY <1>5, <1>6 DEF atoms

BudgetBinds(costs, grid, r, now) ==
  /\ (\E b \in grid : binds(costs, b)) => binds(costs, r.b_star)
  /\ calibration_refused({r}, [receiver_id |-> "r", identity |-> now]) <=> now # "old"

(* A call of calibrate_receiver_budget, and the use of what it returns.      *)
LEMMA CalibrateCalls ==
  ASSUME Calibrate
  PROVE  BudgetBinds(call'.args.costs, BudgetGrid, call'.ret, call'.args.now)
<1> DEFINE contract == [receiver_id |-> "r", identity |-> "old"]
           r(costs) == calibrate_receiver_budget(costs, contract, BudgetGrid)
<1>1. PICK n \in 1 .. 3 : \E costs \in [1 .. n -> {2, 5, 9, 13, 17, 25}] : \E id \in {"old", "new"} :
        Call("calibrate", [costs |-> costs, now |-> id], r(costs))
  BY Zenon DEF Calibrate
<1>2. PICK costs \in [1 .. n -> {2, 5, 9, 13, 17, 25}], id \in {"old", "new"} :
        Call("calibrate", [costs |-> costs, now |-> id], r(costs))
  BY <1>1
<1> DEFINE grid == BudgetGrid
           b_star == select_primary_budget(costs, grid)
<1>3. /\ grid # {} /\ grid \subseteq Nat \ {0} /\ \A b, c \in grid : c < 3 * b
      /\ IsFiniteSet(grid)
  <2>1. grid \subseteq 1 .. 10
    BY DEF BudgetGrid
  <2>2. IsFiniteSet(1 .. 10)
    <3> DEFINE m == 10
    <3>1. m \in Nat
      OBVIOUS
    <3> HIDE DEF m
    <3>2. IsFiniteSet(1 .. m)
      BY <3>1, UpTo
    <3> QED BY <3>2 DEF m
  <2>3. IsFiniteSet(grid)
    <3> HIDE DEF grid
    <3> QED BY <2>1, <2>2, FS_Subset
  <2>4. grid # {} /\ grid \subseteq Nat \ {0} /\ \A b, c \in grid : c < 3 * b
    BY DEF BudgetGrid
  <2> QED BY <2>3, <2>4
<1>4. n \in Nat /\ n # 0 /\ costs \in [1 .. n -> Int]
  OBVIOUS
<1> HIDE DEF grid
<1>5. (\E b \in grid : binds(costs, b)) => binds(costs, b_star)
  BY <1>3, <1>4, PrimaryBudgetBinds
<1>6. r(costs) = [receiver_id |-> "r", identity |-> contract, b_star |-> b_star]
  BY Zenon DEF calibrate_receiver_budget, grid
<1> HIDE DEF b_star
<1> DEFINE s == [receiver_id |-> "r", identity |-> contract, b_star |-> b_star]
           now == [receiver_id |-> "r", identity |-> id]
<1>7. s.receiver_id = "r" /\ s.identity = contract /\ s.b_star = b_star /\ now.receiver_id = "r"
  OBVIOUS
<1>8. now = contract <=> id = "old"
  OBVIOUS
<1> HIDE DEF s, contract, now
<1>9. calibration_refused({s}, now) <=> id # "old"
  BY <1>7, <1>8 DEF calibration_refused
<1>10. BudgetBinds(costs, grid, s, id)
  BY <1>5, <1>7, <1>9 DEF BudgetBinds, now
<1>11. call'.args.costs = costs /\ call'.args.now = id /\ call'.ret = r(costs)
  BY <1>2 DEF Call
<1>12. call'.ret = s
  BY <1>6, <1>11 DEF s
<1> QED BY <1>10, <1>11, <1>12 DEF grid

SubsetFits(candidates, budget, n) == n # -1 => 8 * n * candidates <= budget

(* The same for numbers that no set of the caller's binds.                   *)
LEMMA SubsetPaidFor ==
  ASSUME NEW grid, IsFiniteSet(grid), grid \subseteq Int, NEW c \in Nat, NEW b \in Nat,
         NEW v \in Int, NEW percent \in Nat, NEW floor \in Int
  PROVE  SubsetPaid(select_experiment_c_subset(c, b, v, grid, percent, floor), c, b, v, grid, percent, floor)
BY SubsetIsPaid

(* A quarter of the budget for both arms is an eighth of it for one.         *)
LEMMA PaidFits ==
  ASSUME NEW n, NEW grid, grid \subseteq Int, NEW candidates \in Nat, NEW budget \in Nat,
         NEW v, NEW floor, NEW percent, percent = 25,
         SubsetPaid(n, candidates, budget, v, grid, percent, floor)
  PROVE  SubsetFits(candidates, budget, n)
<1> SUFFICES ASSUME n # -1 PROVE 8 * n * candidates <= budget
  BY DEF SubsetFits
<1>1. n \in grid /\ 200 * (n * candidates) <= budget * 25
  BY DEF SubsetPaid
<1> DEFINE x == n * candidates
<1>2. x \in Int /\ 200 * x <= budget * 25 /\ 8 * n * candidates = 8 * x
  BY <1>1
<1> HIDE DEF x
<1> QED BY <1>2

(* A call of select_experiment_c_subset.                                     *)
LEMMA ThinCalls ==
  ASSUME Thin
  PROVE  SubsetFits(call'.args.candidates, call'.args.budget, call'.ret)
<1>1. PICK candidates \in 0 .. 5, b \in {10, 40, 80}, retention \in {70, 90} :
        Call("subset", [candidates |-> candidates, budget |-> b],
                   select_experiment_c_subset(candidates, b, retention, {1, 2, 4}, 25, 80))
  BY Zenon DEF Thin
<1> DEFINE grid == {1, 2, 4}
           percent == 25
           floor == 80
           n == select_experiment_c_subset(candidates, b, retention, grid, percent, floor)
<1>2. /\ IsFiniteSet(grid) /\ grid \subseteq Int /\ percent \in Nat /\ floor \in Int
      /\ candidates \in Nat /\ b \in Nat /\ retention \in Int
  <2>1. grid \subseteq 1 .. 4 /\ grid \subseteq Int
    OBVIOUS
  <2>2. IsFiniteSet(1 .. 4)
    <3> DEFINE m == 4
    <3>1. m \in Nat
      OBVIOUS
    <3> HIDE DEF m
    <3>2. IsFiniteSet(1 .. m)
      BY <3>1, UpTo
    <3> QED BY <3>2 DEF m
  <2>3. IsFiniteSet(grid)
    <3> HIDE DEF grid
    <3> QED BY <2>1, <2>2, FS_Subset
  <2> QED BY <2>1, <2>3
<1> HIDE DEF grid, percent, floor
<1>3. percent = 25 /\ percent \in Nat
  BY <1>2 DEF percent
<1> DEFINE c == candidates
           v == retention
           budget == b
<1>4. c \in Nat /\ v \in Int /\ budget \in Nat
  BY <1>2
<1> HIDE DEF n, c, v, budget
<1>5. SubsetFits(c, budget, n)
  <2>1. SubsetPaid(select_experiment_c_subset(c, budget, v, grid, percent, floor),
                   c, budget, v, grid, percent, floor)
    BY <1>2, <1>4, SubsetPaidFor
  <2>2. n = select_experiment_c_subset(c, budget, v, grid, percent, floor)
    BY DEF n, c, v, budget
  <2>3. SubsetPaid(n, c, budget, v, grid, percent, floor)
    BY <2>1, <2>2
  <2> QED BY <1>2, <1>3, <1>4, <2>3, PaidFits
<1>6. call'.args.candidates = candidates /\ call'.args.budget = b /\ call'.ret = n
  BY <1>1 DEF Call, n, grid, percent, floor, c, v, budget
<1> QED BY <1>5, <1>6 DEF c, budget

InteractionsFit(inter, deltas) ==
  \A i \in 1 .. 2 : inter[i] * 4 * 3 <= 2 * SumFunction([j \in 1 .. 3 |-> Abs(deltas[j])])

(* A call of additivity_supported.                                           *)
LEMMA InteractCalls ==
  ASSUME Interact, call'.ret
  PROVE  InteractionsFit(call'.args.inter, call'.args.deltas)
<1>1. PICK with \in [1 .. 2 -> 0 .. 2], without \in [1 .. 2 -> 0 .. 2], deltas \in [1 .. 3 -> -1 .. 1] :
        Call("interaction", [inter |-> [i \in 1 .. 2 |-> Abs(with[i] - without[i])], deltas |-> deltas],
                   additivity_supported(with, without, deltas))
  BY Zenon DEF Interact
<1> DEFINE n == 2
           m == 3
           inter == [i \in 1 .. n |-> Abs(with[i] - without[i])]
           G == [j \in 1 .. 3 |-> Abs(deltas[j])]
<1>2. /\ call'.args.inter = inter /\ call'.args.deltas = deltas
      /\ call'.ret = additivity_supported(with, without, deltas)
  BY <1>1 DEF Call
<1>3. n \in Nat /\ m \in Nat /\ with \in [1 .. n -> Int] /\ without \in [1 .. n -> Int] /\ deltas \in [1 .. m -> Int]
  OBVIOUS
<1>4. Len(deltas) = 3 /\ DOMAIN deltas = 1 .. 3 /\ DOMAIN inter = 1 .. 2 /\ Len(inter) = 2
  OBVIOUS
<1>5. additivity_supported(with, without, deltas)
  BY <1>2
<1> HIDE DEF n, m
<1>6. InteractionsSmall([i \in 1 .. n |-> Abs(with[i] - without[i])], deltas)
  BY <1>3, <1>5, AdditivityIsEarned
<1> HIDE DEF inter
<1>7. \A i \in 1 .. 2 : inter[i] * 4 * 3 <= 2 * SumOver(G, 1 .. 3)
  BY <1>4, <1>6 DEF InteractionsSmall, inter
<1>8. DOMAIN G = 1 .. 3
  OBVIOUS
<1> DEFINE total == SumFunction(G)
<1>9. total = SumOver(G, 1 .. 3)
  <2> HIDE DEF G
  <2> QED BY <1>8 DEF SumFunction, SumFunctionOnSet, FoldFunctionOnSet, MapThenFoldSet,
                      SumOver, MapThenSumSet, MapThenFoldSet
<1>10. \A i \in 1 .. 2 : inter[i] * 4 * 3 <= 2 * total
  BY <1>7, <1>9
<1>11. InteractionsFit(inter, deltas)
  BY <1>10, Zenon DEF InteractionsFit
<1> QED BY <1>2, <1>11

(* The atoms of document d that another of its atoms is within t tokens of.  *)
Paired(tokens, d, t) ==
  {x \in 1 .. 3 : \E y \in 1 .. 3 \ {x} : Abs(tokens[d][x] - tokens[d][y]) <= t}

(* The atoms that keep a partner are the paired ones.                        *)
LEMMA KeptIsPaired ==
  ASSUME NEW tokens, NEW d, DOMAIN tokens[d] = 1 .. 3, NEW t
  PROVE  KeptAt(tokens, d, t) = Cardinality(Paired(tokens, d, t))
<1> DEFINE S == 1 .. 3
           f == tokens[d]
           C == candidate_set(S, f, t)
           P == {x \in S : \E y \in S \ {x} : Abs(f[x] - f[y]) <= t}
<1> HIDE DEF S, f
<1>1. \A x \in S : x \in C <=> \E y \in S \ {x} : Abs(f[x] - f[y]) <= t
  BY DEF candidate_set, feasible_partners, Gap
<1>2. C \subseteq S
  BY DEF candidate_set
<1> HIDE DEF C
<1>3. C = P
  BY <1>1, <1>2
<1> QED BY <1>3, Zenon DEF KeptAt, Paired, C, P, S, f

(* A document of three atoms, in 1200ths.                                    *)
LEMMA ShareOfThree ==
  ASSUME NEW tokens, NEW d \in DOMAIN tokens, DOMAIN tokens[d] = 1 .. 3, NEW t
  PROVE  /\ Cardinality(Paired(tokens, d, t)) \in Nat
         /\ ShareAt(tokens, t)[d] = 400 * Cardinality(Paired(tokens, d, t))
<1> DEFINE P == Paired(tokens, d, t)
           k == Cardinality(P)
<1>1. IsFiniteSet(1 .. 3) /\ Cardinality(1 .. 3) = 3
  <2> DEFINE n == 3
  <2>1. n \in Nat
    OBVIOUS
  <2> HIDE DEF n
  <2>2. IsFiniteSet(1 .. n) /\ Cardinality(1 .. n) = n
    BY <2>1, FS_Interval
  <2>3. Cardinality(1 .. n) = n
    BY <2>2
  <2> QED BY <2>2, <2>3 DEF n
<1>2. P \subseteq 1 .. 3
  BY DEF Paired
<1> HIDE DEF P
<1>3. k \in Nat
  <2>1. IsFiniteSet(P)
    BY <1>1, <1>2, FS_Subset
  <2> QED BY <2>1, FS_CardinalityType
<1>4. KeptAt(tokens, d, t) = k
  BY KeptIsPaired DEF P
<1> HIDE DEF k
<1>5. ShareAt(tokens, t)[d] = (1200 * k) \div 3
  BY <1>1, <1>4 DEF ShareAt
<1>6. (1200 * k) \div 3 = 400 * k
  BY <1>3
<1> QED BY <1>3, <1>5, <1>6 DEF P, k

Triples(tokens) == \A d \in DOMAIN tokens : DOMAIN tokens[d] = 1 .. 3

(* The same for every document of such atoms.                                *)
LEMMA SharesOfThree ==
  ASSUME NEW tokens, Triples(tokens), NEW t
  PROVE  \A d \in DOMAIN tokens : /\ Cardinality(Paired(tokens, d, t)) \in Nat
                                  /\ ShareAt(tokens, t)[d] = 400 * Cardinality(Paired(tokens, d, t))
<1> TAKE d \in DOMAIN tokens
<1>1. DOMAIN tokens[d] = 1 .. 3
  BY DEF Triples
<1> QED BY <1>1, ShareOfThree

(* A sum of two.                                                             *)
LEMMA SumOfTwo ==
  ASSUME NEW F, F[1] \in Int, F[2] \in Int
  PROVE  SumOver(F, 1 .. 2) = F[1] + F[2]
<1> DEFINE S == {1, 2}
           T == {2}
<1>1. 1 .. 2 = S /\ S \ {1} = T /\ T \ {2} = {}
  OBVIOUS
<1>2. IsFiniteSet(S) /\ IsFiniteSet(T)
  <2>1. IsFiniteSet({})
    BY FS_EmptySet
  <2>2. IsFiniteSet({} \cup {2})
    BY <2>1, FS_AddElement
  <2>3. {} \cup {2} = T
    OBVIOUS
  <2>4. IsFiniteSet(T \cup {1})
    BY <2>2, <2>3, FS_AddElement
  <2>5. T \cup {1} = S
    OBVIOUS
  <2> QED BY <2>2, <2>3, <2>4, <2>5
<1>3. (\A x \in S : F[x] \in Int) /\ (\A x \in T : F[x] \in Int) /\ 1 \in S /\ 2 \in T
  OBVIOUS
<1> DEFINE one == 1
           two == 2
<1>4. one \in S /\ two \in T /\ S \ {one} = T /\ T \ {two} = {}
      /\ F[one] \in Int /\ F[two] \in Int
  OBVIOUS
<1> HIDE DEF S, T, one, two
<1>5. SumOver(F, S) = F[one] + SumOver(F, S \ {one})
  BY <1>2, <1>3, <1>4, SumTakesOut
<1>6. SumOver(F, T) = F[two] + SumOver(F, T \ {two})
  BY <1>2, <1>3, <1>4, SumTakesOut
<1>7. SumOver(F, T \ {two}) = 0
  BY <1>4, SumOfNone
<1>8. SumOver(F, S \ {one}) = SumOver(F, T)
  BY <1>4
<1> DEFINE all == SumOver(F, S)
           rest == SumOver(F, T)
<1>9. all = F[one] + rest /\ rest = F[two] + 0
  BY <1>5, <1>6, <1>7, <1>8
<1> HIDE DEF all, rest
<1>10. all = F[one] + F[two]
  BY <1>4, <1>9
<1> QED BY <1>1, <1>10 DEF all, one, two

CalibrationFits(tokens, allowance, r) ==
  /\ (r.tolerance = -1 => r.subset_size = -1)
  /\ (r.tolerance # -1 =>
        5 * (Cardinality(Paired(tokens, 1, r.tolerance)) + Cardinality(Paired(tokens, 2, r.tolerance)))
          >= 4 * 6)
  /\ 200 * Max({0, r.subset_size}) * r.candidates <= 15 * allowance

(* A sound calibration of two documents of three atoms each.                 *)
LEMMA SoundFits ==
  ASSUME NEW tokens, DOMAIN tokens = 1 .. 2, Len(tokens) = 2, Triples(tokens),
         NEW tolerances, NEW allowance \in Nat, NEW sizes, sizes \subseteq Nat, NEW r,
         CalibrationSound(r, tokens, tolerances, allowance, sizes)
  PROVE  CalibrationFits(tokens, allowance, r)
<1> DEFINE t == r.tolerance
           k(d) == Cardinality(Paired(tokens, d, t))
           n == r.subset_size
           c == r.candidates
<1>1. ASSUME t # -1 PROVE 5 * (k(1) + k(2)) >= 4 * 6
  <2> DEFINE F == ShareAt(tokens, t)
             k1 == k(1)
             k2 == k(2)
  <2>1. SumOver(F, 1 .. 2) >= 960 * 2
    BY <1>1 DEF CalibrationSound
  <2>2. \A d \in DOMAIN tokens : k(d) \in Nat /\ F[d] = 400 * k(d)
    <3> HIDE DEF t
    <3> QED BY SharesOfThree
  <2>3. k1 \in Nat /\ F[1] = 400 * k1 /\ k2 \in Nat /\ F[2] = 400 * k2
    <3>1. 1 \in DOMAIN tokens /\ 2 \in DOMAIN tokens
      OBVIOUS
    <3> HIDE DEF F, k
    <3> QED BY <2>2, <3>1
  <2> HIDE DEF F, k1, k2
  <2>4. SumOver(F, 1 .. 2) = F[1] + F[2]
    BY <2>3, SumOfTwo
  <2>5. 5 * (k1 + k2) >= 4 * 6
    BY <2>1, <2>3, <2>4
  <2> QED BY <2>5 DEF k1, k2
<1>2. c \in Nat /\ (n # -1 => n \in Nat /\ 200 * (n * c) <= allowance * 15) /\ (t = -1 => n = -1)
  BY DEF CalibrationSound
<1> HIDE DEF n, c
<1> DEFINE most == Max({0, n})
<1>3. 200 * most * c <= 15 * allowance
  <2>1. most = IF n > 0 THEN n ELSE 0
    <3> DEFINE z == 0
    <3>1. z \in Int /\ n \in Int
      BY <1>2
    <3> HIDE DEF z
    <3>2. Max({z, n}) = IF n > z THEN n ELSE z
      BY <3>1, RulesMaxOfTwo
    <3> QED BY <3>2 DEF z
  <2> HIDE DEF most
  <2>2. CASE n > 0
    <3>1. n \in Nat /\ most = n /\ 200 * (n * c) <= allowance * 15
      BY <1>2, <2>1, <2>2
    <3>2. 200 * n * c = 200 * (n * c) /\ n * c \in Nat
      BY <1>2, <3>1
    <3> QED BY <3>1, <3>2
  <2>3. CASE ~ (n > 0)
    <3>1. most = 0
      BY <2>1, <2>3
    <3> QED BY <1>2, <3>1
  <2> QED BY <2>2, <2>3
<1> QED BY <1>1, <1>2, <1>3 DEF CalibrationFits, n, c

(* A table row is in the union of the rows of all lengths.                   *)
LEMMA TableRow ==
  ASSUME NEW size \in Nat, size # 0, NEW f \in [1 .. size -> Int]
  PROVE  f \in UNION {[1 .. m -> Int] : m \in Nat \ {0}}
OBVIOUS

(* A call of run_calibration.                                                *)
LEMMA CalibrationCalls ==
  ASSUME Calibration
  PROVE  CalibrationFits(call'.args.tokens, call'.args.calls, call'.ret)
<1>1. \E first, second \in [1 .. 3 -> {1, 2, 4}], allowance \in {40, 120} :
        Call("calibration", [tokens |-> <<first, second>>, calls |-> allowance],
                   run_calibration(<<first, second>>, BudgetGrid, 0 .. 2, 2, allowance, {1, 2, 4}))
  BY Zenon DEF Calibration
<1>2. PICK first \in [1 .. 3 -> {1, 2, 4}], second \in [1 .. 3 -> {1, 2, 4}], allowance \in {40, 120} :
        Call("calibration", [tokens |-> <<first, second>>, calls |-> allowance],
                   run_calibration(<<first, second>>, BudgetGrid, 0 .. 2, 2, allowance, {1, 2, 4}))
  BY <1>1
<1> DEFINE tokens == <<first, second>>
           n == 2
           budgets == BudgetGrid
           tolerances == 0 .. 2
           fallback == 2
           sizes == {1, 2, 4}
           k == allowance
           r == run_calibration(tokens, budgets, tolerances, fallback, k, sizes)
<1>9. /\ DOMAIN tokens = 1 .. 2 /\ Len(tokens) = 2 /\ DOMAIN tokens[1] = 1 .. 3 /\ DOMAIN tokens[2] = 1 .. 3
      /\ Triples(tokens)
  BY DEF Triples
<1>3. TokenTables(tokens, n)
  <2> DEFINE Tables == UNION {[1 .. m -> Int] : m \in Nat \ {0}}
  <2>1. first \in [1 .. 3 -> Int] /\ second \in [1 .. 3 -> Int] /\ 3 \in Nat \ {0}
    OBVIOUS
  <2>2. first \in Tables /\ second \in Tables
    <3> DEFINE m == 3
    <3>1. m \in Nat /\ m # 0 /\ first \in [1 .. m -> Int] /\ second \in [1 .. m -> Int]
      BY <2>1
    <3> HIDE DEF m
    <3> QED BY <3>1, TableRow
  <2> HIDE DEF Tables
  <2>3. tokens \in Seq(Tables) /\ Len(tokens) = 2
    BY <2>2
  <2> QED BY <2>3, Zenon DEF TokenTables, Tables, n
<1>4. n \in Nat /\ n # 0 /\ tolerances \subseteq Nat /\ fallback \in tolerances /\ k \in Nat
      /\ sizes \subseteq Nat /\ sizes \subseteq Int
  OBVIOUS
<1>5. IsFiniteSet(tolerances) /\ IsFiniteSet(sizes)
  <2> DEFINE m == 4
             z == 0
             two == 2
  <2>1. m \in Nat /\ z \in Int /\ two \in Int /\ sizes \subseteq 1 .. m /\ tolerances = z .. two
    OBVIOUS
  <2> HIDE DEF m, z, two, sizes, tolerances
  <2>2. IsFiniteSet(1 .. m)
    BY <2>1, UpTo
  <2>3. IsFiniteSet(z .. two)
    BY <2>1, FS_Interval
  <2> QED BY <2>1, <2>2, <2>3, FS_Subset, Zenon
<1>6. call'.args.tokens = tokens /\ call'.args.calls = k /\ call'.ret = r
  BY <1>2 DEF Call
<1> HIDE DEF tokens, n, budgets, tolerances, fallback, sizes, k, r
<1>7. CalibrationSound(r, tokens, tolerances, k, sizes)
  <2>1. CalibrationSound(run_calibration(tokens, budgets, tolerances, fallback, k, sizes),
                         tokens, tolerances, k, sizes)
    BY <1>3, <1>4, <1>5, CalibrationIsSound
  <2> QED BY <2>1 DEF r
<1>8. CalibrationFits(tokens, k, r)
  BY <1>9, <1>4, <1>7, SoundFits
<1> QED BY <1>6, <1>8

(* knapsack and evaluate_targeting (causal/targeting.py), allocate,          *)
(* choose_eviction_partner, calibrate_receiver_budget,                       *)
(* select_experiment_c_subset, run_calibration and additivity_supported: in  *)
(* every sequence of calls the oracle is optimal and nothing within the      *)
(* budget beats it, messages and subsets are paid for, an evicted atom goes  *)
(* to a nearest candidate, a calibrated budget binds whenever one of the     *)
(* grid does and only for its receiver, and a calibration without a          *)
(* tolerance names no subset.                                                *)
THEOREM BudgetsAreKept == Spec => []BudgetsAreOptimal
<1>1. Init => BudgetsAreOptimal
  BY DEF Init, Idle, BudgetsAreOptimal
<1>2. ASSUME BudgetsAreOptimal, [Next]_call PROVE BudgetsAreOptimal'
  <2>1. CASE UNCHANGED call
    BY <1>2, <2>1 DEF BudgetsAreOptimal
  <2>2. CASE Next
    <3> DEFINE a == call'.args
               r == call'.ret
    <3>1. call'.rule = "knapsack" => BestPurchase(a.items, a.budget, r)
      BY <2>2, RuleOfCall, KnapsackCalls
    <3>2. call'.rule = "targeting" => TargetingBounded(a.records, a.budget, 2, r)
      BY <2>2, RuleOfCall, TargetCalls
    <3>3. call'.rule = "allocate" => MessageFits(a.budget, a.header, r)
      BY <2>2, RuleOfCall, AllocateCalls
    <3>4. call'.rule = "evict" => PartnerIsNearest(a.focal, 1 .. 3, a.tokens, a.tolerance, r)
      BY <2>2, RuleOfCall, EvictCalls
    <3>5. call'.rule = "calibrate" => BudgetBinds(a.costs, BudgetGrid, r, a.now)
      BY <2>2, RuleOfCall, CalibrateCalls
    <3>6. call'.rule = "subset" => SubsetFits(a.candidates, a.budget, r)
      BY <2>2, RuleOfCall, ThinCalls
    <3>7. call'.rule = "calibration" => CalibrationFits(a.tokens, a.calls, r)
      BY <2>2, RuleOfCall, CalibrationCalls
    <3>8. call'.rule = "interaction" /\ r => InteractionsFit(a.inter, a.deltas)
      BY <2>2, RuleOfCall, InteractCalls
    <3> QED BY <3>1, <3>2, <3>3, <3>4, <3>5, <3>6, <3>7, <3>8, Zenon
            DEF BudgetsAreOptimal, BestPurchase, TargetingBounded, MessageFits, PartnerIsNearest,
                BudgetBinds, SubsetFits, CalibrationFits, Paired, InteractionsFit
  <2> QED BY <1>2, <2>1, <2>2
<1> QED BY <1>1, <1>2, PTL DEF Spec

-----------------------------------------------------------------------------
(* The agreement of two raters, and the calls on inventories.               *)

Ratings(x, l) == {i \in DOMAIN x : x[i] = l}
Labels(a, b) == {a[i] : i \in DOMAIN a} \cup {b[i] : i \in DOMAIN b}
Chance(a, b) == [l \in Labels(a, b) |-> Cardinality(Ratings(a, l)) * Cardinality(Ratings(b, l))]
Expected(a, b) == SumOver(Chance(a, b), Labels(a, b))
Agreeing(a, b) == Cardinality({i \in DOMAIN a : a[i] = b[i]})

(* Kappa in the terms of sums over sets.                                     *)
LEMMA KappaIs ==
  ASSUME NEW n \in Nat, NEW a, NEW b, DOMAIN a = 1 .. n, DOMAIN b = 1 .. n
  PROVE  Iv!cohen_kappa(a, b) =
           IF n = 0 THEN <<0, 0>>
           ELSE IF Expected(a, b) = n * n THEN <<1, 1>>
           ELSE <<Agreeing(a, b) * n - Expected(a, b), n * n - Expected(a, b)>>
<1> DEFINE Rated(x, l) == Iv!Cardinality({i \in DOMAIN x : x[i] = l})
           o == Iv!Cardinality({i \in DOMAIN a : a[i] = b[i]})
           L == Iv!ToSet(a) \cup Iv!ToSet(b)
           F == [l \in L |-> Rated(a, l) * Rated(b, l)]
           e == Iv!SumFunction(F)
           k == Iv!cohen_kappa(a, b)
<1>1. k = IF Len(a) # Len(b) \/ Len(a) = 0 THEN <<0, 0>>
          ELSE IF e = Len(a) * Len(a) THEN <<1, 1>>
          ELSE <<o * Len(a) - e, Len(a) * Len(a) - e>>
  BY Zenon DEF Iv!cohen_kappa
<1>2. Len(a) = n /\ Len(b) = n
  OBVIOUS
<1>3. o = Agreeing(a, b)
  BY Zenon DEF Agreeing, Iv!Cardinality, Cardinality
<1>4. L = Labels(a, b)
  BY Zenon DEF Labels, Iv!ToSet
<1>5. \A x, l : Rated(x, l) = Cardinality(Ratings(x, l))
  BY Zenon DEF Ratings, Iv!Cardinality, Cardinality
<1> HIDE DEF Rated, L
<1>6. F = Chance(a, b)
  BY <1>4, <1>5 DEF Chance
<1>7. DOMAIN F = Labels(a, b)
  BY <1>4
<1> HIDE DEF F
<1>8. e = SumOver(F, DOMAIN F)
  BY DEF Iv!SumFunction, Iv!SumFunctionOnSet, Iv!FoldFunctionOnSet, Iv!MapThenFoldSet, SumOver, MapThenSumSet, MapThenFoldSet
<1> HIDE DEF e, o
<1>9. e = Expected(a, b)
  BY <1>6, <1>7, <1>8 DEF Expected
<1> HIDE DEF k
<1>10. k = IF n = 0 THEN <<0, 0>>
           ELSE IF Expected(a, b) = n * n THEN <<1, 1>>
           ELSE <<Agreeing(a, b) * n - Expected(a, b), n * n - Expected(a, b)>>
  BY <1>1, <1>2, <1>3, <1>9, Zenon
<1> QED BY <1>10 DEF k

(* Naturals that sum to zero are zeros.                                      *)
LEMMA SumOfNothing ==
  ASSUME NEW S, IsFiniteSet(S), NEW F, \A x \in S : F[x] \in Nat, SumOver(F, S) = 0, NEW e \in S
  PROVE  F[e] = 0
<1> DEFINE U == S \ {e}
<1>1. SumOver(F, S) = F[e] + SumOver(F, U)
  BY SumTakesOut
<1>2. IsFiniteSet(U) /\ \A x \in U : F[x] \in Nat
  BY FS_Subset
<1> HIDE DEF U
<1>3. SumOver(F, U) \in Nat
  BY <1>2, SumIsNat
<1> QED BY <1>1, <1>3

LEMMA ZeroProduct ==
  ASSUME NEW p \in Int, NEW q \in Int, NEW n \in Int, p * (n - q) = 0, p # 0
  PROVE  q = n
OBVIOUS

(* Where chance alone would agree on everything, everybody has one answer.    *)
LEMMA CertainChance ==
  ASSUME NEW n \in Nat, NEW a, NEW b, DOMAIN a = 1 .. n, DOMAIN b = 1 .. n
  PROVE  /\ Expected(a, b) \in Int
         /\ Expected(a, b) = n * n => \A i, j \in 1 .. n : a[i] = b[j]
<1> DEFINE L == Labels(a, b)
           ra == [l \in L |-> Cardinality(Ratings(a, l))]
           F == Chance(a, b)
           G == [l \in L |-> ra[l] * (n - Cardinality(Ratings(b, l)))]
           H == [l \in L |-> ra[l] * n]
<1>1. IsFiniteSet(1 .. n) /\ Cardinality(1 .. n) = n
  BY FS_Interval
<1>2. IsFiniteSet(L)
  <2>1. IsFiniteSet({a[i] : i \in 1 .. n}) /\ IsFiniteSet({b[i] : i \in 1 .. n})
    BY <1>1, FiniteImage
  <2> QED BY <2>1, FS_Union DEF Labels
<1>3. ASSUME NEW x \in {a, b}, NEW l
      PROVE  Cardinality(Ratings(x, l)) \in 0 .. n /\ IsFiniteSet(Ratings(x, l))
  <2>1. Ratings(x, l) \in SUBSET (1 .. n)
    BY DEF Ratings
  <2>2. IsFiniteSet(Ratings(x, l)) /\ Cardinality(Ratings(x, l)) <= n
    BY <1>1, <2>1, FS_Subset
  <2> QED BY <2>2, FS_CardinalityType
<1> DEFINE ca(l) == Cardinality(Ratings(a, l))
           cb(l) == Cardinality(Ratings(b, l))
<1>4. \A l : ca(l) \in 0 .. n /\ cb(l) \in 0 .. n
  BY <1>3
<1>5. \A l \in L : /\ F[l] = ca(l) * cb(l) /\ G[l] = ca(l) * (n - cb(l)) /\ H[l] = ca(l) * n
                   /\ ra[l] = ca(l)
  BY DEF Chance
<1>6. \A i \in 1 .. n : a[i] \in L /\ b[i] \in L
  BY DEF Labels
<1>7. SumOver(ra, L) = n
  <2>1. Counts(ra, L, 1 .. n, a)
    <3>1. \A l \in L : ra[l] = Cardinality({i \in 1 .. n : a[i] = l})
      BY DEF Ratings
    <3> HIDE DEF ra, L
    <3> QED BY <1>6, <3>1 DEF Counts
  <2> HIDE DEF ra, L
  <2>2. SumOver(ra, L) = Cardinality(1 .. n)
    BY <1>1, <1>2, <2>1, CountByClass
  <2> QED BY <1>1, <2>2
<1> HIDE DEF L, ra, F, G, H, ca, cb
<1>8. \A l \in L : F[l] \in Int /\ G[l] \in Nat /\ H[l] = F[l] + G[l] /\ H[l] \in Int
  <2>1. ASSUME NEW l \in L PROVE F[l] \in Int /\ G[l] \in Nat /\ H[l] = F[l] + G[l] /\ H[l] \in Int
    <3>1. ca(l) \in Nat /\ cb(l) \in Nat /\ cb(l) <= n /\ n - cb(l) \in Nat
      BY <1>4
    <3>2. ca(l) * cb(l) + ca(l) * (n - cb(l)) = ca(l) * n
      BY <3>1
    <3>3. ca(l) * cb(l) \in Int /\ ca(l) * (n - cb(l)) \in Nat /\ ca(l) * n \in Int
      BY <3>1
    <3> QED BY <1>5, <3>2, <3>3
  <2> QED BY <2>1
<1>9. SumOver(F, L) \in Int /\ SumOver(G, L) \in Int
  BY <1>2, <1>8, SumIsInt
<1>10. SumOver(H, L) = SumOver(F, L) + SumOver(G, L)
  BY <1>2, <1>8, SumOfSums
<1>11. SumOver(H, L) = n * n
  <2>1. \A l \in L : ra[l] \in Int /\ H[l] = ra[l] * n
    BY <1>4, <1>5
  <2>2. SumOver(H, L) = SumOver(ra, L) * n
    BY <1>2, <2>1, SumScales
  <2> QED BY <1>7, <2>2
<1>12. ASSUME SumOver(F, L) = n * n, NEW i \in 1 .. n, NEW j \in 1 .. n PROVE a[i] = b[j]
  <2>1. SumOver(G, L) = 0
    BY <1>9, <1>10, <1>11, <1>12
  <2>2. G[a[i]] = 0
    BY <1>2, <1>6, <1>8, <2>1, SumOfNothing
  <2>3. ca(a[i]) * (n - cb(a[i])) = 0
    BY <1>5, <1>6, <2>2
  <2>4. i \in Ratings(a, a[i])
    BY DEF Ratings
  <2>5. ca(a[i]) # 0
    BY <1>3, <2>4, FS_EmptySet DEF ca
  <2>6. cb(a[i]) = n
    <3>1. ca(a[i]) \in Int /\ cb(a[i]) \in Int
      BY <1>4
    <3> QED BY <2>3, <2>5, <3>1, ZeroProduct
  <2>7. Ratings(b, a[i]) \in SUBSET (1 .. n)
    BY DEF Ratings
  <2>8. Ratings(b, a[i]) = 1 .. n
    BY <1>1, <2>6, <2>7, FS_Subset DEF cb
  <2> QED BY <2>8 DEF Ratings
<1>13. Expected(a, b) = SumOver(F, L)
  BY DEF Expected, F, L
<1> QED BY <1>9, <1>12, <1>13

KappaIsSound(a, b, k, l) ==
  k[2] # 0 => k[1] <= k[2] /\ (k[1] = k[2] <=> a = b) /\ SameNumber(k, l)

(* cohen_kappa (atomizer/verify.py): never above 1, 1 for agreement on every *)
(* item alone, and the same whichever rater comes first; for raters of any   *)
(* number of items and labels.                                               *)
THEOREM KappaIsAgreement ==
  ASSUME NEW n \in Nat, NEW A, NEW a \in [1 .. n -> A], NEW b \in [1 .. n -> A]
  PROVE  KappaIsSound(a, b, Iv!cohen_kappa(a, b), Iv!cohen_kappa(b, a))
<1> DEFINE e == Expected(a, b)
           o == Agreeing(a, b)
           k == Iv!cohen_kappa(a, b)
           l == Iv!cohen_kappa(b, a)
           Same == {i \in 1 .. n : a[i] = b[i]}
<1>1. DOMAIN a = 1 .. n /\ DOMAIN b = 1 .. n
  OBVIOUS
<1>2. e \in Int /\ (e = n * n => \A i, j \in 1 .. n : a[i] = b[j])
  BY <1>1, CertainChance
<1>3. k = IF n = 0 THEN <<0, 0>> ELSE IF e = n * n THEN <<1, 1>> ELSE <<o * n - e, n * n - e>>
  BY <1>1, KappaIs
<1>4. Expected(b, a) = e /\ Agreeing(b, a) = o
  <2>1. Labels(a, b) = Labels(b, a)
    BY DEF Labels
  <2>2. \A x \in Labels(a, b) : Chance(a, b)[x] = Chance(b, a)[x]
    <3>1. ASSUME NEW x \in Labels(a, b) PROVE Chance(a, b)[x] = Chance(b, a)[x]
      <4> DEFINE p == Cardinality(Ratings(a, x))
                 q == Cardinality(Ratings(b, x))
      <4>1. Chance(a, b)[x] = p * q /\ Chance(b, a)[x] = q * p
        BY <2>1 DEF Chance
      <4>2. IsFiniteSet(1 .. n) /\ Ratings(a, x) \in SUBSET (1 .. n) /\ Ratings(b, x) \in SUBSET (1 .. n)
        BY <1>1, FS_Interval DEF Ratings
      <4>3. p \in Nat /\ q \in Nat
        BY <4>2, FS_Subset, FS_CardinalityType
      <4> HIDE DEF p, q
      <4> QED BY <4>1, <4>3
    <3> QED BY <3>1
  <2>3. IsFiniteSet(Labels(a, b))
    <3>1. IsFiniteSet(1 .. n)
      BY FS_Interval
    <3>2. IsFiniteSet({a[i] : i \in 1 .. n}) /\ IsFiniteSet({b[i] : i \in 1 .. n})
      BY <3>1, FiniteImage
    <3> QED BY <1>1, <3>2, FS_Union DEF Labels
  <2>4. Expected(b, a) = e
    BY <2>1, <2>2, <2>3, SumCongruence DEF Expected
  <2>5. {i \in DOMAIN b : b[i] = a[i]} = {i \in DOMAIN a : a[i] = b[i]}
    BY <1>1
  <2> QED BY <2>4, <2>5, Zenon DEF Agreeing
<1>5. l = IF n = 0 THEN <<0, 0>> ELSE IF e = n * n THEN <<1, 1>> ELSE <<o * n - e, n * n - e>>
  BY <1>1, <1>4, KappaIs
<1>6. o \in Nat /\ o <= n /\ (o = n <=> a = b)
  <2>1. IsFiniteSet(1 .. n) /\ Cardinality(1 .. n) = n /\ Same \in SUBSET (1 .. n)
    BY FS_Interval
  <2>2. o = Cardinality(Same)
    BY <1>1 DEF Agreeing
  <2> HIDE DEF Same
  <2>3. o \in Nat /\ o <= n /\ (o = n => 1 .. n = Same)
    BY <2>1, <2>2, FS_Subset, FS_CardinalityType
  <2>4. 1 .. n = Same <=> a = b
    BY DEF Same
  <2> QED BY <2>1, <2>2, <2>3, <2>4
<1> HIDE DEF e, o, k, l
<1>7. ASSUME n = 0 PROVE KappaIsSound(a, b, k, l)
  BY <1>3, <1>7 DEF KappaIsSound
<1>8. ASSUME n # 0, e = n * n PROVE KappaIsSound(a, b, k, l)
  <2>1. k = <<1, 1>> /\ l = <<1, 1>>
    BY <1>3, <1>5, <1>8
  <2>2. a = b
    BY <1>2, <1>8
  <2> QED BY <2>1, <2>2 DEF KappaIsSound, SameNumber
<1>9. ASSUME n # 0, e # n * n PROVE KappaIsSound(a, b, k, l)
  <2> DEFINE p == o * n - e
             q == n * n - e
  <2>1. k = <<p, q>> /\ l = <<p, q>>
    BY <1>3, <1>5, <1>9
  <2>2. p \in Int /\ q \in Int /\ p <= q /\ (p = q <=> o = n)
    <3>1. o * n \in Int /\ n * n \in Int /\ o * n <= n * n /\ (o * n = n * n <=> o = n)
      BY <1>6, <1>9
    <3> QED BY <1>2, <3>1
  <2> HIDE DEF p, q
  <2>3. k[1] = p /\ k[2] = q /\ l[1] = p /\ l[2] = q /\ p * q = p * q
    BY <2>1
  <2> QED BY <1>6, <2>2, <2>3 DEF KappaIsSound, SameNumber
<1>10. KappaIsSound(a, b, k, l)
  BY <1>7, <1>8, <1>9
<1> QED BY <1>10 DEF k, l

-----------------------------------------------------------------------------
(* The calls about atoms.                                                    *)

LEMMA MatchFields ==
  \A role, start, stop, slug, mark :
    /\ Match(role, start, stop, slug, mark).role = role
    /\ Match(role, start, stop, slug, mark).start = start
    /\ Match(role, start, stop, slug, mark).stop = stop
BY DEF Match

LEMMA RolesAre == \A r \in {"entity", "scope", "period", "numeric", "provenance"} : r \in Roles
<1>1. \A i \in 1 .. 5 : Iv!ROLE_ORDER[i] \in Roles
  BY DEF Roles, Iv!ROLE_ORDER
<1>2. /\ Iv!ROLE_ORDER[1] = "entity" /\ Iv!ROLE_ORDER[2] = "scope" /\ Iv!ROLE_ORDER[3] = "period"
      /\ Iv!ROLE_ORDER[4] = "numeric" /\ Iv!ROLE_ORDER[5] = "provenance"
  BY DEF Iv!ROLE_ORDER
<1> QED BY <1>1, <1>2

(* The matches that are tried differ in more than their value.               *)
LEMMA MatchesAre ==
  ASSUME NEW cands \in SUBSET Matches
  PROVE  AreMatches(cands) /\ \A c \in cands : c.start < c.stop
<1> DEFINE m0 == Match("entity", 0, 5, "acme", "")
           m1 == Match("scope", 0, 2, "global", "")
           m2 == Match("numeric", 6, 8, "12-5", "%")
           m3 == Match("numeric", 9, 12, "12-5", "$")
           m4 == Match("scope", 10, 13, "eu", "")
           m5 == Match("period", 12, 18, "fy2023q3", "")
           m6 == Match("period", 15, 18, "fy2023", "")
           m7 == Match("provenance", 18, 20, "note-4", "")
           m8 == Match("numeric", 20, 22, "12-5", "%")
           m9 == Match("scope", 23, 25, "acme", "")
<1>1. cands \subseteq {m0, m1, m2, m3, m4, m5, m6, m7, m8, m9}
  BY Zenon DEF Matches
<1>2. /\ m0.start = 0 /\ m0.stop = 5 /\ m0.role = "entity"
      /\ m1.start = 0 /\ m1.stop = 2 /\ m1.role = "scope"
      /\ m2.start = 6 /\ m2.stop = 8 /\ m2.role = "numeric"
      /\ m3.start = 9 /\ m3.stop = 12 /\ m3.role = "numeric"
      /\ m4.start = 10 /\ m4.stop = 13 /\ m4.role = "scope"
      /\ m5.start = 12 /\ m5.stop = 18 /\ m5.role = "period"
      /\ m6.start = 15 /\ m6.stop = 18 /\ m6.role = "period"
      /\ m7.start = 18 /\ m7.stop = 20 /\ m7.role = "provenance"
      /\ m8.start = 20 /\ m8.stop = 22 /\ m8.role = "numeric"
      /\ m9.start = 23 /\ m9.stop = 25 /\ m9.role = "scope"
  <2>0. m0.start = 0 /\ m0.stop = 5 /\ m0.role = "entity" BY DEF Match
  <2>1. m1.start = 0 /\ m1.stop = 2 /\ m1.role = "scope" BY DEF Match
  <2>2. m2.start = 6 /\ m2.stop = 8 /\ m2.role = "numeric" BY DEF Match
  <2>3. m3.start = 9 /\ m3.stop = 12 /\ m3.role = "numeric" BY DEF Match
  <2>4. m4.start = 10 /\ m4.stop = 13 /\ m4.role = "scope" BY DEF Match
  <2>5. m5.start = 12 /\ m5.stop = 18 /\ m5.role = "period" BY DEF Match
  <2>6. m6.start = 15 /\ m6.stop = 18 /\ m6.role = "period" BY DEF Match
  <2>7. m7.start = 18 /\ m7.stop = 20 /\ m7.role = "provenance" BY DEF Match
  <2>8. m8.start = 20 /\ m8.stop = 22 /\ m8.role = "numeric" BY DEF Match
  <2>9. m9.start = 23 /\ m9.stop = 25 /\ m9.role = "scope" BY DEF Match
  <2> QED BY <2>0, <2>1, <2>2, <2>3, <2>4, <2>5, <2>6, <2>7, <2>8, <2>9, Zenon
<1> HIDE DEF m0, m1, m2, m3, m4, m5, m6, m7, m8, m9
<1>3. IsFiniteSet({m0, m1, m2, m3, m4, m5, m6, m7, m8, m9})
  <2>1. IsFiniteSet({m0}) /\ IsFiniteSet({m1}) /\ IsFiniteSet({m2}) /\ IsFiniteSet({m3}) /\ IsFiniteSet({m4})
        /\ IsFiniteSet({m5}) /\ IsFiniteSet({m6}) /\ IsFiniteSet({m7}) /\ IsFiniteSet({m8}) /\ IsFiniteSet({m9})
    BY FS_Singleton
  <2> DEFINE A == {m0} \cup {m1} \cup {m2} \cup {m3} \cup {m4}
             B == {m5} \cup {m6} \cup {m7} \cup {m8} \cup {m9}
  <2>2. IsFiniteSet({m0} \cup {m1}) BY <2>1, FS_Union
  <2>3. IsFiniteSet({m0} \cup {m1} \cup {m2}) BY <2>1, <2>2, FS_Union
  <2>4. IsFiniteSet({m0} \cup {m1} \cup {m2} \cup {m3}) BY <2>1, <2>3, FS_Union
  <2>5. IsFiniteSet(A) BY <2>1, <2>4, FS_Union
  <2>6. IsFiniteSet({m5} \cup {m6}) BY <2>1, FS_Union
  <2>7. IsFiniteSet({m5} \cup {m6} \cup {m7}) BY <2>1, <2>6, FS_Union
  <2>8. IsFiniteSet({m5} \cup {m6} \cup {m7} \cup {m8}) BY <2>1, <2>7, FS_Union
  <2>9. IsFiniteSet(B) BY <2>1, <2>8, FS_Union
  <2>10. IsFiniteSet(A \cup B) BY <2>5, <2>9, FS_Union
  <2>11. A \cup B = {m0, m1, m2, m3, m4, m5, m6, m7, m8, m9}
    OBVIOUS
  <2> QED BY <2>10, <2>11
<1>4. IsFiniteSet(cands)
  BY <1>1, <1>3, FS_Subset
<1>5. \A c \in cands : c.start \in Int /\ c.stop \in Int /\ c.start < c.stop
  BY <1>1, <1>2
<1>6. \A c \in cands : c.role \in Roles
  BY <1>1, <1>2, RolesAre
<1>7. ASSUME NEW c \in cands, NEW d \in cands, c.start = d.start, c.stop = d.stop PROVE c = d
  BY <1>1, <1>2, <1>7
<1> QED BY <1>4, <1>5, <1>6, <1>7 DEF AreMatches

LEMMA MergedIsAtom ==
  ASSUME NEW g
  PROVE  IsAtom(Iv!Merged(g))
<1>1. \A id, role, value, start, stop, count, spans, v :
        IsAtom([id |-> id, role |-> role, value |-> value, start |-> start, stop |-> stop,
                occurrence_count |-> count, spans |-> spans, verification |-> v])
  BY DEF IsAtom
<1> QED BY <1>1, Zenon DEF Iv!Merged

Filtered(report, atoms) ==
  /\ FreeOfTwins(Members(report.eligible))
  /\ Len(report.eligible) + Len(report.excluded) = Len(atoms)

(* atomize and filter_eligible (atomizer/rules.py, atomizer/verify.py): each *)
(* match kept by the overlap resolution lies in exactly one atom, the        *)
(* occurrence counts of the atoms add up to the matches kept, no two         *)
(* eligible atoms have one value, and no atom is lost between the eligible   *)
(* and the excluded; for any finite set of matches.                          *)
THEOREM EverySpanCounted ==
  ASSUME NEW cands, AreMatches(cands), \A c \in cands : c.start < c.stop, NEW frame, NEW required
  PROVE  LET atoms == Iv!atomize(cands)
         IN  /\ Resolved(Iv!resolve_overlaps(cands), cands)
             /\ CountedOnce(Iv!resolve_overlaps(cands), atoms)
             /\ Filtered(Iv!filter_eligible(atoms, frame, required), atoms)
<1> DEFINE kept == Iv!resolve_overlaps(cands)
           atoms == Iv!atomize(cands)
           report == Iv!filter_eligible(atoms, frame, required)
<1>1. Resolved(kept, cands)
  BY OverlapsResolved
<1>2. Proper(kept)
  <2> HIDE DEF kept
  <2>1. IsFiniteSet(cands) /\ kept \in SUBSET cands
    BY <1>1 DEF AreMatches, Resolved
  <2>2. IsFiniteSet(kept)
    BY <2>1, FS_Subset
  <2> QED BY <1>1, <2>1, <2>2 DEF AreMatches, Resolved, Proper
<1>3. PICK n, place : Atomized(atoms, n, kept, place)
  BY <1>2, AtomsOfKept
<1> HIDE DEF kept, atoms
<1>4. CountedOnce(kept, atoms)
  BY <1>2, <1>3, AtomsCount
<1>5. FreeOfTwins(Members(report.eligible))
  BY <1>2, <1>3, TwinsConflict
<1>6. n \in Nat /\ DOMAIN atoms = 1 .. n
  BY <1>3 DEF Atomized
<1>7. Len(report.eligible) + Len(report.excluded) = Len(atoms)
  <2> DEFINE I == Admitted(atoms, frame, required)
  <2>1. ReportOf(report, atoms, I)
    BY <1>6, ReportIs
  <2> HIDE DEF report, I
  <2>2. Len(report.eligible) + Len(report.excluded) = Cardinality(1 .. n)
    BY <1>6, <2>1 DEF ReportOf
  <2>3. Cardinality(1 .. n) = n
    BY <1>6, FS_Interval
  <2>4. Len(atoms) = n
    BY <1>6
  <2> QED BY <2>2, <2>3, <2>4
<1>8. Filtered(report, atoms)
  <2> HIDE DEF report
  <2> QED BY <1>5, <1>7 DEF Filtered
<1> QED BY <1>1, <1>4, <1>8 DEF kept, atoms

(* Every atom of a document is written as it comes out of the merge.         *)
LEMMA AtomsAreFresh ==
  ASSUME NEW cands, AreMatches(cands), \A c \in cands : c.start < c.stop
  PROVE  \E n \in Nat : /\ DOMAIN Iv!atomize(cands) = 1 .. n
                        /\ \A i \in 1 .. n : /\ IsAtom(Iv!atomize(cands)[i])
                                             /\ Iv!atomize(cands)[i].verification = "unverified"
<1> DEFINE kept == Iv!resolve_overlaps(cands)
           atoms == Iv!atomize(cands)
<1>1. Resolved(kept, cands)
  BY OverlapsResolved
<1>2. Proper(kept)
  <2> HIDE DEF kept
  <2>1. IsFiniteSet(cands) /\ kept \in SUBSET cands
    BY <1>1 DEF AreMatches, Resolved
  <2>2. IsFiniteSet(kept)
    BY <2>1, FS_Subset
  <2> QED BY <1>1, <2>1, <2>2 DEF AreMatches, Resolved, Proper
<1>3. PICK n, place : Atomized(atoms, n, kept, place)
  BY <1>2, AtomsOfKept
<1> HIDE DEF kept, atoms
<1>4. /\ n \in Nat /\ DOMAIN atoms = 1 .. n
      /\ \A i \in 1 .. n : \E c \in kept : place[c] = i
      /\ \A c \in kept : atoms[place[c]] = Iv!Merged(Group(kept, c))
  BY <1>3 DEF Atomized
<1>5. ASSUME NEW i \in 1 .. n PROVE IsAtom(atoms[i]) /\ atoms[i].verification = "unverified"
  <2>1. PICK c \in kept : place[c] = i
    BY <1>4
  <2>2. atoms[i] = Iv!Merged(Group(kept, c))
    BY <1>4, <2>1
  <2>3. AtomOf(atoms[i], c, kept, place)
    BY <1>2, <1>3, <2>1, AtomFields
  <2> QED BY <2>2, <2>3, MergedIsAtom DEF AtomOf
<1>6. \E k \in Nat : /\ DOMAIN atoms = 1 .. k
                     /\ \A i \in 1 .. k : IsAtom(atoms[i]) /\ atoms[i].verification = "unverified"
  BY <1>4, <1>5
<1> QED BY <1>6 DEF atoms

Atomization(a, r) ==
  /\ Resolved(r.kept, a.cands) /\ CountedOnce(r.kept, r.atoms) /\ Filtered(r.report, r.atoms)

LEMMA AtomizeCalls ==
  ASSUME Atomize
  PROVE  Atomization(call'.args, call'.ret)
<1>1. PICK cands \in SUBSET Matches, hyphens \in {{}, {8}, {22}}, length \in {5, 26} :
        LET atoms == Iv!atomize(cands)
            frame == [length |-> length, hyphens |-> hyphens]
        IN  /\ Iv!within_frame(frame, atoms)
            /\ Call("atomize", [cands |-> cands],
                    [kept |-> Iv!resolve_overlaps(cands), atoms |-> atoms,
                     report |-> Iv!filter_eligible(atoms, frame, FALSE)])
  BY Zenon DEF Atomize
<1> DEFINE kept == Iv!resolve_overlaps(cands)
           atoms == Iv!atomize(cands)
           report == Iv!filter_eligible(atoms, [length |-> length, hyphens |-> hyphens], FALSE)
<1>2. call' = [rule |-> "atomize", args |-> [cands |-> cands],
               ret |-> [kept |-> kept, atoms |-> atoms, report |-> report]]
  BY <1>1 DEF Call
<1>3. AreMatches(cands) /\ \A c \in cands : c.start < c.stop
  BY MatchesAre
<1>4. Resolved(kept, cands) /\ CountedOnce(kept, atoms) /\ Filtered(report, atoms)
  BY <1>3, EverySpanCounted
<1> HIDE DEF kept, atoms, report
<1>5. /\ call'.args.cands = cands /\ call'.ret.kept = kept /\ call'.ret.atoms = atoms
      /\ call'.ret.report = report
  BY <1>2
<1> QED BY <1>4, <1>5 DEF Atomization

LEMMA ReviewCalls ==
  ASSUME Review
  PROVE  ReviewIsKept(call'.args.atoms, call'.args.decisions, call'.ret.read, call'.ret.report)
<1>1. PICK cands \in SUBSET Reviewed : \E decisions \in [DOMAIN Iv!atomize(cands) -> {"", "accepted", "rejected", "unsure"}] :
        LET atoms == Iv!atomize(cands)
            sheet == Iv!write_review_template(atoms)
            reviewed == Iv!apply_review(atoms, Iv!Filled(sheet, decisions))
        IN  Call("review", [atoms |-> atoms, decisions |-> decisions],
                 [read |-> Iv!read_inventory(Unread(reviewed), TRUE),
                  report |-> Iv!filter_eligible(reviewed, [length |-> 26, hyphens |-> {}], TRUE)])
  BY Zenon DEF Review
<1> DEFINE atoms == Iv!atomize(cands)
<1>2. PICK decisions \in [DOMAIN atoms -> {"", "accepted", "rejected", "unsure"}] :
        LET sheet == Iv!write_review_template(atoms)
            reviewed == Iv!apply_review(atoms, Iv!Filled(sheet, decisions))
        IN  Call("review", [atoms |-> atoms, decisions |-> decisions],
                 [read |-> Iv!read_inventory(Unread(reviewed), TRUE),
                  report |-> Iv!filter_eligible(reviewed, [length |-> 26, hyphens |-> {}], TRUE)])
  BY <1>1, Zenon
<1> DEFINE frame == [length |-> 26, hyphens |-> {}]
           reviewed == Iv!apply_review(atoms, Rows0(atoms, decisions))
           read == Iv!read_inventory(Iv!write_inventory(reviewed), TRUE)
           report == Iv!filter_eligible(reviewed, frame, TRUE)
<1>3. Call("review", [atoms |-> atoms, decisions |-> decisions], [read |-> read, report |-> report])
  BY <1>2, Zenon DEF Rows0, Unread
<1>4. AreMatches(cands) /\ \A c \in cands : c.start < c.stop
  <2>1. cands \in SUBSET Matches
    BY Zenon DEF Reviewed
  <2> QED BY <2>1, MatchesAre, Zenon
<1>5. PICK n \in Nat : /\ DOMAIN atoms = 1 .. n
                       /\ \A i \in 1 .. n : IsAtom(atoms[i]) /\ atoms[i].verification = "unverified"
  BY <1>4, AtomsAreFresh, Zenon
<1> HIDE DEF atoms, frame
<1>6. DOMAIN decisions = 1 .. n
  BY <1>2, <1>5, Zenon
<1>7. ReviewIsKept(atoms, decisions, read, report)
  BY <1>5, <1>6, ReviewedInventory, Zenon
<1> HIDE DEF read, report
<1>8. /\ call'.args.atoms = atoms /\ call'.args.decisions = decisions
      /\ call'.ret.read = read /\ call'.ret.report = report
  BY <1>3, Zenon DEF Call
<1> QED BY <1>7, <1>8, Zenon

LEMMA AgreeCalls ==
  ASSUME Agree
  PROVE  KappaIsSound(call'.args.a, call'.args.b, call'.ret, Iv!cohen_kappa(call'.args.b, call'.args.a))
<1>1. PICK n \in 0 .. 3 : \E a, b \in [1 .. n -> {"yes", "no", "skip"}] :
        Call("kappa", [a |-> a, b |-> b], Iv!cohen_kappa(a, b))
  BY Zenon DEF Agree
<1>2. PICK a \in [1 .. n -> {"yes", "no", "skip"}], b \in [1 .. n -> {"yes", "no", "skip"}] :
        Call("kappa", [a |-> a, b |-> b], Iv!cohen_kappa(a, b))
  BY <1>1
<1> DEFINE k == Iv!cohen_kappa(a, b)
           l == Iv!cohen_kappa(b, a)
<1>3. KappaIsSound(a, b, k, l)
  <2>1. n \in Nat
    OBVIOUS
  <2>2. DOMAIN a = 1 .. n /\ DOMAIN b = 1 .. n
    OBVIOUS
  <2> QED BY <2>1, KappaIsAgreement
<1> HIDE DEF k
<1>4. call'.args.a = a /\ call'.args.b = b /\ call'.ret = k
  BY <1>2 DEF Call, k
<1> QED BY <1>3, <1>4, Zenon

Inventoried(c) ==
  /\ c.rule = "atomize" => Atomization(c.args, c.ret)
  /\ c.rule = "review" => ReviewIsKept(c.args.atoms, c.args.decisions, c.ret.read, c.ret.report)
  /\ c.rule = "kappa" => KappaIsSound(c.args.a, c.args.b, c.ret, Iv!cohen_kappa(c.args.b, c.args.a))

LEMMA InventoriedIsSound == Inventoried(call) => InventoryIsSound
<1> SUFFICES ASSUME Inventoried(call) PROVE InventoryIsSound
  OBVIOUS
<1> DEFINE a == call.args
           r == call.ret
           counts == [i \in DOMAIN r.atoms |-> r.atoms[i].occurrence_count]
<1>1. /\ call.rule = "atomize" => Atomization(a, r)
      /\ call.rule = "review" => ReviewIsKept(a.atoms, a.decisions, r.read, r.report)
      /\ call.rule = "kappa" => KappaIsSound(a.a, a.b, r, Iv!cohen_kappa(a.b, a.a))
  BY Zenon DEF Inventoried
<1>2. SumFunction(counts) = SumOver(counts, DOMAIN r.atoms)
  <2>1. DOMAIN counts = DOMAIN r.atoms
    OBVIOUS
  <2> HIDE DEF counts
  <2> QED BY <2>1, Zenon DEF SumFunction, SumFunctionOnSet, FoldFunctionOnSet, MapThenFoldSet,
                             SumOver, MapThenSumSet
<1>3. \A s : ToSet(s) = Members(s)
  BY DEF ToSet, Members
<1> HIDE DEF a, r
<1>4. Atomization(a, r) =>
        /\ \A c, d \in r.kept : c # d => ~Iv!Overlap(c, d)
        /\ \A c \in a.cands \ r.kept :
             \E k \in r.kept : Iv!Overlap(c, k) /\ Iv!Span(c) <= Iv!Span(k)
        /\ \A c \in r.kept :
             Cardinality({i \in DOMAIN r.atoms : <<c.start, c.stop>> \in r.atoms[i].spans}) = 1
        /\ SumFunction(counts) = Cardinality(r.kept)
        /\ \A x, y \in ToSet(r.report.eligible) : x.value = y.value => x = y
        /\ Len(r.report.eligible) + Len(r.report.excluded) = Len(r.atoms)
  BY <1>2, <1>3, Zenon DEF Atomization, Resolved, CountedOnce, Filtered, FreeOfTwins
<1>5. ReviewIsKept(a.atoms, a.decisions, r.read, r.report) =>
        LET accepted == {i \in DOMAIN a.atoms : a.decisions[i] = "accepted"}
            Named(s) == {s[i].id : i \in DOMAIN s}
        IN  /\ Named(r.read) \subseteq {a.atoms[i].id : i \in accepted}
            /\ Named(r.report.eligible) \subseteq Named(r.read)
            /\ Cardinality(Named(a.atoms)) = Len(a.atoms) =>
                 {x.value : x \in ToSet(r.read)} = {a.atoms[i].value : i \in accepted}
  BY <1>3, Zenon DEF ReviewIsKept, IdsOf, AcceptedAtoms
<1> QED BY <1>1, <1>4, <1>5, Zenon DEF InventoryIsSound, KappaIsSound, a, r

(* atomize, resolve_overlaps, filter_eligible, apply_review, the inventory   *)
(* file and cohen_kappa (atomizer/rules.py, atomizer/verify.py): in every    *)
(* sequence of calls the spans kept are disjoint and lie in one atom each,   *)
(* a match is dropped only for a kept one that is as long, no two eligible   *)
(* atoms have one value, what is read back after a review was accepted, and  *)
(* kappa is 1 for agreement alone and symmetric.                             *)
THEOREM InventoryIsKept == Spec => []InventoryIsSound
<1>1. Init => Inventoried(call)
  BY DEF Init, Idle, Inventoried
<1>2. ASSUME Inventoried(call), [Next]_call PROVE Inventoried(call)'
  <2>1. CASE UNCHANGED call
    BY <1>2, <2>1
  <2>2. CASE Next
    <3> DEFINE a == call'.args
               r == call'.ret
    <3>1. call'.rule = "atomize" => Atomization(a, r)
      BY <2>2, RuleOfCall, AtomizeCalls
    <3>2. call'.rule = "review" => ReviewIsKept(a.atoms, a.decisions, r.read, r.report)
      BY <2>2, RuleOfCall, ReviewCalls
    <3>3. call'.rule = "kappa" => KappaIsSound(a.a, a.b, r, Iv!cohen_kappa(a.b, a.a))
      BY <2>2, RuleOfCall, AgreeCalls
    <3> QED BY <3>1, <3>2, <3>3, Zenon DEF Inventoried
  <2> QED BY <1>2, <2>1, <2>2
<1> QED BY <1>1, <1>2, InventoriedIsSound, PTL DEF Spec

LEMMA TwoAreFinite == IsFiniteSet(1 .. 2) /\ IsFiniteSet({1, 2})
<1>1. {1, 2} = 1 .. 2
  OBVIOUS
<1>2. \A n \in Int : IsFiniteSet(1 .. n)
  BY FS_Interval
<1>3. 2 \in Int
  OBVIOUS
<1>4. IsFiniteSet(1 .. 2)
  BY <1>2, <1>3, Zenon
<1> QED BY <1>1, <1>4

LEMMA IntervalCalls ==
  ASSUME Interval, Gave(call'.ret.gain)
  PROVE  LET r == call'.ret
         IN  call'.args.shift \in 0 .. 1 /\ ComparedArms(r.gain, r.loss, r.self, r.one, call'.args.shift)
<1>1. PICK m \in 0 .. 3 : \E s \in [1 .. m -> Outcomes2], shift \in 0 .. 1,
              draws \in [1..2 -> {<<1, 1>>, <<1, 2>>, <<2, 2>>}] :
  LET docs == Cardinality(Rc!Docs(s))
      used == IF docs = 2 THEN draws ELSE [r \in 1..2 |-> [i \in 1..docs |-> 1]]
      other == Reverse([i \in DOMAIN s |-> [s[i] EXCEPT !.y = @ + (shift * s[i].doc)]])
  IN  Call("interval", [shift |-> shift],
           [one |-> Rc!cluster_bootstrap(s, used), self |-> Rc!paired_cluster_bootstrap(s, s, used),
            gain |-> Rc!paired_cluster_bootstrap(other, s, used),
            loss |-> Rc!paired_cluster_bootstrap(s, other, used)])
  BY DEF Interval
<1>2. PICK s \in [1 .. m -> Outcomes2], shift \in 0 .. 1,
              draws \in [1..2 -> {<<1, 1>>, <<1, 2>>, <<2, 2>>}] :
  LET docs == Cardinality(Rc!Docs(s))
      used == IF docs = 2 THEN draws ELSE [r \in 1..2 |-> [i \in 1..docs |-> 1]]
      other == Reverse([i \in DOMAIN s |-> [s[i] EXCEPT !.y = @ + (shift * s[i].doc)]])
  IN  Call("interval", [shift |-> shift],
           [one |-> Rc!cluster_bootstrap(s, used), self |-> Rc!paired_cluster_bootstrap(s, s, used),
            gain |-> Rc!paired_cluster_bootstrap(other, s, used),
            loss |-> Rc!paired_cluster_bootstrap(s, other, used)])
  BY <1>1
<1> DEFINE docs == Cardinality(Rc!Docs(s))
           used == IF docs = 2 THEN draws ELSE [r \in 1..2 |-> [i \in 1..docs |-> 1]]
           shifted == [i \in DOMAIN s |-> [s[i] EXCEPT !.y = @ + (shift * s[i].doc)]]
           other == Reverse(shifted)
           pi == [i \in 1 .. m |-> m + 1 - i]
<1>3. Call("interval", [shift |-> shift],
           [one |-> Rc!cluster_bootstrap(s, used), self |-> Rc!paired_cluster_bootstrap(s, s, used),
            gain |-> Rc!paired_cluster_bootstrap(other, s, used),
            loss |-> Rc!paired_cluster_bootstrap(s, other, used)])
  BY <1>2
<1>4. m \in Nat /\ s \in Seq(Outcomes2) /\ Len(s) = m /\ DOMAIN s = 1 .. m
  OBVIOUS
<1>5. ASSUME NEW i \in 1 .. m
      PROVE  /\ s[i].doc \in {1, 2} /\ s[i].y \in Int
             /\ shifted[i].doc = s[i].doc /\ shifted[i].t = s[i].t /\ shifted[i].y \in Int /\ s[i].y + shift <= shifted[i].y
  <2>1. s[i] \in [doc : {1, 2}, t : 0..1, y : 0..2]
    BY DEF Outcomes2
  <2>2. shifted[i] = [s[i] EXCEPT !.y = @ + (shift * s[i].doc)]
    BY <1>4
  <2>3. shift = 0 \/ shift = 1
    OBVIOUS
  <2>4. shifted[i].y = s[i].y + (shift * s[i].doc) /\ shifted[i].doc = s[i].doc /\ shifted[i].t = s[i].t
    BY <2>1, <2>2
  <2>5. CASE shift = 0
    BY <2>1, <2>4, <2>5
  <2>6. CASE shift = 1
    BY <2>1, <2>4, <2>6
  <2> QED BY <2>1, <2>3, <2>4, <2>5, <2>6
<1>6. DOMAIN other = 1 .. m /\ \A i \in 1 .. m : pi[i] \in 1 .. m /\ other[pi[i]] = shifted[i]
  <2>1. Len(shifted) = m
    BY <1>4
  <2>2. other = [i \in 1 .. m |-> shifted[(m - i) + 1]]
    BY <2>1 DEF Reverse
  <2>3. \A i \in 1 .. m : pi[i] = m + 1 - i /\ pi[i] \in 1 .. m /\ (m - pi[i]) + 1 = i
    OBVIOUS
  <2> HIDE DEF other, shifted, pi
  <2> QED BY <2>2, <2>3
<1>7. \A i, j \in 1 .. m : (pi[i] = pi[j] => i = j) /\ pi[pi[i]] = i
  OBVIOUS
<1>8. pi \in [1 .. m -> 1 .. m] /\ IsFiniteSet(1 .. m)
  BY FS_Interval
<1>9. \A r \in DOMAIN used : IsFiniteSet(DOMAIN used[r])
  <2>1. DOMAIN used = 1 .. 2
    OBVIOUS
  <2>2. ASSUME NEW r \in 1 .. 2 PROVE IsFiniteSet(DOMAIN used[r])
    <3>1. CASE docs = 2
      <4>1. used[r] = draws[r] /\ draws[r] \in {<<1, 1>>, <<1, 2>>, <<2, 2>>}
        BY <3>1
      <4>2. \A d \in {<<1, 1>>, <<1, 2>>, <<2, 2>>} : DOMAIN d = 1 .. 2
        OBVIOUS
      <4>3. DOMAIN used[r] = 1 .. 2
        BY <4>1, <4>2, Zenon
      <4> HIDE DEF used
      <4> QED BY <4>3, TwoAreFinite
    <3>2. CASE docs # 2
      <4>1. used[r] = [i \in 1..docs |-> 1]
        BY <3>2
      <4>2. IsFiniteSet(Rc!Docs(s))
        <5>1. Rc!Docs(s) \in SUBSET {1, 2}
          BY <1>4, <1>5 DEF Rc!Docs
        <5>2. IsFiniteSet({1, 2})
          BY TwoAreFinite
        <5> QED BY <5>1, <5>2, FS_Subset
      <4>3. docs \in Nat
        BY <4>2, FS_CardinalityType
      <4>4. DOMAIN used[r] = 1 .. docs
        BY <4>1
      <4> HIDE DEF docs, used
      <4>5. IsFiniteSet(1 .. docs)
        BY <4>3, FS_Interval
      <4> QED BY <4>4, <4>5
    <3> QED BY <3>1, <3>2
  <2> QED BY <2>1, <2>2
<1>10. IsFiniteSet(DOMAIN used)
  <2>1. DOMAIN used = 1 .. 2
    OBVIOUS
  <2> HIDE DEF used
  <2> QED BY <2>1, TwoAreFinite
<1> HIDE DEF other, shifted, used, pi
<1>11. Mirrors(other, s, pi, shift)
  <2>1. \A j \in 1 .. m : \E i \in 1 .. m : pi[i] = j
    BY <1>7, <1>8
  <2>2. \A i \in 1 .. m : /\ other[pi[i]].doc = s[i].doc /\ other[pi[i]].t = s[i].t
                          /\ other[pi[i]].y \in Int /\ s[i].y \in Int /\ s[i].y + shift <= other[pi[i]].y
    BY <1>5, <1>6
  <2> QED BY <1>4, <1>6, <1>7, <1>8, <2>1, <2>2 DEF Mirrors
<1> DEFINE gain == Rc!paired_cluster_bootstrap(other, s, used)
           loss == Rc!paired_cluster_bootstrap(s, other, used)
           self == Rc!paired_cluster_bootstrap(s, s, used)
           one == Rc!cluster_bootstrap(s, used)
<1>12. Gave(gain) => ComparedArms(gain, loss, self, one, shift)
  <2>1. shift \in Int
    OBVIOUS
  <2> QED BY <1>9, <1>10, <1>11, <2>1, PairedInterval
<1> HIDE DEF gain, loss, self, one
<1>13. call' = [rule |-> "interval", args |-> [shift |-> shift],
                ret |-> [one |-> one, self |-> self, gain |-> gain, loss |-> loss]]
  BY <1>3, Zenon DEF Call, gain, loss, self, one
<1>14. call'.args.shift = shift /\ call'.ret.gain = gain /\ call'.ret.loss = loss /\ call'.ret.self = self /\ call'.ret.one = one
  BY <1>13
<1> QED BY <1>12, <1>14

-----------------------------------------------------------------------------
(* The calls about results.                                                  *)


(* Two rows of one policy and metric in a batch that is written.             *)
RowsDiffer(records, i, j) ==
  /\ records[i].doc # records[j].doc /\ records[i].sha # records[j].sha
  /\ records[i].eval # records[j].eval

(* validate_document_outcome_batch (export/): in a batch that is written no  *)
(* two rows of a policy and a metric share the document, the answer or its   *)
(* hash; for any rows and any bound on the rows a value may be shared by.    *)
THEOREM WrittenRowsDiffer ==
  ASSUME NEW records, NEW rows_needed,
         Rc!validate_document_outcome_batch(records, rows_needed) = "written",
         NEW i \in DOMAIN records, NEW j \in DOMAIN records, i # j,
         records[i].policy = records[j].policy, records[i].metric = records[j].metric
  PROVE  RowsDiffer(records, i, j)
<1> DEFINE group(x) == {k \in DOMAIN records : /\ records[k].policy = records[x].policy
                                               /\ records[k].metric = records[x].metric}
           groups == {group(x) : x \in DOMAIN records}
<1>1. \A g \in groups : ~Rc!Shared(records, g, "doc") /\ ~Rc!Shared(records, g, "eval") /\ ~Rc!Shared(records, g, "sha")
  <2>1. records # <<>> /\ \A g \in groups :
          ~Rc!Shared(records, g, "doc") /\ ~Rc!Shared(records, g, "eval") /\ ~Rc!Shared(records, g, "sha")
    BY Zenon DEF Rc!validate_document_outcome_batch
  <2> QED BY <2>1
<1>2. group(i) \in groups /\ i \in group(i) /\ j \in group(i)
  OBVIOUS
<1> HIDE DEF groups, group
<1>3. /\ ~ (records[i]["doc"] = records[j]["doc"]) /\ ~ (records[i]["eval"] = records[j]["eval"])
      /\ ~ (records[i]["sha"] = records[j]["sha"])
  BY <1>1, <1>2, Zenon DEF Rc!Shared
<1> QED BY <1>3 DEF RowsDiffer

LEMMA ExportCalls ==
  ASSUME Export, call'.ret = "written"
  PROVE  \A i, j \in DOMAIN call'.args :
           (i # j /\ call'.args[i].metric = call'.args[j].metric) => RowsDiffer(call'.args, i, j)
<1>1. PICK n \in 0 .. 2 : \E records \in [1 .. n -> Rows] :
        Call("outcomes", records, Rc!validate_document_outcome_batch(records, 2))
  BY Zenon DEF Export
<1>2. PICK records \in [1 .. n -> Rows] :
        Call("outcomes", records, Rc!validate_document_outcome_batch(records, 2))
  BY <1>1
<1>3. call'.args = records /\ Rc!validate_document_outcome_batch(records, 2) = "written"
  BY <1>2 DEF Call
<1>4. \A r \in Rows : r.policy = "p"
  BY DEF Rows
<1>5. \A i \in DOMAIN records : records[i].policy = "p"
  BY <1>4
<1>6. \A i, j \in DOMAIN records : (i # j /\ records[i].metric = records[j].metric) => RowsDiffer(records, i, j)
  BY <1>3, <1>5, WrittenRowsDiffer
<1> QED BY <1>3, <1>6

BestShown(values, direction, i) ==
  i # 0 => /\ i \in DOMAIN values
           /\ \A j \in DOMAIN values : values[j] # Rc!Missing =>
                IF direction = "up" THEN values[j] <= values[i] ELSE values[j] >= values[i]

(* best_index (export/): the cell set in bold is at least as good as every   *)
(* other that holds a value; for any row of a table.                         *)
THEOREM BoldIsBest ==
  ASSUME NEW n \in Nat, NEW values, DOMAIN values = 1 .. n, \A i \in 1 .. n : values[i] \in Int,
         NEW direction
  PROVE  BestShown(values, direction, Rc!best_index(values, direction))
<1> DEFINE shown == {i \in DOMAIN values : values[i] # Rc!Missing}
           best == {i \in shown : \A j \in shown :
                      IF direction = "up" THEN values[i] >= values[j] ELSE values[i] <= values[j]}
           r == Rc!best_index(values, direction)
<1>1. r = IF direction = "none" \/ shown = {} THEN 0 ELSE Rc!Min(best)
  BY Zenon DEF Rc!best_index
<1>2. shown \subseteq 1 .. n /\ \A i \in shown : values[i] \in Int /\ i \in Int
  OBVIOUS
<1>3. best \subseteq shown /\ \A j \in 1 .. n : j \in shown <=> values[j] # Rc!Missing
  OBVIOUS
<1>4. ASSUME shown # {} PROVE best # {}
  <2> DEFINE V == {values[i] : i \in shown}
  <2>1. IsFiniteSet(shown)
    BY <1>2, FS_Interval, FS_Subset
  <2>2. V # {} /\ V \subseteq Int
    BY <1>2, <1>4
  <2>3. IsFiniteSet(V)
    <3> HIDE DEF shown
    <3> DEFINE F == [i \in shown |-> values[i]]
    <3>1. F \in Surjection(shown, V)
      BY DEF Surjection
    <3> QED BY <2>1, <3>1, FS_Surjection
  <2> HIDE DEF V
  <2>4. PICK lo \in V : \A v \in V : lo <= v
    BY <2>2, <2>3, LeastInteger
  <2>5. PICK hi \in V : \A v \in V : v <= hi
    BY <2>2, <2>3, GreatestInteger
  <2>6. PICK a \in shown, b \in shown : values[a] = lo /\ values[b] = hi
    BY DEF V
  <2>7. \A j \in shown : values[a] <= values[j] /\ values[b] >= values[j]
    <3>1. \A j \in shown : values[j] \in V
      BY DEF V
    <3> HIDE DEF shown
    <3> QED BY <1>2, <2>4, <2>5, <2>6, <3>1
  <2> QED BY <2>6, <2>7
<1>5. \A i \in best : \A j \in shown : IF direction = "up" THEN values[i] >= values[j] ELSE values[i] <= values[j]
  OBVIOUS
<1> HIDE DEF shown, best
<1>6. ASSUME shown # {} PROVE Rc!Min(best) \in best
  <2>0. IsFiniteSet(1 .. n) /\ best \in SUBSET (1 .. n)
    BY <1>2, <1>3, FS_Interval
  <2>3. IsFiniteSet(best)
    BY <2>0, FS_Subset
  <2>4. best \subseteq Int
    BY <2>0
  <2>1. IsFiniteSet(best) /\ best \subseteq Int
    BY <2>3, <2>4
  <2>2. PICK x \in best : \A y \in best : x <= y
    BY <1>4, <1>6, <2>1, LeastInteger
  <2> QED BY <2>2 DEF Rc!Min
<1> HIDE DEF r
<1>7. r # 0 => r \in best
  BY <1>1, <1>6
<1>8. BestShown(values, direction, r)
  <2> SUFFICES ASSUME r # 0
               PROVE  /\ r \in DOMAIN values
                      /\ \A j \in DOMAIN values : values[j] # Rc!Missing =>
                           IF direction = "up" THEN values[j] <= values[r] ELSE values[j] >= values[r]
    BY DEF BestShown
  <2>1. r \in 1 .. n /\ values[r] \in Int
    BY <1>2, <1>3, <1>7
  <2>2. \A j \in shown : values[j] \in Int
    BY <1>2
  <2> QED BY <1>3, <1>5, <1>7, <2>1, <2>2
<1> QED BY <1>8 DEF r

LEMMA BoldCalls ==
  ASSUME Bold
  PROVE  BestShown(call'.args.values, call'.args.direction, call'.ret)
<1>1. PICK n \in 0 .. 3 : \E values \in [1 .. n -> {Rc!Missing, 0, 1, 2}], d \in {"up", "down", "none"} :
        Call("bold", [values |-> values, direction |-> d], Rc!best_index(values, d))
  BY Zenon DEF Bold
<1>2. PICK values \in [1 .. n -> {Rc!Missing, 0, 1, 2}], d \in {"up", "down", "none"} :
        Call("bold", [values |-> values, direction |-> d], Rc!best_index(values, d))
  BY <1>1
<1>3. n \in Nat /\ DOMAIN values = 1 .. n /\ \A i \in 1 .. n : values[i] \in Int
  BY DEF Rc!Missing
<1>4. call'.args.values = values /\ call'.args.direction = d /\ call'.ret = Rc!best_index(values, d)
  BY <1>2 DEF Call
<1> DEFINE direction == d
<1> HIDE DEF direction
<1>5. BestShown(values, direction, Rc!best_index(values, direction))
  BY <1>3, BoldIsBest
<1> QED BY <1>4, <1>5 DEF direction

(* What the sealed record says of the files it stood for.                    *)
SealHolds(old, disk, later, n) ==
  /\ later = (IF n = 0 THEN old ELSE disk)
  /\ n \in 1 .. 2 => old = disk

(* seal_record and verify_record (repro/): the record is written as three    *)
(* files, one after the other, and the process may end after any of them; a  *)
(* later state of the disk that still verifies is the state the record was   *)
(* sealed over, and after a reseal that stopped half way nothing verifies    *)
(* unless nothing had changed; for any files and any hashes.                 *)
THEOREM SealIsKept ==
  ASSUME NEW F, NEW old, NEW disk, NEW later, NEW n \in 0 .. 3,
         old = [f \in F |-> old[f]], disk = [f \in F |-> disk[f]], later = [f \in F |-> later[f]],
         Rc!verify_record(Rc!SealedUpTo(n, Rc!Seal(old), disk), later)
  PROVE  SealHolds(old, disk, later, n)
<1> DEFINE r == Rc!SealedUpTo(n, Rc!Seal(old), disk)
           m == "manifest"
           s == "sums"
           l == "seal"
<1>1. r.manifest = (IF n >= 1 THEN disk ELSE old) /\ r.sums = (IF n >= 2 THEN disk ELSE old)
      /\ r.seal.record_manifest_sha256 = (IF n >= 3 THEN disk ELSE old)
  BY DEF Rc!SealedUpTo, Rc!Seal, Rc!SealFiles
<1> QED
  BY <1>1 DEF Rc!verify_record, SealHolds

LEMMA SealCalls ==
  ASSUME Sealing, call'.ret
  PROVE  SealHolds(call'.args.old, call'.args.disk, call'.args.later, call'.args.n)
<1>1. PICK old \in [{"x", "y"} -> 1 .. 2], disk \in [{"x", "y"} -> 1 .. 2], later \in [{"x", "y"} -> 1 .. 2], n \in 0 .. 3 :
        Call("seal", [old |-> old, disk |-> disk, later |-> later, n |-> n],
             Rc!verify_record(Rc!SealedUpTo(n, Rc!Seal(old), disk), later))
  BY DEF Sealing
<1>2. /\ call'.args.old = old /\ call'.args.disk = disk /\ call'.args.later = later /\ call'.args.n = n
      /\ call'.ret = Rc!verify_record(Rc!SealedUpTo(n, Rc!Seal(old), disk), later)
  BY <1>1 DEF Call
<1> DEFINE F == {"x", "y"}
<1>3. old = [f \in F |-> old[f]] /\ disk = [f \in F |-> disk[f]] /\ later = [f \in F |-> later[f]]
  OBVIOUS
<1> HIDE DEF F
<1>4. SealHolds(old, disk, later, n)
  BY <1>2, <1>3, SealIsKept
<1> QED BY <1>2, <1>4

(* An enabled rail that is let in stands on the perimeter of the demo.       *)
InPlace(position, mode) == position \in Rc!DEMO_PERIMETER /\ mode = "DEMO_MODE"

LEMMA GuardCalls ==
  ASSUME Guard, call'.args.enabled, call'.ret
  PROVE  InPlace(call'.args.position, call'.args.mode)
<1>1. PICK mode \in {"DEMO_MODE", "RESEARCH_MODE"}, explicit \in {"unset", "on", "off"}, env \in BOOLEAN,
           position \in Rc!SCIENTIFIC_INFERENCE_PATH \cup Rc!DEMO_PERIMETER \cup {"other"} :
        LET enabled == Rc!guardrails_enabled(mode, explicit, env)
        IN  Call("guard", [mode |-> mode, enabled |-> enabled, position |-> position],
                 Rc!position_allowed(position, mode, enabled))
  BY DEF Guard
<1> DEFINE enabled == Rc!guardrails_enabled(mode, explicit, env)
<1>2. /\ call'.args.mode = mode /\ call'.args.enabled = enabled /\ call'.args.position = position
      /\ call'.ret = Rc!position_allowed(position, mode, enabled)
  BY <1>1 DEF Call
<1> HIDE DEF enabled
<1>3. position \in Rc!DEMO_PERIMETER /\ mode # "RESEARCH_MODE"
  BY <1>2 DEF Rc!position_allowed
<1> QED BY <1>2, <1>3 DEF InPlace

(* What a call of the rules of results promises.                             *)
Batched(a) ==
  \A i, j \in DOMAIN a : (i # j /\ a[i].metric = a[j].metric) => RowsDiffer(a, i, j)
Recorded(c) ==
  /\ c.rule = "outcomes" /\ c.ret = "written" => Batched(c.args)
  /\ c.rule = "bold" => BestShown(c.args.values, c.args.direction, c.ret)
  /\ c.rule = "interval" /\ Gave(c.ret.gain) =>
       c.args.shift \in 0 .. 1 /\ ComparedArms(c.ret.gain, c.ret.loss, c.ret.self, c.ret.one, c.args.shift)
  /\ c.rule = "seal" /\ c.ret => SealHolds(c.args.old, c.args.disk, c.args.later, c.args.n)
  /\ c.rule = "guard" /\ c.args.enabled /\ c.ret => InPlace(c.args.position, c.args.mode)

Ordered(r, shift) ==
  /\ r.self.lower = 0 /\ r.self.upper = 0
  /\ r.loss.lower = -r.gain.upper /\ r.loss.upper = -r.gain.lower
  /\ 0 <= r.gain.lower /\ r.gain.lower <= r.gain.upper
  /\ (shift = 1 => r.gain.lower >= 1000 * Rc!Scale)
  /\ r.one.lower <= r.one.upper /\ r.one.replicates = r.gain.replicates

LEMMA OrderedArms ==
  ASSUME NEW r, NEW shift \in 0 .. 1, ComparedArms(r.gain, r.loss, r.self, r.one, shift)
  PROVE  Ordered(r, shift)
<1>1. 12000 * shift <= r.gain.lower /\ r.gain.lower \in Int
  BY DEF ComparedArms
<1>2. 0 <= r.gain.lower /\ (shift = 1 => r.gain.lower >= 1000 * Rc!Scale)
  BY <1>1 DEF Rc!Scale
<1> QED BY <1>2 DEF ComparedArms, Ordered

LEMMA RecordedIsSound == Recorded(call) => RecordsAreSound
<1> SUFFICES ASSUME Recorded(call) PROVE RecordsAreSound
  OBVIOUS
<1>1. (call.rule = "outcomes" /\ call.ret = "written") =>
       \A i, j \in DOMAIN call.args :
         LET r == call.args[i]
             s == call.args[j]
         IN  (i # j /\ r.metric = s.metric) => r.doc # s.doc /\ r.sha # s.sha /\ r.eval # s.eval
  BY DEF Recorded, Batched, RowsDiffer
<1>2. (call.rule = "bold" /\ call.ret # 0) =>
       LET v == call.args.values
       IN  \A i \in DOMAIN v : v[i] # Rc!Missing =>
             IF call.args.direction = "up" THEN v[i] <= v[call.ret] ELSE v[i] >= v[call.ret]
  BY DEF Recorded, BestShown
<1>3. (call.rule = "interval" /\ call.ret.gain.raised = "") =>
       LET r == call.ret
       IN  /\ r.self.lower = 0 /\ r.self.upper = 0
           /\ r.loss.lower = -r.gain.upper /\ r.loss.upper = -r.gain.lower
           /\ 0 <= r.gain.lower /\ r.gain.lower <= r.gain.upper
           /\ (call.args.shift = 1 => r.gain.lower >= 1000 * Rc!Scale)
           /\ r.one.lower <= r.one.upper /\ r.one.replicates = r.gain.replicates
  <2>1. (call.rule = "interval" /\ Gave(call.ret.gain)) => Ordered(call.ret, call.args.shift)
    BY OrderedArms DEF Recorded
  <2> QED BY <2>1, Zenon DEF Ordered, Gave
<1>4. call.rule = "seal" =>
       LET a == call.args
       IN  call.ret => /\ a.later = (IF a.n = 0 THEN a.old ELSE a.disk)
                       /\ (a.n \in 1..2 => a.old = a.disk)
  BY DEF Recorded, SealHolds
<1>5. (call.rule = "guard" /\ call.args.enabled /\ call.ret) =>
       call.args.position \in Rc!DEMO_PERIMETER /\ call.args.mode = "DEMO_MODE"
  BY DEF Recorded, InPlace
<1> QED BY <1>1, <1>2, <1>3, <1>4, <1>5, Zenon DEF RecordsAreSound

(* What becomes of results, over every call the rules' run makes: two rows   *)
(* of a metric in a batch that is written differ in document, answer and     *)
(* hash, the bold cell is best, the intervals of two arms relate as the arms *)
(* do, a record that verifies is of the files it was sealed over, and no     *)
(* enabled guardrail stands outside the perimeter of the demo.               *)
THEOREM RecordsAreKept == Spec => []RecordsAreSound
<1>1. Init => Recorded(call)
  BY DEF Init, Idle, Recorded
<1>2. ASSUME Recorded(call), [Next]_call PROVE Recorded(call)'
  <2>1. CASE UNCHANGED call
    BY <1>2, <2>1
  <2>2. CASE Next
    <3> DEFINE a == call'.args
               r == call'.ret
    <3>1. call'.rule = "outcomes" /\ r = "written" => Batched(a)
      BY <2>2, RuleOfCall, ExportCalls DEF Batched
    <3>2. call'.rule = "bold" => BestShown(a.values, a.direction, r)
      BY <2>2, RuleOfCall, BoldCalls
    <3>3. call'.rule = "interval" /\ Gave(r.gain) =>
            a.shift \in 0 .. 1 /\ ComparedArms(r.gain, r.loss, r.self, r.one, a.shift)
      BY <2>2, RuleOfCall, IntervalCalls
    <3>4. call'.rule = "seal" /\ r => SealHolds(a.old, a.disk, a.later, a.n)
      BY <2>2, RuleOfCall, SealCalls
    <3>5. call'.rule = "guard" /\ a.enabled /\ r => InPlace(a.position, a.mode)
      BY <2>2, RuleOfCall, GuardCalls
    <3> QED BY <3>1, <3>2, <3>3, <3>4, <3>5, Zenon DEF Recorded
  <2> QED BY <1>2, <2>1, <2>2
<1> QED BY <1>1, <1>2, RecordedIsSound, PTL DEF Spec

-----------------------------------------------------------------------------
(* What may be claimed.                                                      *)

(* apply_to and benchmark_eligible, for any registry entry and run: an entry *)
(* that becomes eligible by a run, and is not a control, was reproduced.     *)
Entry(e) ==
  e = [role |-> e.role, status |-> e.status, produces_text |-> e.produces_text, reasons |-> e.reasons,
       reproduced |-> e.reproduced, deviation |-> e.deviation, tolerance |-> e.tolerance,
       family |-> e.family, fields |-> e.fields]
EntryEarned(e, run) ==
  /\ reproduced(run) /\ e.produces_text /\ unresolved(e) = {}
  /\ Magnitude(run.observed - run.expected) <= Tolerance(e)

AdmittedEntry(e) == benchmark_eligible(e) /\ e.role # "CONTROL"

THEOREM EligibleWasReproduced ==
  ASSUME NEW e, Entry(e), NEW run, AdmittedEntry(apply_to(run, e))
  PROVE  EntryEarned(apply_to(run, e), run)
<1> DEFINE x == apply_to(run, e)
<1>1. /\ x.role = e.role /\ x.deviation = deviation(run)
      /\ x.status = (IF reproduced(run) THEN "READY" ELSE "UNREPRODUCED")
  <2> DEFINE observed == run.observed
             dev == deviation(run)
             ready == IF reproduced(run) THEN "READY" ELSE "UNREPRODUCED"
  <2>1. x = [e EXCEPT !.reproduced = observed, !.deviation = dev, !.status = ready]
    BY Zenon DEF apply_to
  <2> HIDE DEF x, observed, dev, ready
  <2>2. x.role = e.role /\ x.deviation = dev /\ x.status = ready
    BY <2>1 DEF Entry
  <2> QED BY <2>2 DEF dev, ready
<1> HIDE DEF x
<1>2. benchmark_eligible(x) /\ x.role # "CONTROL"
  BY DEF x, AdmittedEntry
<1>3. /\ unresolved(x) = {} /\ x.status = "READY" /\ x.produces_text
      /\ x.deviation # NoMetric /\ Magnitude(x.deviation) <= Tolerance(x)
  BY <1>2, Zenon DEF benchmark_eligible
<1>4. reproduced(run)
  BY <1>1, <1>3
<1>5. x.deviation = run.observed - run.expected
  BY <1>1, <1>3 DEF deviation
<1> QED BY <1>3, <1>4, <1>5, Zenon DEF EntryEarned, x

LEMMA ReproduceCalls ==
  ASSUME Reproduce, AdmittedEntry(call'.ret)
  PROVE  /\ reproduced(call'.args.run) /\ call'.ret.produces_text
         /\ Magnitude(call'.args.run.observed - call'.args.run.expected) <= 2
         /\ \A f \in DOMAIN call'.ret.fields :
              call'.ret.fields[f] = "value" \/ (f = "commit" /\ f \in call'.ret.reasons)
<1>1. PICK e \in Entries, r \in Runs : Call("reproduce", [entry |-> e, run |-> r], apply_to(r, e))
  BY Zenon DEF Reproduce
<1> DEFINE x == apply_to(r, e)
<1>2. call'.args.run = r /\ call'.ret = x
  BY <1>1 DEF Call
<1>3. Entry(e)
  BY DEF Entries, Entry
<1>4. /\ x.role = e.role /\ x.tolerance = e.tolerance /\ x.fields = e.fields /\ x.reasons = e.reasons
  <2> DEFINE observed == r.observed
             dev == deviation(r)
             ready == IF reproduced(r) THEN "READY" ELSE "UNREPRODUCED"
  <2>1. x = [e EXCEPT !.reproduced = observed, !.deviation = dev, !.status = ready]
    BY Zenon DEF apply_to
  <2> HIDE DEF x, observed, dev, ready
  <2> QED BY <1>3, <2>1 DEF Entry
<1>5. EntryEarned(x, r)
  BY <1>2, <1>3, <1>4, EligibleWasReproduced
<1>6. /\ e.tolerance \in {0, 1} /\ e.fields \in [{"commit", "license"} -> {"value", "", "NOT_REQUIRED"}]
      /\ e.reasons \in {{}, {"commit"}}
  BY DEF Entries
<1> HIDE DEF x
<1>7. Tolerance(x) \in 1 .. 2
  <2>1. x.tolerance \in {0, 1}
    BY <1>4, <1>6
  <2> QED BY <2>1 DEF Tolerance
<1>8. r.observed \in Int /\ r.expected \in Int
  BY DEF Runs, NoMetric
<1>9. Magnitude(r.observed - r.expected) <= 2
  <2> DEFINE d == r.observed - r.expected
  <2>1. d \in Int /\ Magnitude(d) <= Tolerance(x)
    BY <1>5, <1>8 DEF EntryEarned
  <2> HIDE DEF d
  <2>2. Magnitude(d) \in Int
    BY <2>1 DEF Magnitude
  <2>3. Magnitude(d) <= 2
    BY <1>7, <2>1, <2>2
  <2> QED BY <2>3 DEF d
<1>10. ASSUME NEW f \in DOMAIN x.fields
       PROVE  x.fields[f] = "value" \/ (f = "commit" /\ f \in x.reasons)
  <2>1. x.fields[f] # "" /\ ~ (x.fields[f] = "NOT_REQUIRED" /\ f \notin (x.reasons \cap Reasoned))
    <3>1. unresolved(x) = {}
      BY <1>5 DEF EntryEarned
    <3> QED BY <3>1 DEF unresolved
  <2>2. f \in {"commit", "license"} /\ x.fields[f] \in {"value", "", "NOT_REQUIRED"}
    BY <1>4, <1>6
  <2>3. x.fields[f] = "NOT_REQUIRED" => f \in x.reasons /\ f \in Reasoned
    BY <2>1
  <2>4. f \in Reasoned => f # "license"
    BY DEF Reasoned
  <2> QED BY <2>1, <2>2, <2>3, <2>4
<1> QED BY <1>2, <1>5, <1>9, <1>10 DEF EntryEarned

(* A sequence made of a finite set lists each of its members once.           *)
LEMMA SetToSeqLists ==
  ASSUME NEW S, IsFiniteSet(S)
  PROVE  /\ DOMAIN SetToSeq(S) = 1 .. Cardinality(S)
         /\ \A i \in DOMAIN SetToSeq(S) : SetToSeq(S)[i] \in S
         /\ \A i, j \in DOMAIN SetToSeq(S) : SetToSeq(S)[i] = SetToSeq(S)[j] => i = j
         /\ \A x \in S : \E i \in DOMAIN SetToSeq(S) : SetToSeq(S)[i] = x
<1> DEFINE n == Cardinality(S)
           f == SetToSeq(S)
<1>1. \E g \in [1 .. n -> S] : IsInjective(g)
  <2>1. ExistsBijection(1 .. n, S)
    BY FS_CardinalityType
  <2> QED BY <2>1 DEF ExistsBijection, Bijection, Injection
<1>2. f \in [1 .. n -> S] /\ IsInjective(f)
  BY <1>1, Zenon DEF SetToSeq
<1> HIDE DEF f
<1>3. f \in Injection(1 .. n, S)
  BY <1>2 DEF Injection
<1>4. n \in Nat /\ IsFiniteSet(1 .. n) /\ Cardinality(1 .. n) = n
  <2>1. n \in Nat
    BY FS_CardinalityType
  <2> HIDE DEF n
  <2>2. 1 \in Int /\ n \in Int
    BY <2>1
  <2>3. IsFiniteSet(1 .. n) /\ Cardinality(1 .. n) = IF 1 > n THEN 0 ELSE n - 1 + 1
    BY <2>2, FS_Interval
  <2> QED BY <2>1, <2>3
<1>5. f \in Surjection(1 .. n, S)
  <2> DEFINE I == 1 .. n
  <2>1. IsFiniteSet(I) /\ Cardinality(I) = Cardinality(S) /\ f \in Injection(I, S)
    BY <1>3, <1>4
  <2> HIDE DEF I
  <2>2. Cardinality(I) = Cardinality(S) <=> f \in Surjection(I, S)
    BY <2>1, FS_Injection
  <2> QED BY <2>1, <2>2 DEF I
<1> HIDE DEF n
<1>6. \A x \in S : \E i \in 1 .. n : f[i] = x
  BY <1>5 DEF Surjection
<1>7. \A i, j \in DOMAIN f : f[i] = f[j] => i = j
  BY <1>2 DEF IsInjective
<1> QED BY <1>2, <1>6, <1>7 DEF f, n

(* Comparisons of different comparators, with which numbers of families      *)
(* compare.                                                                  *)
ComparedOnce(comparisons) ==
  /\ IsFiniteSet(DOMAIN comparisons)
  /\ \A i, j \in DOMAIN comparisons : comparisons[i].comparator = comparisons[j].comparator => i = j
WonEnough(won, eligible, fam, required, families) ==
  /\ won \subseteq eligible
  /\ Cardinality(families_of(won, fam)) >= families
  /\ IF Cardinality(families_of(eligible, fam)) = families THEN won = eligible
     ELSE Cardinality(won) >= required

LEMMA FamiliesAreFewer ==
  ASSUME NEW S, IsFiniteSet(S), NEW fam
  PROVE  /\ IsFiniteSet(families_of(S, fam)) /\ Cardinality(families_of(S, fam)) \in Nat
         /\ Cardinality(families_of(S, fam)) <= Cardinality(S) /\ Cardinality(S) \in Nat
<1> DEFINE g == [n \in S |-> IF n \in DOMAIN fam THEN fam[n] ELSE n]
           F == {g[n] : n \in S}
<1>1. families_of(S, fam) = F
  BY DEF families_of
<1>2. IsFiniteSet(F) /\ Cardinality(F) <= Cardinality(S)
  <2> HIDE DEF g
  <2> QED BY FiniteImage
<1>3. Cardinality(F) \in Nat /\ Cardinality(S) \in Nat
  BY <1>2, FS_CardinalityType
<1> QED BY <1>1, <1>2, <1>3

(* superiority.evaluate: a claim that is permitted was won against enough    *)
(* eligible comparators of enough families, and against all of them where     *)
(* there are just as many families as a claim needs; for any comparators,    *)
(* each compared once, any families and any numbers that are asked for.      *)
THEOREM SuperiorityIsWon ==
  ASSUME NEW comparisons, ComparedOnce(comparisons), NEW eligible, IsFiniteSet(eligible),
         NEW registered, NEW fam, NEW required, NEW families,
         evaluate_superiority(comparisons, eligible, registered, fam, required, families).permitted
  PROVE  WonEnough(Winners(comparisons, eligible), eligible, fam, required, families)
<1> DEFINE W == WonBy(comparisons, eligible)
           won == Winners(comparisons, eligible)
           n == Cardinality(W)
           needed == wins_needed(eligible, fam, required, families)
<1>1. n >= needed /\ Cardinality(families_of(won, fam)) >= families
  BY DEF evaluate_superiority
<1>2. won \subseteq eligible
  BY DEF Winners, WonBy
<1>3. IsFiniteSet(W) /\ \A i, j \in W : comparisons[i].comparator = comparisons[j].comparator => i = j
  <2>1. W \in SUBSET (DOMAIN comparisons)
    BY DEF WonBy
  <2> HIDE DEF W
  <2> QED BY <2>1, FS_Subset DEF ComparedOnce
<1>4. Cardinality(won) = n
  <2> DEFINE g == [i \in W |-> comparisons[i].comparator]
  <2>1. g \in Surjection(W, won) /\ \A i, j \in W : g[i] = g[j] => i = j
    BY <1>3 DEF Surjection, Winners
  <2> HIDE DEF W, won, g
  <2>2. g \in Injection(W, won)
    BY <2>1 DEF Injection, IsInjective, Surjection
  <2>3. Cardinality(won) = Cardinality(W) <=> g \in Injection(W, won)
    BY <1>3, <2>1, FS_Surjection
  <2> QED BY <2>2, <2>3
<1> HIDE DEF W, won
<1>5. needed = IF Cardinality(families_of(eligible, fam)) = families THEN Cardinality(eligible) ELSE required
  BY Zenon DEF wins_needed
<1> HIDE DEF n, needed
<1>6. ASSUME Cardinality(families_of(eligible, fam)) = families PROVE won = eligible
  <2>1. Cardinality(won) >= Cardinality(eligible)
    BY <1>1, <1>4, <1>5, <1>6
  <2>2. Cardinality(won) <= Cardinality(eligible) /\ IsFiniteSet(won)
    BY <1>2, FS_Subset
  <2>3. Cardinality(won) \in Nat /\ Cardinality(eligible) \in Nat
    BY <2>2, FS_CardinalityType
  <2>4. Cardinality(eligible) = Cardinality(won)
    BY <2>1, <2>2, <2>3
  <2> QED BY <1>2, <2>4, FS_Subset
<1>7. Cardinality(families_of(eligible, fam)) # families => Cardinality(won) >= required
  BY <1>1, <1>4, <1>5
<1> QED BY <1>1, <1>2, <1>6, <1>7 DEF WonEnough, won

LEMMA SuperiorityCalls ==
  ASSUME Superiority, call'.ret.permitted
  PROVE  LET won == {m \in call'.args.eligible : call'.args.result[m] = "won"}
         IN  /\ Cardinality(won) >= 3 /\ Cardinality(families_of(won, Families)) >= 3
             /\ (Cardinality(families_of(call'.args.eligible, Families)) = 3 => won = call'.args.eligible)
<1>1. PICK result \in [Methods -> {"won", "lost", "unrun"}], eligible \in SUBSET Methods :
        LET run == SetToSeq({m \in Methods : result[m] # "unrun"})
        IN  Call("superiority", [result |-> result, eligible |-> eligible],
                 evaluate_superiority([i \in DOMAIN run |-> [comparator |-> run[i], win |-> result[run[i]] = "won"]],
                                      eligible, Methods, Families, 3, 3))
  BY Zenon DEF Superiority
<1> DEFINE tried == {m \in Methods : result[m] # "unrun"}
           run == SetToSeq(tried)
           comparisons == [i \in DOMAIN run |-> [comparator |-> run[i], win |-> result[run[i]] = "won"]]
           won == {m \in eligible : result[m] = "won"}
           three == 3
           verdict == evaluate_superiority(comparisons, eligible, Methods, Families, three, three)
<1>2. call'.args.eligible = eligible /\ call'.args.result = result /\ call'.ret = verdict
  BY <1>1 DEF Call
<1>3. IsFiniteSet(Methods) /\ IsFiniteSet(tried) /\ IsFiniteSet(eligible)
  <2>1. IsFiniteSet(Methods)
    <3>1. Methods = (({} \cup {"a"}) \cup {"b"}) \cup ({"c"} \cup {"d"})
      BY DEF Methods
    <3>2. IsFiniteSet({"a"}) /\ IsFiniteSet({"b"}) /\ IsFiniteSet({"c"}) /\ IsFiniteSet({"d"}) /\ IsFiniteSet({})
      BY FS_Singleton, FS_EmptySet
    <3> QED BY <3>1, <3>2, FS_Union, Zenon
  <2>2. tried \in SUBSET Methods /\ eligible \in SUBSET Methods
    OBVIOUS
  <2> HIDE DEF tried
  <2> QED BY <2>1, <2>2, FS_Subset
<1> HIDE DEF run
<1>4. /\ DOMAIN run = 1 .. Cardinality(tried)
      /\ \A i \in DOMAIN run : run[i] \in tried
      /\ \A i, j \in DOMAIN run : run[i] = run[j] => i = j
      /\ \A x \in tried : \E i \in DOMAIN run : run[i] = x
  <2> HIDE DEF tried
  <2> QED BY <1>3, SetToSeqLists DEF run
<1>5. ComparedOnce(comparisons)
  <2>1. Cardinality(tried) \in Nat
    BY <1>3, FS_CardinalityType
  <2>2. IsFiniteSet(1 .. Cardinality(tried))
    <3> DEFINE n == Cardinality(tried)
    <3>1. 1 \in Int /\ n \in Int
      BY <2>1
    <3> HIDE DEF n
    <3>2. IsFiniteSet(1 .. n)
      BY <3>1, FS_Interval
    <3> QED BY <3>2 DEF n
  <2>3. IsFiniteSet(DOMAIN run)
    BY <1>4, <2>2
  <2> HIDE DEF tried
  <2> QED BY <1>4, <2>3 DEF ComparedOnce
<1>6. Winners(comparisons, eligible) = won
  <2>1. \A i \in DOMAIN comparisons : comparisons[i].comparator = run[i] /\ comparisons[i].win = (result[run[i]] = "won")
    OBVIOUS
  <2>2. \A m \in won : m \in tried
    OBVIOUS
  <2>3. DOMAIN comparisons = DOMAIN run
    OBVIOUS
  <2> DEFINE Win(i) == result[run[i]] = "won"
  <2>4. \A m : m \in won <=> m \in eligible /\ result[m] = "won"
    OBVIOUS
  <2>5. WonBy(comparisons, eligible) = {i \in DOMAIN run : run[i] \in won}
    BY <2>1, <2>3 DEF WonBy
  <2> HIDE DEF comparisons, won, tried
  <2>6. Winners(comparisons, eligible) = {run[i] : i \in {j \in DOMAIN run : run[j] \in won}}
    BY <2>1, <2>3, <2>5 DEF Winners
  <2> QED BY <1>4, <2>2, <2>6
<1> HIDE DEF comparisons, tried, won, three
<1>7. WonEnough(won, eligible, Families, three, three)
  BY <1>2, <1>3, <1>5, <1>6, SuperiorityIsWon
<1>8. /\ Cardinality(families_of(eligible, Families)) \in Nat
      /\ Cardinality(families_of(eligible, Families)) <= Cardinality(eligible) /\ Cardinality(eligible) \in Nat
  BY <1>3, FamiliesAreFewer
<1>9. /\ Cardinality(families_of(won, Families)) >= three
      /\ IF Cardinality(families_of(eligible, Families)) = three THEN won = eligible ELSE Cardinality(won) >= three
  BY <1>7 DEF WonEnough
<1>10. Cardinality(won) >= three
  BY <1>8, <1>9 DEF three
<1> QED BY <1>2, <1>9, <1>10 DEF three, won

(* Outcome differences by comparator over documents D, and replicates that   *)
(* each draw k documents.                                                    *)
Sampled(diffs, D, draws, k) ==
  /\ IsFiniteSet(DOMAIN diffs) /\ DOMAIN diffs # {} /\ IsFiniteSet(D) /\ k \in Nat
  /\ \A c \in DOMAIN diffs : DOMAIN diffs[c] = D /\ \A d \in D : diffs[c][d] \in Int
  /\ draws \in Seq([1 .. k -> D]) /\ draws # <<>>

LEMMA SumFunctionOf ==
  ASSUME NEW f, IsFiniteSet(DOMAIN f), \A x \in DOMAIN f : f[x] \in Int
  PROVE  SumFunction(f) \in Int
<1>1. SumFunction(f) = SumOver(f, DOMAIN f)
  BY Zenon DEF SumFunction, SumFunctionOnSet, FoldFunctionOnSet, MapThenFoldSet, SumOver, MapThenSumSet
<1> QED BY <1>1, SumIsInt

LEMMA DeviationsAre ==
  ASSUME NEW diffs, NEW D, NEW draws, NEW k, Sampled(diffs, D, draws, k), NEW i \in DOMAIN draws
  PROVE  /\ \A c \in DOMAIN diffs : Point(diffs[c]) \in Int /\ BootSum(diffs[c], draws[i]) \in Int
         /\ MaxDeviation(diffs, draws[i]) \in Int
         /\ \A c \in DOMAIN diffs :
              Point(diffs[c]) - BootSum(diffs[c], draws[i]) <= MaxDeviation(diffs, draws[i])
<1> DEFINE draw == draws[i]
           C == DOMAIN diffs
           dev == [c \in C |-> Point(diffs[c]) - BootSum(diffs[c], draw)]
           S == {dev[c] : c \in C}
<1>1. /\ IsFiniteSet(C) /\ C # {} /\ IsFiniteSet(D) /\ k \in Nat
      /\ \A c \in C : DOMAIN diffs[c] = D /\ \A d \in D : diffs[c][d] \in Int
  BY DEF Sampled
<1>2. draw \in [1 .. k -> D]
  BY DEF Sampled
<1> HIDE DEF draw, C
<1>3. IsFiniteSet(1 .. k)
  <2>1. 1 \in Int /\ k \in Int
    BY <1>1
  <2> QED BY <2>1, FS_Interval
<1>4. ASSUME NEW c \in C PROVE Point(diffs[c]) \in Int /\ BootSum(diffs[c], draw) \in Int
  <2>1. Point(diffs[c]) \in Int
    BY <1>1, SumFunctionOf DEF Point
  <2> DEFINE g == [j \in DOMAIN draw |-> diffs[c][draw[j]]]
  <2>2. DOMAIN g = 1 .. k /\ \A j \in DOMAIN g : g[j] \in Int
    BY <1>1, <1>2
  <2> HIDE DEF g
  <2>3. SumFunction(g) \in Int
    BY <1>3, <2>2, SumFunctionOf
  <2> QED BY <2>1, <2>3 DEF BootSum, g
<1>5. MaxDeviation(diffs, draw) = Max(S)
  BY DEF MaxDeviation, C
<1>6. IsFiniteSet(S) /\ S \subseteq Int /\ S # {}
  <2>1. \A c \in C : dev[c] \in Int
    BY <1>4
  <2> HIDE DEF dev
  <2> QED BY <1>1, <2>1, FiniteImage
<1>7. \A c \in C : Point(diffs[c]) - BootSum(diffs[c], draw) \in S
  OBVIOUS
<1> HIDE DEF S
<1>8. Max(S) \in S /\ \A x \in S : x <= Max(S)
  BY <1>6, MaxIsGreatest
<1>9. MaxDeviation(diffs, draw) \in Int
  BY <1>5, <1>6, <1>8
<1> QED BY <1>4, <1>5, <1>7, <1>8, <1>9 DEF C, draw

(* run_paired_document_bootstrap: the simultaneous lower bound of a          *)
(* comparator, made with the worst deviation of each replicate, is never     *)
(* above its marginal one; for any comparators, outcomes and draws.          *)
THEOREM SimultaneousIsStricter ==
  ASSUME NEW diffs, NEW D, NEW draws, NEW k, Sampled(diffs, D, draws, k), NEW c \in DOMAIN diffs
  PROVE  /\ SimultaneousBound(diffs, c, draws) \in Int /\ MarginalBound(diffs, c, draws) \in Int
         /\ SimultaneousBound(diffs, c, draws) <= MarginalBound(diffs, c, draws)
<1> DEFINE n == Len(draws)
           f == [i \in DOMAIN draws |-> Point(diffs[c]) - BootSum(diffs[c], draws[i])]
           g == [i \in DOMAIN draws |-> MaxDeviation(diffs, draws[i])]
           z == 0
           p == 950
           P == Percentile(f, n, p)
           Q == Percentile(g, n, p)
           x == Point(diffs[c])
<1>1. n \in Nat \ {0} /\ DOMAIN draws = 1 .. n
  BY DEF Sampled
<1>2. IsFiniteSet(DOMAIN draws) /\ Cardinality(DOMAIN draws) = n
  <2>1. 1 \in Int /\ n \in Int /\ ~ (1 > n) /\ n - 1 + 1 = n
    BY <1>1
  <2> HIDE DEF n
  <2>2. IsFiniteSet(1 .. n) /\ Cardinality(1 .. n) = IF 1 > n THEN 0 ELSE n - 1 + 1
    BY <2>1, FS_Interval
  <2> QED BY <1>1, <2>1, <2>2
<1>3. x \in Int /\ \A i \in DOMAIN draws : f[i] \in Int /\ g[i] \in Int /\ f[i] + z <= g[i]
  <2>1. 1 \in DOMAIN draws
    BY <1>1
  <2>2. x \in Int
    BY <2>1, DeviationsAre
  <2>3. ASSUME NEW i \in DOMAIN draws PROVE f[i] \in Int /\ g[i] \in Int /\ f[i] + z <= g[i]
    BY DeviationsAre
  <2> QED BY <2>2, <2>3
<1>4. DOMAIN f = DOMAIN draws /\ DOMAIN g = DOMAIN draws
  OBVIOUS
<1>5. SimultaneousBound(diffs, c, draws) = 1000 * x - Q /\ MarginalBound(diffs, c, draws) = 1000 * x - P
  BY Zenon DEF SimultaneousBound, MarginalBound
<1>6. z \in Int /\ z = 0
  OBVIOUS
<1>7. InOrder(p, p)
  BY DEF InOrder
<1> HIDE DEF n, f, g, z, p, x
<1>8. Greater(g, f, n, z)
  BY <1>1, <1>2, <1>3, <1>4, <1>6 DEF Greater, IsSample, Integers
<1>9. GreaterAt(g, f, n, z, p, p)
  BY <1>7, <1>8, PercentileGrows
<1>10. P \in Int /\ Q \in Int /\ P + 1000 * z <= Q
  BY <1>9 DEF GreaterAt
<1> HIDE DEF P, Q
<1> QED BY <1>3, <1>5, <1>6, <1>10
BoundsCompare(diffs, draws, verdict) ==
  \A c \in DOMAIN diffs :
    /\ SimultaneousBound(diffs, c, draws) <= MarginalBound(diffs, c, draws)
    /\ verdict = "PASS" => MarginalBound(diffs, c, draws) > 0

LEMMA BootstrapCalls ==
  ASSUME Bootstrap
  PROVE  BoundsCompare(call'.args.diffs, call'.args.draws, call'.ret.verdict)
<1>1. PICK ours \in [1..2 -> 0..2], theirs \in [{"a", "b"} -> [1..2 -> 0..1]],
           draws \in [1..2 -> [1..2 -> 1..2]], min_ready \in {2, 3}, min_docs \in {2, 3} :
        Call("bootstrap", [diffs |-> [c \in {"a", "b"} |-> Differences(ours, theirs[c], {1, 2})],
                           draws |-> draws],
             paired_bootstrap(ours, ours, theirs, theirs, draws, min_ready, min_docs))
  BY Zenon DEF Bootstrap
<1> DEFINE C == {"a", "b"}
           D == {1, 2}
           diffs == [c \in C |-> Differences(ours, theirs[c], D)]
           result == paired_bootstrap(ours, ours, theirs, theirs, draws, min_ready, min_docs)
<1>2. call'.args.diffs = diffs /\ call'.args.draws = draws /\ call'.ret = result
  BY <1>1 DEF Call
<1>3. IsFiniteSet(C) /\ C # {} /\ DOMAIN theirs = C /\ \A c \in C : theirs[c] \in [1 .. 2 -> 0 .. 1]
  <2>1. IsFiniteSet({"a"}) /\ IsFiniteSet({"b"})
    BY FS_Singleton
  <2>2. IsFiniteSet({"a"} \cup {"b"})
    BY <2>1, FS_Union
  <2>3. C = {"a"} \cup {"b"}
    OBVIOUS
  <2>4. IsFiniteSet(C)
    BY <2>2, <2>3, Zenon
  <2> QED BY <2>4
<1>4. D = 1 .. 2 /\ IsFiniteSet(D)
  BY TwoAreFinite
<1> HIDE DEF C, D
<1>5. ASSUME NEW c \in C
      PROVE  diffs[c] = [d \in D |-> ours[d] - theirs[c][d]]
  BY DEF Differences
<1>6. Sampled(diffs, D, draws, 2)
  <2>1. \A c \in C : DOMAIN diffs[c] = D /\ \A d \in D : diffs[c][d] \in Int
    <3>1. ASSUME NEW c \in C PROVE DOMAIN diffs[c] = D /\ \A d \in D : diffs[c][d] \in Int
      <4> DEFINE their == theirs[c]
      <4>1. their \in [1 .. 2 -> 0 .. 1]
        BY <1>3
      <4>2. \A d \in D : ours[d] \in Int /\ their[d] \in Int
        BY <1>4, <4>1
      <4> HIDE DEF their
      <4>3. \A d \in D : ours[d] - their[d] \in Int
        BY <4>2
      <4>4. diffs[c] = [d \in D |-> ours[d] - their[d]]
        BY <1>5 DEF their
      <4> HIDE DEF diffs
      <4> QED BY <4>3, <4>4
    <3> QED BY <3>1
  <2>2. DOMAIN diffs = C
    OBVIOUS
  <2>3. draws \in Seq([1 .. 2 -> D]) /\ draws # <<>>
    <3> DEFINE X == [1 .. 2 -> D]
    <3>1. draws \in [1 .. 2 -> X]
      BY <1>4
    <3> HIDE DEF X
    <3>2. Seq(X) = UNION {[1 .. n -> X] : n \in Nat}
      BY SeqDef, Zenon
    <3>3. draws \in Seq(X)
      BY <3>1, <3>2
    <3>4. 1 \in DOMAIN draws /\ DOMAIN <<>> = {}
      BY <3>1
    <3> QED BY <3>3, <3>4 DEF X
  <2> HIDE DEF diffs
  <2> QED BY <1>3, <1>4, <2>1, <2>2, <2>3 DEF Sampled
<1>7. common_docs(ours, theirs) \cap common_docs(ours, theirs) = D
  <2>1. \A c \in C : DOMAIN theirs[c] = D
    BY <1>3, <1>4
  <2>2. DOMAIN ours = D
    BY <1>4
  <2> QED BY <1>3, <2>1, <2>2 DEF common_docs
<1> DEFINE wins == {c \in C : SimultaneousBound(diffs, c, draws) > 0 /\ SimultaneousBound(diffs, c, draws) > 0}
           eligible == Cardinality(C) >= min_ready
           pass == "PASS"
<1>8. result = IF C = {} \/ Cardinality(D) < min_docs THEN [verdict |-> "BootstrapDataIntegrityError"]
               ELSE [simultaneous_wins |-> wins, headline_sota_eligible |-> eligible,
                     verdict |-> IF ~eligible THEN "INELIGIBLE"
                                 ELSE IF wins = C THEN pass ELSE "NOT_ESTABLISHED"]
  <2> DEFINE docs == common_docs(ours, theirs) \cap common_docs(ours, theirs)
             dA == [c \in DOMAIN theirs |-> Differences(ours, theirs[c], docs)]
             both == {c \in DOMAIN theirs : SimultaneousBound(dA, c, draws) > 0 /\ SimultaneousBound(dA, c, draws) > 0}
             ready == Cardinality(DOMAIN theirs) >= min_ready
  <2>1. result = IF DOMAIN theirs = {} \/ Cardinality(docs) < min_docs
                 THEN [verdict |-> "BootstrapDataIntegrityError"]
                 ELSE [simultaneous_wins |-> both, headline_sota_eligible |-> ready,
                       verdict |-> IF ~ready THEN "INELIGIBLE"
                                   ELSE IF both = DOMAIN theirs THEN pass ELSE "NOT_ESTABLISHED"]
    BY Zenon DEF paired_bootstrap
  <2>2. docs = D /\ DOMAIN theirs = C
    BY <1>3, <1>7
  <2> HIDE DEF docs
  <2>3. dA = diffs /\ (ready <=> eligible)
    BY <2>2, Zenon
  <2> HIDE DEF dA, diffs
  <2>4. both = wins
    BY <2>2, <2>3, Zenon
  <2> HIDE DEF both, wins
  <2> QED BY <2>1, <2>2, <2>3, <2>4, Zenon
<1>9. DOMAIN diffs = C
  OBVIOUS
<1> HIDE DEF result, diffs, eligible
<1>10. ASSUME result.verdict = pass PROVE wins = C
  <2> HIDE DEF wins
  <2>1. CASE C = {} \/ Cardinality(D) < min_docs
    BY <1>8, <1>10, <2>1
  <2>2. CASE ~ (C = {} \/ Cardinality(D) < min_docs)
    <3>1. result.verdict = IF ~eligible THEN "INELIGIBLE" ELSE IF wins = C THEN pass ELSE "NOT_ESTABLISHED"
      BY <1>8, <2>2
    <3>2. pass # "INELIGIBLE" /\ pass # "NOT_ESTABLISHED"
      OBVIOUS
    <3> QED BY <1>10, <3>1, <3>2
  <2> QED BY <2>1, <2>2
<1>11. ASSUME NEW c \in C
       PROVE  /\ SimultaneousBound(diffs, c, draws) <= MarginalBound(diffs, c, draws)
              /\ result.verdict = pass => MarginalBound(diffs, c, draws) > 0
  <2> DEFINE s == SimultaneousBound(diffs, c, draws)
             m == MarginalBound(diffs, c, draws)
             two == 2
  <2>1. Sampled(diffs, D, draws, two) /\ c \in DOMAIN diffs
    BY <1>6, <1>9
  <2> HIDE DEF two
  <2>2. s \in Int /\ m \in Int /\ s <= m
    BY <2>1, SimultaneousIsStricter
  <2>3. result.verdict = pass => s > 0
    BY <1>10
  <2> HIDE DEF s, m
  <2>4. result.verdict = pass => m > 0
    BY <2>2, <2>3
  <2> QED BY <2>2, <2>4 DEF s, m
<1>12. BoundsCompare(diffs, draws, result.verdict)
  <2> HIDE DEF wins, pass
  <2>1. pass = "PASS"
    BY DEF pass
  <2> QED BY <1>9, <1>11, <2>1, Zenon DEF BoundsCompare
<1> QED BY <1>2, <1>12

(* A manuscript that owes nothing, and a manifest in which nothing is amiss. *)
Whole(tex, targets, files, m) ==
  /\ ~tex.tbd /\ tex.phfig = {} /\ Owed(tex, targets) \subseteq files
  /\ m.asked => m.present
  /\ m.present => Names(Owed(tex, targets)) \subseteq Names(DOMAIN m.entries) /\ unprovenanced(m) = {}

(* check_manuscript and run_export: a strict export that succeeds, and is    *)
(* not a mock, is of a manuscript that owes no asset and hides no            *)
(* placeholder, with nothing amiss in the manifest that was asked for; for   *)
(* any manuscript, targets, files and manifest.                              *)
THEOREM ExportedIsWhole ==
  ASSUME NEW tex, NEW targets, NEW files, NEW m, NEW log, NEW others, NEW mock, NEW strict, strict,
         run_export(check_manuscript(tex, targets, {}, files, m, log, strict), others, TRUE, mock) = "EXECUTED"
  PROVE  Whole(tex, targets, files, m)
<1> DEFINE none == ""
           a == IF tex.tbd THEN "tbd" ELSE none
           b == IF tex.phfig \ {} # {} THEN "phfig" ELSE none
           c == IF Owed(tex, targets) \subseteq files THEN none ELSE "missing"
           d == IF m.asked /\ ~m.present THEN "no manifest" ELSE none
           e == IF m.present /\ ~(Names(Owed(tex, targets)) \subseteq Names(DOMAIN m.entries))
                THEN "unrecorded" ELSE none
           f == IF log THEN "undefined" ELSE none
           g == IF m.present /\ unprovenanced(m) # {} THEN "unprovenanced" ELSE none
           failures == check_manuscript(tex, targets, {}, files, m, log, strict)
           end == "EXECUTED"
<1>0. run_export(failures, others, TRUE, mock) = end
  OBVIOUS
<1>1. failures = ((IF strict THEN {a, b, c, d, e} ELSE {}) \cup {f, g}) \ {none}
  BY Zenon DEF check_manuscript
<1> HIDE DEF failures
<1>2. failures = {}
  <2> SUFFICES ASSUME failures # {} PROVE FALSE
    OBVIOUS
  <2>1. run_export(failures, others, TRUE, mock) \in {"PLANNED", "MOCK_VERIFIED", "FAILED_CHECK"}
    BY DEF run_export
  <2> QED BY <1>0, <2>1
<1> HIDE DEF end, a, b, c, d, e, f, g, none
<1>3. a = none /\ b = none /\ c = none /\ d = none /\ e = none /\ g = none
  BY <1>1, <1>2
<1>4. none # "tbd" /\ none # "phfig" /\ none # "missing" /\ none # "no manifest" /\ none # "unrecorded" /\ none # "unprovenanced"
  BY DEF none
<1>5. ~tex.tbd
  BY <1>3, <1>4 DEF a
<1>6. tex.phfig = {}
  BY <1>3, <1>4 DEF b
<1>7. Owed(tex, targets) \subseteq files
  BY <1>3, <1>4 DEF c
<1>8. m.asked => m.present
  BY <1>3, <1>4 DEF d
<1>9. m.present => Names(Owed(tex, targets)) \subseteq Names(DOMAIN m.entries)
  BY <1>3, <1>4 DEF e
<1>10. m.present => unprovenanced(m) = {}
  BY <1>3, <1>4 DEF g
<1> QED BY <1>5, <1>6, <1>7, <1>8, <1>9, <1>10 DEF Whole

(* A manifest with entries was asked for and is there, and what stamping the  *)
(* files may take from its gaps.                                              *)
Recordable(m) == DOMAIN m.entries # {} => m.asked = TRUE /\ m.present = TRUE
Stamped(s, m, files) ==
  /\ s.asked = m.asked /\ s.present = m.present /\ DOMAIN s.entries = DOMAIN m.entries
  /\ \A x \in DOMAIN m.entries :
       m.entries[x] \ (IF x \in files THEN {"artifact_sha256"} ELSE {}) \subseteq s.entries[x]

LEMMA StampIs ==
  ASSUME NEW m, Recordable(m), NEW a, NEW files
  PROVE  Recordable(stamp(m, a, files)) /\ Stamped(stamp(m, a, files), m, files)
<1> DEFINE s == stamp(m, a, files)
           sha == {"artifact_sha256"}
           E == [m.entries EXCEPT ![a] = @ \ sha]
<1>1. CASE a \in DOMAIN m.entries /\ a \in files
  <2>1. s = [asked |-> TRUE, present |-> TRUE, entries |-> E]
    BY <1>1, Zenon DEF stamp, Manifest
  <2>2. DOMAIN E = DOMAIN m.entries /\ \A x \in DOMAIN m.entries : E[x] = IF x = a THEN m.entries[x] \ sha ELSE m.entries[x]
    BY <1>1
  <2> HIDE DEF s, E, sha
  <2>3. s.asked = TRUE /\ s.present = TRUE /\ s.entries = E
    BY <2>1
  <2>4. m.asked = TRUE /\ m.present = TRUE
    BY <1>1 DEF Recordable
  <2>5. ASSUME NEW x \in DOMAIN m.entries
        PROVE  m.entries[x] \ (IF x \in files THEN sha ELSE {}) \subseteq E[x]
    BY <1>1, <2>2
  <2> QED BY <2>2, <2>3, <2>4, <2>5, Zenon DEF Recordable, Stamped, s, sha
<1>2. CASE ~ (a \in DOMAIN m.entries /\ a \in files)
  <2>1. s = m
    BY <1>2, Zenon DEF stamp
  <2> HIDE DEF s
  <2>2. Stamped(m, m, files)
    BY DEF Stamped
  <2> QED BY <2>1, <2>2 DEF s
<1> QED BY <1>1, <1>2

ExportIsWhole(tex, files, m) ==
  /\ ~tex.tbd /\ tex.phfig = {} /\ (m.asked => m.present)
  /\ \A l \in tex.labels \cap DOMAIN Targets :
       Targets[l] \in files /\ (m.asked => Targets[l] \in DOMAIN m.entries)
  /\ \A x \in DOMAIN m.entries :
       m.entries[x] = {} \/ (m.entries[x] = {"artifact_sha256"} /\ x \in files)

LEMMA StampedIsWhole ==
  ASSUME NEW tex, NEW files, NEW m, NEW s, Recordable(m), DOMAIN m.entries \subseteq Assets,
         Stamped(s, m, files), Whole(tex, Targets, files, s)
  PROVE  ExportIsWhole(tex, files, m)
<1>1. /\ ~tex.tbd /\ tex.phfig = {} /\ (s.asked => s.present) /\ s.asked = m.asked /\ s.present = m.present
      /\ Owed(tex, Targets) \subseteq files
      /\ s.present => Names(Owed(tex, Targets)) \subseteq Names(DOMAIN s.entries) /\ unprovenanced(s) = {}
      /\ DOMAIN s.entries = DOMAIN m.entries
  BY DEF Whole, Stamped
<1>2. \A x, y \in Assets : x.name = y.name => x = y
  <2>1. \A x \in Assets : x = [dir |-> "figures", name |-> "x"] \/ x = [dir |-> "tables", name |-> "y"]
    BY DEF Assets
  <2> QED BY <2>1
<1>3. \A l \in DOMAIN Targets : Targets[l] \in Assets
  BY DEF Targets, Assets
<1>4. ASSUME NEW l \in tex.labels \cap DOMAIN Targets
      PROVE  Targets[l] \in files /\ (m.asked => Targets[l] \in DOMAIN m.entries)
  <2> DEFINE t == Targets[l]
  <2>1. t \in Owed(tex, Targets) /\ t \in Assets
    BY <1>3 DEF Owed
  <2>2. t.name \in Names(Owed(tex, Targets))
    BY <2>1 DEF Names
  <2> HIDE DEF t
  <2>3. ASSUME m.asked PROVE t \in DOMAIN m.entries
    <3>1. t.name \in Names(DOMAIN m.entries)
      BY <1>1, <2>2, <2>3
    <3>2. PICK y \in DOMAIN m.entries : y.name = t.name
      BY <3>1 DEF Names
    <3> QED BY <1>2, <2>1, <3>2
  <2> QED BY <1>1, <2>1, <2>3 DEF t
<1>5. ASSUME NEW x \in DOMAIN m.entries
      PROVE  m.entries[x] = {} \/ (m.entries[x] = {"artifact_sha256"} /\ x \in files)
  <2>1. m.present
    BY DEF Recordable
  <2>2. s.entries[x] = {}
    BY <1>1, <2>1 DEF unprovenanced
  <2>3. m.entries[x] \ (IF x \in files THEN {"artifact_sha256"} ELSE {}) \subseteq s.entries[x]
    BY DEF Stamped
  <2> QED BY <2>2, <2>3
<1> QED BY <1>1, <1>4, <1>5 DEF ExportIsWhole

LEMMA ManuscriptCalls ==
  ASSUME Manuscript, call'.args.strict, call'.ret = "EXECUTED"
  PROVE  ExportIsWhole(call'.args.tex, call'.args.files, call'.args.m)
<1>1. PICK tbd \in BOOLEAN, held \in SUBSET {"fig"}, labels \in SUBSET {"fig", "tab", "eq"},
           files \in SUBSET Assets, m \in Manifests, log \in BOOLEAN, strict \in BOOLEAN, mock \in BOOLEAN :
        LET tex == [tbd |-> tbd, phfig |-> held, labels |-> labels]
            stamped == stamp(stamp(m, Targets.fig, files), Targets.tab, files)
        IN  Call("manuscript", [tex |-> tex, files |-> files, m |-> m, strict |-> strict],
                 run_export(check_manuscript(tex, Targets, {}, files, stamped, log, strict), Targets, TRUE, mock))
  BY Zenon DEF Manuscript
<1> DEFINE tex == [tbd |-> tbd, phfig |-> held, labels |-> labels]
           first == stamp(m, Targets.fig, files)
           s == stamp(first, Targets.tab, files)
           end == run_export(check_manuscript(tex, Targets, {}, files, s, log, strict), Targets, TRUE, mock)
<1>2. /\ call'.args.tex = tex /\ call'.args.files = files /\ call'.args.m = m /\ call'.args.strict = strict
      /\ call'.ret = end
  BY <1>1 DEF Call
<1>3. strict /\ end = "EXECUTED"
  BY <1>2
<1>4. Recordable(m) /\ DOMAIN m.entries \subseteq Assets
  <2>1. CASE m = NotAsked \/ m = Absent
    BY <2>1 DEF NotAsked, Absent, Recordable
  <2>2. CASE \E g \in UNION {[A -> {{}, {"artifact_sha256"}, Gaps}] : A \in SUBSET Assets} : m = Manifest(g)
    BY <2>2 DEF Manifest, Recordable
  <2> QED BY <2>1, <2>2 DEF Manifests
<1> HIDE DEF tex, first, end
<1>5. Recordable(first) /\ Stamped(first, m, files)
  BY <1>4, StampIs DEF first
<1>6. Stamped(s, first, files)
  BY <1>5, StampIs
<1> HIDE DEF s
<1>7. Stamped(s, m, files)
  <2> DEFINE cut(x) == IF x \in files THEN {"artifact_sha256"} ELSE {}
  <2>1. \A x \in DOMAIN m.entries : m.entries[x] \ cut(x) \subseteq first.entries[x] /\ first.entries[x] \ cut(x) \subseteq s.entries[x]
    BY <1>5, <1>6, Zenon DEF Stamped
  <2>2. \A x \in DOMAIN m.entries : m.entries[x] \ cut(x) \subseteq s.entries[x]
    <3> HIDE DEF cut
    <3> QED BY <2>1
  <2> QED BY <1>5, <1>6, <2>2, Zenon DEF Stamped
<1>8. Whole(tex, Targets, files, s)
  BY <1>3, ExportedIsWhole DEF end
<1>9. ExportIsWhole(tex, files, m)
  BY <1>4, <1>7, <1>8, StampedIsWhole
<1> QED BY <1>2, <1>9

VerifiesItsDisk(paths, before, after, verified) ==
  verified <=> \A p \in paths : before[p] = after[p]

(* build_manifest and manifest_verifies: a manifest verifies exactly the disk *)
(* it was built from; for any paths and any hashes.                           *)
THEOREM ManifestIsOfItsDisk ==
  ASSUME NEW paths, NEW before, NEW after, paths \subseteq DOMAIN after
  PROVE  VerifiesItsDisk(paths, before, after, manifest_verifies(build_manifest(paths, before), after))
<1> DEFINE rows == {<<p, before[p]>> : p \in paths}
           m == build_manifest(paths, before)
<1>1. m.entries = rows /\ m.self_sha256 = rows
  BY DEF build_manifest
<1> HIDE DEF m
<1>2. manifest_verifies(m, after) <=> \A r \in rows : r[1] \in DOMAIN after /\ after[r[1]] = r[2]
  BY <1>1 DEF manifest_verifies
<1>3. (\A r \in rows : r[1] \in DOMAIN after /\ after[r[1]] = r[2])
        <=> \A p \in paths : p \in DOMAIN after /\ after[p] = before[p]
  <2>1. \A p : <<p, before[p]>>[1] = p /\ <<p, before[p]>>[2] = before[p]
    OBVIOUS
  <2>2. \A p \in paths : <<p, before[p]>> \in rows
    OBVIOUS
  <2>3. \A r \in rows : \E p \in paths : r = <<p, before[p]>>
    OBVIOUS
  <2> HIDE DEF rows
  <2>4. ASSUME \A r \in rows : r[1] \in DOMAIN after /\ after[r[1]] = r[2], NEW p \in paths
        PROVE  p \in DOMAIN after /\ after[p] = before[p]
    <3> DEFINE r == <<p, before[p]>>
    <3>1. r[1] \in DOMAIN after /\ after[r[1]] = r[2]
      BY <2>2, <2>4
    <3> QED BY <2>1, <3>1
  <2>5. ASSUME \A p \in paths : p \in DOMAIN after /\ after[p] = before[p], NEW r \in rows
        PROVE  r[1] \in DOMAIN after /\ after[r[1]] = r[2]
    <3>1. PICK p \in paths : r = <<p, before[p]>>
      BY <2>3
    <3> QED BY <2>1, <2>5, <3>1
  <2> QED BY <2>4, <2>5
<1> QED BY <1>2, <1>3 DEF m, VerifiesItsDisk

LEMMA FreezeCalls ==
  ASSUME Freeze
  PROVE  VerifiesItsDisk(call'.args.paths, call'.args.before, call'.args.after, call'.ret)
<1>1. PICK paths \in SUBSET (1 .. 2), before \in [1 .. 2 -> 1 .. 2], after \in [1 .. 2 -> 1 .. 2] :
        Call("manifest", [paths |-> paths, before |-> before, after |-> after],
             manifest_verifies(build_manifest(paths, before), after))
  BY Zenon DEF Freeze
<1>2. /\ call'.args.paths = paths /\ call'.args.before = before /\ call'.args.after = after
      /\ call'.ret = manifest_verifies(build_manifest(paths, before), after)
  BY <1>1 DEF Call
<1>3. paths \subseteq DOMAIN after
  OBVIOUS
<1>4. VerifiesItsDisk(paths, before, after, manifest_verifies(build_manifest(paths, before), after))
  BY <1>3, ManifestIsOfItsDisk
<1> QED BY <1>2, <1>4

(* What compress returns when it raises nothing.                             *)
Compressible(produced) == produced.tokens \in Int
Guarded(a, budget, leaks, enforce, ret) ==
  /\ a.status # "NOT_READY" /\ ~leaks
  /\ enforce => ret.tokens <= budget

(* BaseCompressor.compress: no text leaves an adapter that is not ready, is   *)
(* shown the focal value or overruns a budget that is enforced, whatever the  *)
(* method made of the document.                                               *)
THEOREM CompressedIsGuarded ==
  ASSUME NEW a, NEW produced, Compressible(produced), NEW budget \in Int, NEW leaks, NEW enforce,
         Gave(Compressed(a, produced, budget, leaks, enforce))
  PROVE  Guarded(a, budget, leaks, enforce, Compressed(a, produced, budget, leaks, enforce))
<1> DEFINE none == ""
           ret == Compressed(a, produced, budget, leaks, enforce)
           unready == a.status = "NOT_READY"
           over == enforce /\ produced.tokens > budget
<1>0. ret.raised = none
  BY DEF Gave
<1>1. ret = IF unready THEN [raised |-> "AdapterNotReady", tokens |-> 0]
            ELSE IF leaks THEN [raised |-> "FocalLeak", tokens |-> 0]
            ELSE IF produced.raised # none THEN produced
            ELSE IF over THEN [raised |-> "BudgetViolation", tokens |-> 0]
            ELSE produced
  BY Zenon DEF Compressed
<1>2. none # "AdapterNotReady" /\ none # "FocalLeak" /\ none # "BudgetViolation"
  OBVIOUS
<1> HIDE DEF ret, none, unready, over
<1>3. CASE unready
  <2>1. ret = [raised |-> "AdapterNotReady", tokens |-> 0]
    BY <1>1, <1>3, Zenon
  <2>2. ret.raised = "AdapterNotReady"
    BY <2>1
  <2> QED BY <1>0, <1>2, <2>2
<1>4. CASE ~unready /\ leaks
  <2>1. ret = [raised |-> "FocalLeak", tokens |-> 0]
    BY <1>1, <1>4, Zenon
  <2>2. ret.raised = "FocalLeak"
    BY <2>1
  <2> QED BY <1>0, <1>2, <2>2
<1>5. CASE ~unready /\ ~leaks /\ produced.raised # none
  <2>1. ret = produced
    BY <1>1, <1>5, Zenon
  <2> QED BY <1>0, <1>5, <2>1, Zenon
<1>6. CASE ~unready /\ ~leaks /\ produced.raised = none /\ over
  <2>1. ret = [raised |-> "BudgetViolation", tokens |-> 0]
    BY <1>1, <1>6, Zenon
  <2>2. ret.raised = "BudgetViolation"
    BY <2>1
  <2> QED BY <1>0, <1>2, <2>2
<1>7. CASE ~unready /\ ~leaks /\ produced.raised = none /\ ~over
  <2>1. ret = produced
    BY <1>1, <1>7, Zenon
  <2>2. enforce => produced.tokens <= budget
    BY <1>7 DEF over, Compressible
  <2>3. enforce => ret.tokens <= budget
    BY <2>1, <2>2, Zenon
  <2> QED BY <1>7, <2>3, Zenon DEF Guarded, unready, ret
<1> QED BY <1>3, <1>4, <1>5, <1>6, <1>7

(* uniform_atoms (baselines/): the message it returns fits in the budget, or  *)
(* is empty, whatever the costs of the atoms, of a line and the budget.       *)
THEOREM UniformMessageFits ==
  ASSUME NEW costs, NEW n \in Nat, DOMAIN costs = 1 .. n, Len(costs) = n,
         \A i \in 1 .. n : costs[i] \in Int, NEW budget \in Int, NEW joint \in Int
  PROVE  /\ uniform_atoms(costs, budget, joint).tokens \in Int
         /\ \/ uniform_atoms(costs, budget, joint).tokens = 0
            \/ uniform_atoms(costs, budget, joint).tokens <= budget
<1> DEFINE Spent(S) == MapThenSumSet(LAMBDA i : costs[i], S)
           kept == CHOOSE kept : kept = [i \in 0 .. Len(costs) |->
                     IF i = 0 THEN {}
                     ELSE IF Spent(kept[i - 1]) + costs[i] <= budget THEN kept[i - 1] \cup {i}
                     ELSE kept[i - 1]]
           Message(S) == Spent(S) + joint * Cardinality(S)
           K == kept[Len(costs)]
           Prefixed(m) == {i \in 1 .. m : i \in K}
           Fitting == {m \in 0 .. Len(costs) : m = 0 \/ Message(Prefixed(m)) <= budget}
           last == Max(Fitting)
           tokens == Message(Prefixed(last))
<1>1. uniform_atoms(costs, budget, joint) = Produced(tokens)
  BY Zenon DEF uniform_atoms
<1> HIDE DEF kept, K
<1>2. \A S : Spent(S) = SumOver(costs, S)
  BY DEF SumOver
<1> HIDE DEF Spent
<1>3. \A m \in 0 .. n : Prefixed(m) \in SUBSET (1 .. n)
  OBVIOUS
<1>4. Prefixed(0) = {}
  OBVIOUS
<1> HIDE DEF Prefixed
<1>5. IsFiniteSet(1 .. n)
  <2>1. 1 \in Int /\ n \in Int
    OBVIOUS
  <2> QED BY <2>1, FS_Interval
<1>6. \A m \in 0 .. n : Message(Prefixed(m)) \in Int
  <2>1. ASSUME NEW m \in 0 .. n PROVE Message(Prefixed(m)) \in Int
    <3> DEFINE S == Prefixed(m)
    <3>1. S \in SUBSET (1 .. n) /\ IsFiniteSet(S)
      BY <1>3, <1>5, FS_Subset
    <3> HIDE DEF S
    <3>2. SumOver(costs, S) \in Int
      BY <3>1, SumIsInt
    <3>3. Cardinality(S) \in Nat
      BY <3>1, FS_CardinalityType
    <3> QED BY <1>2, <3>2, <3>3 DEF S
  <2> QED BY <2>1
<1>7. Message(Prefixed(0)) = 0
  <2>1. SumOver(costs, {}) = 0 /\ Cardinality({}) = 0
    BY SumOfNone, FS_EmptySet
  <2>2. Spent(Prefixed(0)) = 0 /\ Cardinality(Prefixed(0)) = 0
    BY <1>2, <1>4, <2>1, Zenon
  <2>3. joint * 0 = 0
    OBVIOUS
  <2> QED BY <2>2, <2>3
<1> HIDE DEF Message
<1>8. Fitting \in SUBSET (0 .. n) /\ 0 \in Fitting
  OBVIOUS
<1>12. \A m \in Fitting : m = 0 \/ Message(Prefixed(m)) <= budget
  OBVIOUS
<1> HIDE DEF Fitting
<1>9. last \in Fitting
  <2>1. IsFiniteSet(0 .. n)
    <3>1. 0 \in Int /\ n \in Int
      OBVIOUS
    <3> QED BY <3>1, FS_Interval
  <2>2. IsFiniteSet(Fitting)
    BY <1>8, <2>1, FS_Subset
  <2>3. Fitting \subseteq Int /\ Fitting # {}
    BY <1>8
  <2> QED BY <2>2, <2>3, MaxIsGreatest
<1> HIDE DEF last
<1>10. tokens \in Int /\ (tokens = 0 \/ tokens <= budget)
  BY <1>6, <1>7, <1>8, <1>9, <1>12
<1> HIDE DEF tokens
<1>11. uniform_atoms(costs, budget, joint).tokens = tokens
  <2> DEFINE r == uniform_atoms(costs, budget, joint)
  <2>1. r = [raised |-> "", tokens |-> tokens]
    BY <1>1, Zenon DEF Produced
  <2> HIDE DEF r
  <2>2. r.tokens = tokens
    BY <2>1
  <2> QED BY <2>2 DEF r
<1> QED BY <1>10, <1>11, Zenon

LEMMA MinOfTwo == ASSUME NEW x \in Int, NEW y \in Int PROVE Min({x, y}) \in Int
<1>1. IsFiniteSet({x} \cup {y})
  BY FS_Singleton, FS_Union
<1>2. {x, y} = {x} \cup {y}
  OBVIOUS
<1>3. IsFiniteSet({x, y}) /\ {x, y} \subseteq Int /\ {x, y} # {}
  <2> DEFINE S == {x, y}
  <2>1. IsFiniteSet(S)
    BY <1>1, <1>2, Zenon
  <2>2. S \subseteq Int /\ S # {}
    OBVIOUS
  <2> QED BY <2>1, <2>2
<1> DEFINE S == {x, y}
<1>4. IsFiniteSet(S) /\ S \subseteq Int /\ S # {}
  BY <1>3
<1>5. \A v \in S : v \in Int
  OBVIOUS
<1> HIDE DEF S
<1>6. Min(S) \in S
  BY <1>4, MinIsMember
<1> QED BY <1>5, <1>6 DEF S

LEMMA CompressCalls ==
  ASSUME Compress, Gave(call'.ret)
  PROVE  Guarded(call'.args.adapter, call'.args.budget, call'.args.leaks, call'.args.enforce, call'.ret)
<1>1. PICK n \in DOMAIN Controls \cup DOMAIN ExternalAdapters, made \in 0 .. 2, b \in 0 .. 2,
           leaks \in BOOLEAN, enforce \in BOOLEAN :
        Call("compress", [adapter |-> AdapterOf(n), budget |-> b, leaks |-> leaks, enforce |-> enforce],
             Compressed(AdapterOf(n), Made(n, made, b, leaks), b, leaks, enforce))
  BY Zenon DEF Compress
<1> DEFINE a == AdapterOf(n)
           task == IF leaks THEN "own" ELSE "GLOBAL_DOWNSTREAM_TASK"
           produced == Made(n, made, b, leaks)
           ret == Compressed(a, produced, b, leaks, enforce)
<1>2. /\ call'.args.adapter = a /\ call'.args.budget = b /\ call'.args.leaks = leaks /\ call'.args.enforce = enforce
      /\ call'.ret = ret
  BY <1>1 DEF Call
<1>3. made \in Int /\ b \in Int
  OBVIOUS
<1>4. head_truncation(made, b).tokens \in Int /\ vanilla_relay(made, b, task).tokens \in Int
  <2> DEFINE least == Min({made, b})
  <2>1. least \in Int
    BY <1>3, MinOfTwo
  <2> HIDE DEF least
  <2>2. head_truncation(made, b) = [raised |-> "", tokens |-> least]
    BY Zenon DEF head_truncation, Produced, least
  <2>3. vanilla_relay(made, b, task) = IF task # "GLOBAL_DOWNSTREAM_TASK" THEN [raised |-> "AssertionError", tokens |-> 0]
                                       ELSE [raised |-> "", tokens |-> least]
    BY Zenon DEF vanilla_relay, Produced, least
  <2> DEFINE h == head_truncation(made, b)
             v == vanilla_relay(made, b, task)
             free == task # "GLOBAL_DOWNSTREAM_TASK"
  <2>4. h = [raised |-> "", tokens |-> least]
    BY <2>2
  <2>5. v = IF free THEN [raised |-> "AssertionError", tokens |-> 0] ELSE [raised |-> "", tokens |-> least]
    BY <2>3
  <2> HIDE DEF task, h, v, free
  <2>6. h.tokens \in Int
    BY <2>1, <2>4
  <2>7. v.tokens \in Int
    <3>1. CASE free
      <4>1. v = [raised |-> "AssertionError", tokens |-> 0]
        BY <2>5, <3>1, Zenon
      <4> QED BY <4>1
    <3>2. CASE ~free
      <4>1. v = [raised |-> "", tokens |-> least]
        BY <2>5, <3>2, Zenon
      <4> QED BY <2>1, <4>1
    <3> QED BY <3>1, <3>2
  <2> QED BY <2>6, <2>7 DEF h, v
<1>5. uniform_atoms(<<made, 1>>, b, 1).tokens \in Int
  <2> DEFINE costs == <<made, 1>>
             one == 1
             two == 2
  <2>1. /\ two \in Nat /\ DOMAIN costs = 1 .. two /\ Len(costs) = two /\ one \in Int
        /\ \A i \in 1 .. two : costs[i] \in Int
    OBVIOUS
  <2> HIDE DEF costs, one, two
  <2> QED BY <1>3, <2>1, UniformMessageFits DEF costs, one
<1>6. Produced(made).tokens \in Int /\ external_compress.tokens \in Int
  BY DEF Produced, external_compress
<1>7. produced.tokens \in Int
  <2> DEFINE h == head_truncation(made, b)
             v == vanilla_relay(made, b, task)
             u == uniform_atoms(<<made, 1>>, b, 1)
             w == Produced(made)
             x == external_compress
  <2>1. h.tokens \in Int /\ v.tokens \in Int /\ u.tokens \in Int /\ w.tokens \in Int /\ x.tokens \in Int
    BY <1>4, <1>5, <1>6
  <2>2. produced = CASE n = "head_truncation" -> h [] n = "vanilla_relay" -> v [] n = "uniform_atoms" -> u
                     [] n = "full_context" -> w [] OTHER -> x
    BY DEF Made
  <2> HIDE DEF h, v, u, w, x, produced
  <2>3. produced = h \/ produced = v \/ produced = u \/ produced = w \/ produced = x
    BY <2>2
  <2> QED BY <2>1, <2>3, Zenon
<1>8. Compressible(produced)
  BY <1>7 DEF Compressible
<1> HIDE DEF produced, a
<1>9. Guarded(a, b, leaks, enforce, ret)
  BY <1>2, <1>3, <1>8, CompressedIsGuarded
<1> QED BY <1>2, <1>9

(* run_document and partition_results, for any methods whose roles a report  *)
(* has a column for, whatever they return: a document's run stands in        *)
(* exactly one column and its method was ready.                              *)
Placed(methods, runs, parts) ==
  /\ \A n \in runs : Cardinality({r \in Reported : n \in parts[r]}) = 1
  /\ \A n \in runs : n \in DOMAIN methods /\ methods[n].status # "NOT_READY"
  /\ \A r \in Reported : \A n \in parts[r] : n \in DOMAIN methods /\ methods[n].role = r

THEOREM RunIsPlacedOnce ==
  ASSUME NEW methods, \A n \in DOMAIN methods : methods[n].role \in Reported, NEW outcomes
  PROVE  LET runs == run_document(methods, outcomes).runs
         IN  Placed(methods, runs, partition_results(methods, runs))
<1> DEFINE result == run_document(methods, outcomes)
           runs == result.runs
           parts == partition_results(methods, runs)
           tried == {n \in DOMAIN methods : methods[n].status # "NOT_READY"}
           wrong == \E n \in tried : outcomes[n].raised # ""
<1>1. result = IF wrong THEN [raised |-> TRUE, runs |-> {}] ELSE [raised |-> FALSE, runs |-> tried]
  BY Zenon DEF run_document
<1>2. tried \subseteq DOMAIN methods /\ \A n \in tried : methods[n].status # "NOT_READY"
  OBVIOUS
<1> HIDE DEF result, wrong, tried
<1>3. runs \subseteq tried
  <2>1. CASE wrong
    <3>1. result = [raised |-> TRUE, runs |-> {}]
      BY <1>1, <2>1, Zenon
    <3> QED BY <3>1
  <2>2. CASE ~wrong
    <3>1. result = [raised |-> FALSE, runs |-> tried]
      BY <1>1, <2>2, Zenon
    <3> QED BY <3>1
  <2> QED BY <2>1, <2>2
<1> HIDE DEF runs
<1>4. \A r \in Reported : parts[r] = {n \in runs : methods[n].role = r}
  BY Zenon DEF partition_results
<1> HIDE DEF parts
<1>5. ASSUME NEW n \in runs PROVE Cardinality({r \in Reported : n \in parts[r]}) = 1
  <2> DEFINE role == methods[n].role
  <2>1. role \in Reported
    BY <1>2, <1>3
  <2>2. {r \in Reported : n \in parts[r]} = {role}
    BY <1>4, <2>1
  <2> QED BY <2>2, FS_Singleton, Zenon
<1>6. \A n \in runs : n \in DOMAIN methods /\ methods[n].status # "NOT_READY"
  BY <1>2, <1>3
<1>7. \A r \in Reported : \A n \in parts[r] : n \in DOMAIN methods /\ methods[n].role = r
  BY <1>4, <1>6
<1>8. Placed(methods, runs, parts)
  BY <1>5, <1>6, <1>7, Zenon DEF Placed
<1> QED BY <1>8 DEF runs, result, parts

LEMMA BenchmarkCalls ==
  ASSUME Benchmark
  PROVE  LET runs == call'.ret.result.runs
         IN  /\ \A n \in runs : Cardinality({r \in Reported : n \in call'.ret.parts[r]}) = 1
             /\ \A n \in runs : call'.args.methods[n].status # "NOT_READY"
             /\ call'.ret.parts["PRIMARY_CAUSAL"] \subseteq PRIMARY_SOTA
             /\ \A n \in call'.ret.parts["ENDPOINT_ONLY"] : ~causal_metrics_allowed(call'.args.methods, n)
<1> DEFINE methods == [n \in DOMAIN Controls \cup DOMAIN ExternalAdapters |-> AdapterOf(n)]
<1>1. PICK fails :
        LET outcomes == [n \in DOMAIN methods |-> IF n \in fails THEN external_compress ELSE Produced(1)]
            result == run_document(methods, outcomes)
        IN  Call("benchmark", [methods |-> methods, fails |-> fails],
                 [result |-> result, parts |-> partition_results(methods, result.runs)])
  BY Zenon DEF Benchmark
<1> DEFINE outcomes == [n \in DOMAIN methods |-> IF n \in fails THEN external_compress ELSE Produced(1)]
           result == run_document(methods, outcomes)
           runs == result.runs
           parts == partition_results(methods, runs)
<1>2. /\ DOMAIN methods = DOMAIN Controls \cup DOMAIN ExternalAdapters
      /\ \A n \in DOMAIN Controls : methods[n] = Controls[n]
      /\ \A n \in DOMAIN methods \ DOMAIN Controls : methods[n] = ExternalAdapters[n]
  BY Zenon DEF AdapterOf
<1>3. \A n \in DOMAIN Controls : Controls[n] = Control
  BY DEF Controls
<1>4. \A n \in DOMAIN ExternalAdapters :
        \/ ExternalAdapters[n] = NotReadyPrimary /\ n \in PRIMARY_SOTA
        \/ ExternalAdapters[n] = NotReadyAnchor
        \/ ExternalAdapters[n] = Endpoint
  BY DEF ExternalAdapters, PRIMARY_SOTA
<1>5. /\ Control.role = "CONTROL" /\ NotReadyPrimary.role = "PRIMARY_CAUSAL"
      /\ NotReadyAnchor.role = "LEGACY_ANCHOR" /\ Endpoint.role = "ENDPOINT_ONLY"
  BY DEF Control, NotReadyPrimary, NotReadyAnchor, Endpoint, Adapter
<1>6. call' = [rule |-> "benchmark", args |-> [methods |-> methods, fails |-> fails],
               ret |-> [result |-> result, parts |-> parts]]
  BY <1>1, Zenon DEF Call
<1> HIDE DEF methods
<1>7. \A n \in DOMAIN methods :
        methods[n].role \in Reported /\ (methods[n].role = "PRIMARY_CAUSAL" => n \in PRIMARY_SOTA)
  BY <1>2, <1>3, <1>4, <1>5 DEF Reported
<1>8. Placed(methods, runs, parts)
  <2> HIDE DEF outcomes
  <2> QED BY <1>7, RunIsPlacedOnce
<1> HIDE DEF result, runs, parts
<1>9. call'.args.methods = methods /\ call'.ret.result = result /\ call'.ret.parts = parts
  BY <1>6
<1>10. {"PRIMARY_CAUSAL", "ENDPOINT_ONLY"} \subseteq Reported
  BY DEF Reported
<1>11. parts["PRIMARY_CAUSAL"] \subseteq PRIMARY_SOTA
  BY <1>7, <1>8, <1>10 DEF Placed
<1>12. \A n \in parts["ENDPOINT_ONLY"] : ~causal_metrics_allowed(methods, n)
  BY <1>8, <1>10 DEF Placed, causal_metrics_allowed
<1>13. /\ \A n \in runs : Cardinality({r \in Reported : n \in parts[r]}) = 1
       /\ \A n \in runs : methods[n].status # "NOT_READY"
  BY <1>8, Zenon DEF Placed
<1> QED BY <1>9, <1>11, <1>12, <1>13, Zenon DEF runs

(* eligible_primary and superiority_denominator: of any registry, no more    *)
(* comparators are eligible than the denominator counts.                     *)
THEOREM EligibleAreCounted ==
  ASSUME NEW entries, IsFiniteSet(DOMAIN entries)
  PROVE  Cardinality(eligible_primary(entries)) <= superiority_denominator(entries)
<1> DEFINE primary == {n \in DOMAIN entries : entries[n].role = "PRIMARY_CAUSAL"}
           eligible == {n \in DOMAIN entries : entries[n].role = "PRIMARY_CAUSAL" /\ benchmark_eligible(entries[n])}
<1>1. eligible \subseteq primary /\ primary \subseteq DOMAIN entries
  OBVIOUS
<1>2. superiority_denominator(entries) = Cardinality(primary) /\ eligible_primary(entries) = eligible
  BY Zenon DEF superiority_denominator, eligible_primary
<1> HIDE DEF primary, eligible
<1>3. IsFiniteSet(primary)
  BY <1>1, FS_Subset
<1>4. Cardinality(eligible) <= Cardinality(primary)
  BY <1>1, <1>3, FS_Subset
<1> QED BY <1>2, <1>4

LEMMA EligibleEntry ==
  ASSUME NEW x, benchmark_eligible(EntryOf(x)), x.role # "CONTROL"
  PROVE  x.ready
<1> DEFINE e == EntryOf(x)
           status == IF x.ready THEN "READY" ELSE "UNREPRODUCED"
           role == x.role
           fields == [license |-> "value"]
<1>1. e = [role |-> role, status |-> status,
           produces_text |-> TRUE, reasons |-> {}, reproduced |-> 1, deviation |-> 0,
           tolerance |-> 1, family |-> "", fields |-> fields]
  BY Zenon DEF EntryOf
<1> HIDE DEF e, status, fields, role
<1>2. e.role = role /\ e.status = status
  BY <1>1
<1>3. e.status = "READY"
  BY <1>2 DEF benchmark_eligible, e, role
<1>4. status = "READY"
  BY <1>2, <1>3
<1> QED BY <1>4 DEF status

LEMMA EntryIs == ASSUME NEW x PROVE EntryOf(x).role = x.role /\ EntryOf(x).family = ""
<1> DEFINE e == EntryOf(x)
           status == IF x.ready THEN "READY" ELSE "UNREPRODUCED"
           role == x.role
           fields == [license |-> "value"]
           none == ""
<1>1. e = [role |-> role, status |-> status,
           produces_text |-> TRUE, reasons |-> {}, reproduced |-> 1, deviation |-> 0,
           tolerance |-> 1, family |-> none, fields |-> fields]
  BY Zenon DEF EntryOf
<1> HIDE DEF e, status, fields, role, none
<1>2. e.role = role /\ e.family = none
  BY <1>1
<1> QED BY <1>2 DEF e, role, none

LEMMA ThreeFamilies ==
  ASSUME NEW E \in SUBSET Methods, Cardinality(families_of(E, Families)) >= 3
  PROVE  {"c", "d"} \cap E # {} /\ {"a", "b"} \subseteq E
<1> DEFINE F == families_of(E, Families)
           all == {"a", "b", "cd"}
<1>1. F = {IF n \in DOMAIN Families THEN Families[n] ELSE n : n \in E}
  BY Zenon DEF families_of
<1>2. DOMAIN Families = {"c", "d"} /\ \A n \in {"c", "d"} : Families[n] = "cd"
  BY DEF Families
<1>3. /\ F \subseteq all
      /\ "cd" \in F => {"c", "d"} \cap E # {}
      /\ "a" \in F => "a" \in E
      /\ "b" \in F => "b" \in E
  BY <1>1, <1>2 DEF Methods
<1> HIDE DEF F
<1>4. IsFiniteSet(all) /\ Cardinality(all) = 3
  <2>1. IsFiniteSet({"a"}) /\ Cardinality({"a"}) = 1
    BY FS_Singleton
  <2>2. IsFiniteSet({"a"} \cup {"b"}) /\ Cardinality({"a"} \cup {"b"}) = 2
    BY <2>1, FS_AddElement
  <2> DEFINE two == {"a"} \cup {"b"}
  <2>3. IsFiniteSet(two) /\ Cardinality(two) = 2 /\ "cd" \notin two
    BY <2>2
  <2> HIDE DEF two
  <2>4. IsFiniteSet(two \cup {"cd"}) /\ Cardinality(two \cup {"cd"}) = 3
    BY <2>3, FS_AddElement
  <2>5. two \cup {"cd"} = all
    BY DEF two
  <2> QED BY <2>4, <2>5
<1> HIDE DEF all
<1>5. F = all
  <2>1. Cardinality(F) <= Cardinality(all) /\ (Cardinality(F) = Cardinality(all) => F = all)
    BY <1>3, <1>4, FS_Subset
  <2>2. Cardinality(F) \in Nat
    BY <1>3, <1>4, FS_Subset, FS_CardinalityType
  <2>3. Cardinality(F) >= 3
    BY DEF F
  <2> QED BY <1>4, <2>1, <2>2, <2>3
<1>6. "a" \in F /\ "b" \in F /\ "cd" \in F
  BY <1>5 DEF all
<1> QED BY <1>3, <1>6

LEMMA FourMethods == IsFiniteSet(Methods) /\ Cardinality(Methods) = 4
<1>1. IsFiniteSet({"a"}) /\ Cardinality({"a"}) = 1
  BY FS_Singleton
<1> DEFINE two == {"a"} \cup {"b"}
           three == two \cup {"c"}
<1>2. IsFiniteSet(two) /\ Cardinality(two) = 2
  BY <1>1, FS_AddElement
<1>3. "c" \notin two /\ "d" \notin three /\ three \cup {"d"} = Methods
  BY DEF Methods
<1> HIDE DEF two
<1>4. IsFiniteSet(three) /\ Cardinality(three) = 3
  BY <1>2, <1>3, FS_AddElement
<1> HIDE DEF three
<1>5. IsFiniteSet(three \cup {"d"}) /\ Cardinality(three \cup {"d"}) = 4
  BY <1>3, <1>4, FS_AddElement
<1> QED BY <1>3, <1>5

LEMMA ComparatorsCalls ==
  ASSUME Comparators
  PROVE  LET primary == {m \in Methods : call'.args.x[m].role = "PRIMARY_CAUSAL"}
             ready == {m \in Methods : call'.args.x[m].ready}
         IN  /\ (call'.ret.headline => {"c", "d"} \cap primary \cap ready # {} /\ {"a", "b"} \subseteq primary \cap ready)
             /\ Cardinality(call'.ret.eligible) <= call'.ret.denominator
             /\ (call'.ret.v35 => ready = Methods)
<1> DEFINE Registry(x) == [m \in Methods |-> IF x[m].ready THEN "BENCHMARK_READY" ELSE PRIMARY_COMPARATOR_REGISTRY["TacoRl"]]
<1>1. PICK x \in Registered :
        LET entries == [m \in Methods |-> EntryOf(x[m])]
        IN  Call("comparators", [x |-> x],
                 [eligible |-> eligible_primary(entries), denominator |-> superiority_denominator(entries),
                  headline |-> registry_headline_eligible(entries, Families, 3),
                  v35 |-> is_headline_sota_eligible(Registry(x))])
  BY Zenon DEF Comparators
<1> DEFINE entries == [m \in Methods |-> EntryOf(x[m])]
           registry == Registry(x)
           eligible == eligible_primary(entries)
           denominator == superiority_denominator(entries)
           headline == registry_headline_eligible(entries, Families, 3)
           v35 == is_headline_sota_eligible(registry)
           primary == {m \in Methods : x[m].role = "PRIMARY_CAUSAL"}
           ready == {m \in Methods : x[m].ready}
<1>2. call' = [rule |-> "comparators", args |-> [x |-> x],
               ret |-> [eligible |-> eligible, denominator |-> denominator, headline |-> headline, v35 |-> v35]]
  BY <1>1, Zenon DEF Call
<1>3. Cardinality(eligible) <= denominator
  <2>1. IsFiniteSet(DOMAIN entries)
    BY FourMethods
  <2> HIDE DEF entries
  <2> QED BY <2>1, EligibleAreCounted
<1>4. eligible = {m \in Methods : EntryOf(x[m]).role = "PRIMARY_CAUSAL" /\ benchmark_eligible(EntryOf(x[m]))}
  BY DEF eligible_primary
<1>5. eligible \subseteq primary \cap ready
  <2> HIDE DEF eligible
  <2>1. ASSUME NEW m \in eligible PROVE m \in primary \cap ready
    <3>1. m \in Methods /\ EntryOf(x[m]).role = "PRIMARY_CAUSAL" /\ benchmark_eligible(EntryOf(x[m]))
      BY <1>4, <2>1
    <3>2. x[m].role = "PRIMARY_CAUSAL"
      BY <3>1, EntryIs
    <3>3. x[m].role # "CONTROL"
      BY <3>2
    <3>4. x[m].ready
      BY <3>1, <3>3, EligibleEntry, Zenon
    <3> QED BY <3>1, <3>2, <3>4
  <2> QED BY <2>1
<1>6. headline => {"c", "d"} \cap eligible # {} /\ {"a", "b"} \subseteq eligible
  <2> SUFFICES ASSUME headline PROVE {"c", "d"} \cap eligible # {} /\ {"a", "b"} \subseteq eligible
    OBVIOUS
  <2>1. family_map(entries, Families) = Families
    <3> DEFINE named == {m \in DOMAIN entries : entries[m].family # ""}
    <3>1. named = {}
      BY EntryIs
    <3> HIDE DEF entries
    <3>2. family_map(entries, Families)
            = [n \in DOMAIN Families \cup named |-> IF n \in DOMAIN Families THEN Families[n] ELSE entries[n].family]
      BY Zenon DEF family_map
    <3>3. DOMAIN Families \cup named = DOMAIN Families
      BY <3>1
    <3> HIDE DEF named
    <3>4. family_map(entries, Families)
            = [n \in DOMAIN Families |-> IF n \in DOMAIN Families THEN Families[n] ELSE entries[n].family]
      BY <3>2, <3>3, Zenon
    <3>5. Families = [n \in DOMAIN Families |-> Families[n]]
      BY DEF Families
    <3>6. [n \in DOMAIN Families |-> IF n \in DOMAIN Families THEN Families[n] ELSE entries[n].family]
            = [n \in DOMAIN Families |-> Families[n]]
      OBVIOUS
    <3> QED BY <3>4, <3>5, <3>6
  <2> HIDE DEF entries, eligible
  <2>2. Cardinality(families_of(eligible, family_map(entries, Families))) >= 3
    BY DEF registry_headline_eligible, eligible
  <2>3. eligible \in SUBSET Methods /\ Cardinality(families_of(eligible, Families)) >= 3
    BY <1>4, <2>1, <2>2
  <2> QED BY <2>3, ThreeFamilies
<1>7. v35 => ready = Methods
  <2> SUFFICES ASSUME v35 PROVE ready = Methods
    OBVIOUS
  <2> DEFINE counted == {f \in DOMAIN registry : registry[f] = "BENCHMARK_READY"}
  <2>1. counted = ready
    <3>1. PRIMARY_COMPARATOR_REGISTRY["TacoRl"] = "BLOCKED_BY_MISSING_ARTIFACT"
      BY DEF PRIMARY_COMPARATOR_REGISTRY
    <3> QED BY <3>1
  <2>2. Cardinality(counted) >= 4
    BY Zenon DEF is_headline_sota_eligible, count_ready_primary_families
  <2>3. ready \subseteq Methods
    OBVIOUS
  <2> HIDE DEF counted, ready
  <2>4. Cardinality(ready) <= Cardinality(Methods) /\ (Cardinality(ready) = Cardinality(Methods) => ready = Methods)
    BY <2>3, FourMethods, FS_Subset
  <2>5. Cardinality(ready) \in Nat
    BY <2>3, FourMethods, FS_Subset, FS_CardinalityType
  <2> QED BY <2>1, <2>2, <2>4, <2>5, FourMethods
<1> HIDE DEF eligible, denominator, headline, v35
<1>8. call'.args.x = x /\ call'.ret.eligible = eligible /\ call'.ret.denominator = denominator
      /\ call'.ret.headline = headline /\ call'.ret.v35 = v35
  BY <1>2
<1>9. headline => {"c", "d"} \cap primary \cap ready # {} /\ {"a", "b"} \subseteq primary \cap ready
  <2> HIDE DEF primary, ready
  <2> QED BY <1>5, <1>6
<1> QED BY <1>3, <1>7, <1>8, <1>9, Zenon

LEMMA CellCalls ==
  ASSUME Cell, ~call'.ret
  PROVE  /\ (call'.args.metric = "Tbar" => call'.args.family # "COMI")
         /\ (call'.args.estimate /\ call'.args.status = "COMPLETE" => call'.args.raw_sha /\ call'.args.cell_id)
<1>1. PICK c \in Cells : Call("cell", c, metric_refused(c.family, c.metric) \/ lineage_refused(c))
  BY DEF Cell
<1> DEFINE ret == metric_refused(c.family, c.metric) \/ lineage_refused(c)
<1>2. call' = [rule |-> "cell", args |-> c, ret |-> ret]
  BY <1>1, Zenon DEF Call
<1> HIDE DEF ret
<1>3. call'.args = c /\ call'.ret = ret
  BY <1>2
<1>4. ~metric_refused(c.family, c.metric) /\ ~lineage_refused(c)
  BY <1>3, Zenon DEF ret
<1>5. c.metric = "Tbar" => c.family # "COMI"
  <2>1. "Tbar" \in AtomMetrics /\ "COMI" \in ENDPOINT_HYBRID_REGISTRY
    BY DEF AtomMetrics, ENDPOINT_HYBRID_REGISTRY
  <2> QED BY <1>4, <2>1, Zenon DEF metric_refused
<1>6. c.estimate /\ c.status = "COMPLETE" => c.raw_sha /\ c.cell_id
  BY <1>4, Zenon DEF lineage_refused
<1> QED BY <1>3, <1>5, <1>6, Zenon

(* ReproducibilityAudit.regime and determinism.audit: an audit record that   *)
(* permits claims about single atoms was complete and large enough, and the  *)
(* outputs it was made of are deterministic.                                 *)
THEOREM PermittedIsDeterministic ==
  ASSUME NEW P, IsFiniteSet(P), P # {}, NEW repeats \in Nat, repeats >= 2, NEW X, NEW outputs \in [P -> [1 .. repeats -> X]],
         NEW audit, audit.inputs_with_disagreement = Cardinality(Rg!Disagreeing(outputs)),
         NEW needed, Rg!ClaimsPermitted(Rg!RegimeOf(audit, needed, 2))
  PROVE  audit.completed /\ ~(audit.n_inputs < needed) /\ Rg!determinism_audit(outputs) = "D"
<1> DEFINE short == \/ ~audit.completed
                    \/ audit.n_inputs < needed \/ audit.n_repeats < 2
           regime == Rg!RegimeOf(audit, needed, 2)
<1>1. regime = IF short THEN "NOT_AUDITED"
               ELSE IF audit.inputs_with_disagreement = 0 THEN "D_CONFIRMED" ELSE "S_CONFIRMED"
  BY Zenon DEF Rg!RegimeOf
<1>2. regime = "D_CONFIRMED"
  BY Zenon DEF Rg!ClaimsPermitted
<1>3. ~short /\ audit.inputs_with_disagreement = 0
  <2> HIDE DEF short, regime
  <2> QED BY <1>1, <1>2
<1> DEFINE D == Rg!Disagreeing(outputs)
<1>4. D = {}
  <2>1. D = {p \in DOMAIN outputs : \E i, j \in DOMAIN outputs[p] : outputs[p][i] # outputs[p][j]}
    BY Zenon DEF Rg!Disagreeing
  <2>2. D \subseteq P
    BY <2>1
  <2>3. Cardinality(D) = 0
    BY <1>3, Zenon
  <2> HIDE DEF D
  <2>4. IsFiniteSet(D)
    BY <2>2, FS_Subset
  <2> QED BY <2>3, <2>4, FS_EmptySet
<1>5. Rg!determinism_audit(outputs) = "D"
  <2> DEFINE bad == \/ outputs = <<>>
                    \/ \E p, q \in DOMAIN outputs : Len(outputs[p]) # Len(outputs[q])
                    \/ \E p \in DOMAIN outputs : Len(outputs[p]) < 2
  <2>1. Rg!determinism_audit(outputs) = IF bad THEN "ValueError" ELSE IF D = {} THEN "D" ELSE "S"
    BY Zenon DEF Rg!determinism_audit
  <2>2. \A p \in P : Len(outputs[p]) = repeats
    OBVIOUS
  <2>3. outputs # <<>>
    <3>1. DOMAIN outputs # {}
      OBVIOUS
    <3>2. DOMAIN << >> = {}
      OBVIOUS
    <3> QED BY <3>1, <3>2, Zenon
  <2>4. DOMAIN outputs = P
    OBVIOUS
  <2>5. ~bad
    BY <2>2, <2>3, <2>4
  <2> HIDE DEF bad, D
  <2> QED BY <1>4, <2>1, <2>5, Zenon
<1> QED BY <1>3, <1>5

LEMMA AuditIs ==
  ASSUME NEW outputs, NEW completed
  PROVE  /\ AuditOf(outputs, completed).completed = completed
         /\ AuditOf(outputs, completed).n_inputs = Cardinality(DOMAIN outputs)
         /\ AuditOf(outputs, completed).inputs_with_disagreement = Cardinality(Rg!Disagreeing(outputs))
<1> DEFINE n == Cardinality(DOMAIN outputs)
           k == Cardinality(Rg!Disagreeing(outputs))
           a == AuditOf(outputs, completed)
<1>1. a = [completed |-> completed, n_inputs |-> n, n_repeats |-> 2, inputs_with_disagreement |-> k]
  BY Zenon DEF AuditOf
<1> HIDE DEF a, n, k
<1>2. a.completed = completed /\ a.n_inputs = n /\ a.inputs_with_disagreement = k
  BY <1>1
<1> QED BY <1>2 DEF a, n, k

LEMMA LedgerCalls ==
  ASSUME Ledger, call'.ret
  PROVE  /\ call'.args.done /\ call'.args.needed <= Cardinality(DOMAIN call'.args.last)
         /\ Rg!determinism_audit(call'.args.last) = "D"
<1> DEFINE Once(first) == Rg!RecordAudit([c \in {} |-> {}], "main", AuditOf(first, TRUE))
           Twice(first, second, done, same) ==
             Rg!RecordAudit(Once(first), IF same THEN "main" ELSE "other", AuditOf(second, done))
<1>1. PICK first \in Observed, second \in Observed, done \in BOOLEAN, needed \in 2 .. 3, same \in BOOLEAN :
        Call("ledger", [last |-> IF same THEN second ELSE first, done |-> ~same \/ done, needed |-> needed],
             Rg!ClaimsPermitted(Rg!RegimeFor(Twice(first, second, done, same), "main", needed, 2)))
  BY Zenon DEF Ledger
<1> DEFINE last == IF same THEN second ELSE first
           finished == ~same \/ done
           ledger == Twice(first, second, done, same)
           ret == Rg!ClaimsPermitted(Rg!RegimeFor(ledger, "main", needed, 2))
           audit == AuditOf(last, finished)
<1>2. call' = [rule |-> "ledger", args |-> [last |-> last, done |-> finished, needed |-> needed], ret |-> ret]
  BY <1>1, Zenon DEF Call
<1>3. "main" \in DOMAIN ledger /\ ledger["main"] = audit
  <2> DEFINE one == AuditOf(first, TRUE)
             two == AuditOf(second, done)
  <2>1. Once(first) = [c \in DOMAIN [c \in {} |-> {}] \cup {"main"} |-> IF c = "main" THEN one ELSE [d \in {} |-> {}][c]]
    BY Zenon DEF Rg!RecordAudit
  <2> DEFINE once == Once(first)
  <2> HIDE DEF one, two
  <2>2. "main" \in DOMAIN once /\ once["main"] = one
    BY <2>1
  <2> HIDE DEF once
  <2>3. ledger = [c \in DOMAIN once \cup {IF same THEN "main" ELSE "other"} |->
                    IF c = (IF same THEN "main" ELSE "other") THEN two ELSE once[c]]
    BY Zenon DEF Rg!RecordAudit, once, two
  <2> HIDE DEF ledger
  <2>4. "main" \in DOMAIN ledger /\ ledger["main"] = IF same THEN two ELSE one
    BY <2>2, <2>3
  <2>5. (IF same THEN two ELSE one) = audit
    <3>1. CASE same
      <4>1. last = second /\ finished = done
        BY <3>1
      <4> QED BY <3>1, <4>1, Zenon DEF two
    <3>2. CASE ~same
      <4>1. last = first /\ finished = TRUE
        BY <3>2
      <4> QED BY <3>2, <4>1, Zenon DEF one
    <3> QED BY <3>1, <3>2
  <2> QED BY <2>4, <2>5, Zenon
<1>4. last \in [{"p", "q"} -> [1 .. 2 -> {"x", "y"}]] /\ needed \in Int
  BY DEF Observed
<1> HIDE DEF ret, ledger, last, finished
<1>5. call'.args.last = last /\ call'.args.done = finished /\ call'.args.needed = needed /\ call'.ret = ret
  BY <1>2
<1>6. Rg!ClaimsPermitted(Rg!RegimeOf(audit, needed, 2))
  <2>1. Rg!RegimeFor(ledger, "main", needed, 2) = Rg!RegimeOf(ledger["main"], needed, 2)
    BY <1>3, Zenon DEF Rg!RegimeFor
  <2>2. ret
    BY <1>5, Zenon
  <2> QED BY <1>3, <2>1, <2>2, Zenon DEF ret
<1>7. /\ audit.completed = finished /\ audit.n_inputs = Cardinality(DOMAIN last)
      /\ audit.inputs_with_disagreement = Cardinality(Rg!Disagreeing(last))
  BY AuditIs, Zenon
<1>8. IsFiniteSet({"p", "q"}) /\ {"p", "q"} # {}
  <2>1. IsFiniteSet({"p"} \cup {"q"})
    BY FS_Singleton, FS_Union
  <2>2. {"p", "q"} = {"p"} \cup {"q"}
    OBVIOUS
  <2> QED BY <2>1, <2>2
<1> HIDE DEF audit
<1>9. audit.completed /\ ~(audit.n_inputs < needed) /\ Rg!determinism_audit(last) = "D"
  <2> DEFINE P == {"p", "q"}
             X == {"x", "y"}
             k == 2
  <2>1. IsFiniteSet(P) /\ P # {} /\ k \in Nat /\ k >= 2 /\ last \in [P -> [1 .. k -> X]]
    BY <1>4, <1>8
  <2> HIDE DEF P, X, k
  <2> QED BY <1>6, <1>7, <2>1, PermittedIsDeterministic
<1>10. Cardinality(DOMAIN last) \in Nat
  BY <1>4, <1>8, FS_CardinalityType
<1>11. needed <= Cardinality(DOMAIN last)
  BY <1>4, <1>7, <1>9, <1>10
<1> QED BY <1>5, <1>7, <1>9, <1>11, Zenon

\* What each rule's call owes ClaimsAreEarned.
Reproduced(r, run) ==
  /\ reproduced(run) /\ r.produces_text
  /\ Magnitude(run.observed - run.expected) <= 2
  /\ \A f \in DOMAIN r.fields : r.fields[f] = "value" \/ (f = "commit" /\ f \in r.reasons)
WinsAreEnough(eligible, result) ==
  LET won == {m \in eligible : result[m] = "won"}
  IN  /\ Cardinality(won) >= 3 /\ Cardinality(families_of(won, Families)) >= 3
      /\ (Cardinality(families_of(eligible, Families)) = 3 => won = eligible)
InOneColumn(methods, runs, parts) ==
  /\ \A n \in runs : Cardinality({r \in Reported : n \in parts[r]}) = 1
  /\ \A n \in runs : methods[n].status # "NOT_READY"
  /\ parts["PRIMARY_CAUSAL"] \subseteq PRIMARY_SOTA
  /\ \A n \in parts["ENDPOINT_ONLY"] : ~causal_metrics_allowed(methods, n)
EnoughFamilies(x, r) ==
  LET primary == {m \in Methods : x[m].role = "PRIMARY_CAUSAL"}
      ready == {m \in Methods : x[m].ready}
  IN  /\ (r.headline => {"c", "d"} \cap primary \cap ready # {} /\ {"a", "b"} \subseteq primary \cap ready)
      /\ Cardinality(r.eligible) <= r.denominator
      /\ (r.v35 => ready = Methods)
Traceable(a) ==
  /\ (a.metric = "Tbar" => a.family # "COMI")
  /\ (a.estimate /\ a.status = "COMPLETE" => a.raw_sha /\ a.cell_id)
Audited(a) ==
  /\ a.done /\ a.needed <= Cardinality(DOMAIN a.last)
  /\ Rg!determinism_audit(a.last) = "D"
Executed(a, r) == a.strict /\ r = "EXECUTED"

Claimed(c) ==
  /\ c.rule = "reproduce" /\ AdmittedEntry(c.ret) => Reproduced(c.ret, c.args.run)
  /\ c.rule = "superiority" /\ c.ret.permitted => WinsAreEnough(c.args.eligible, c.args.result)
  /\ c.rule = "bootstrap" => BoundsCompare(c.args.diffs, c.args.draws, c.ret.verdict)
  /\ c.rule = "manuscript" /\ Executed(c.args, c.ret) => ExportIsWhole(c.args.tex, c.args.files, c.args.m)
  /\ c.rule = "manifest" => VerifiesItsDisk(c.args.paths, c.args.before, c.args.after, c.ret)
  /\ c.rule = "compress" /\ Gave(c.ret) =>
       Guarded(c.args.adapter, c.args.budget, c.args.leaks, c.args.enforce, c.ret)
  /\ c.rule = "benchmark" => InOneColumn(c.args.methods, c.ret.result.runs, c.ret.parts)
  /\ c.rule = "comparators" => EnoughFamilies(c.args.x, c.ret)
  /\ c.rule = "cell" /\ ~c.ret => Traceable(c.args)
  /\ c.rule = "ledger" /\ c.ret => Audited(c.args)

LEMMA ClaimedIsEarned == Claimed(call) => ClaimsAreEarned
<1> SUFFICES ASSUME Claimed(call) PROVE ClaimsAreEarned
  OBVIOUS
<1>1. call.rule = "reproduce" =>
       LET e == call.ret
           r == call.args.run
       IN  (benchmark_eligible(e) /\ e.role # "CONTROL") =>
             /\ reproduced(r) /\ e.produces_text
             /\ Magnitude(r.observed - r.expected) <= 2
             /\ \A f \in DOMAIN e.fields : e.fields[f] = "value" \/ (f = "commit" /\ f \in e.reasons)
  BY Zenon DEF Claimed, AdmittedEntry, Reproduced
<1>2. (call.rule = "superiority" /\ call.ret.permitted) =>
       LET won == {m \in call.args.eligible : call.args.result[m] = "won"}
       IN  /\ Cardinality(won) >= 3 /\ Cardinality(families_of(won, Families)) >= 3
           /\ (Cardinality(families_of(call.args.eligible, Families)) = 3 => won = call.args.eligible)
  BY Zenon DEF Claimed, WinsAreEnough
<1>3. call.rule = "bootstrap" =>
       LET a == call.args
       IN  /\ \A c \in DOMAIN a.diffs :
                SimultaneousBound(a.diffs, c, a.draws) <= MarginalBound(a.diffs, c, a.draws)
           /\ (call.ret.verdict = "PASS") =>
                \A c \in DOMAIN a.diffs : MarginalBound(a.diffs, c, a.draws) > 0
  BY Zenon DEF Claimed, BoundsCompare
<1>4. (call.rule = "manuscript" /\ call.args.strict /\ call.ret = "EXECUTED") =>
       LET a == call.args
       IN  /\ ~a.tex.tbd /\ a.tex.phfig = {} /\ (a.m.asked => a.m.present)
           /\ \A l \in a.tex.labels \cap DOMAIN Targets :
                Targets[l] \in a.files /\ (a.m.asked => Targets[l] \in DOMAIN a.m.entries)
           /\ \A x \in DOMAIN a.m.entries :
                a.m.entries[x] = {} \/ (a.m.entries[x] = {"artifact_sha256"} /\ x \in a.files)
  BY Zenon DEF Claimed, Executed, ExportIsWhole
<1>5. call.rule = "manifest" =>
       (call.ret <=> \A p \in call.args.paths : call.args.before[p] = call.args.after[p])
  BY Zenon DEF Claimed, VerifiesItsDisk
<1>6. (call.rule = "compress" /\ call.ret.raised = "") =>
       /\ call.args.adapter.status # "NOT_READY" /\ ~call.args.leaks
       /\ (call.args.enforce => call.ret.tokens <= call.args.budget)
  BY Zenon DEF Claimed, Gave, Guarded
<1>7. call.rule = "benchmark" =>
       LET runs == call.ret.result.runs
       IN  /\ \A n \in runs : Cardinality({r \in Reported : n \in call.ret.parts[r]}) = 1
           /\ \A n \in runs : call.args.methods[n].status # "NOT_READY"
           /\ call.ret.parts["PRIMARY_CAUSAL"] \subseteq PRIMARY_SOTA
           /\ \A n \in call.ret.parts["ENDPOINT_ONLY"] : ~causal_metrics_allowed(call.args.methods, n)
  BY Zenon DEF Claimed, InOneColumn
<1>8. call.rule = "comparators" =>
       LET primary == {m \in Methods : call.args.x[m].role = "PRIMARY_CAUSAL"}
           ready == {m \in Methods : call.args.x[m].ready}
       IN  /\ (call.ret.headline => {"c", "d"} \cap primary \cap ready # {} /\ {"a", "b"} \subseteq primary \cap ready)
           /\ Cardinality(call.ret.eligible) <= call.ret.denominator
           /\ (call.ret.v35 => ready = Methods)
  BY Zenon DEF Claimed, EnoughFamilies
<1>9. (call.rule = "cell" /\ ~call.ret) =>
       /\ (call.args.metric = "Tbar" => call.args.family # "COMI")
       /\ (call.args.estimate /\ call.args.status = "COMPLETE" => call.args.raw_sha /\ call.args.cell_id)
  BY Zenon DEF Claimed, Traceable
<1>10. (call.rule = "ledger" /\ call.ret) =>
       /\ call.args.done /\ call.args.needed <= Cardinality(DOMAIN call.args.last)
       /\ Rg!determinism_audit(call.args.last) = "D"
  BY Zenon DEF Claimed, Audited
<1> QED BY <1>1, <1>2, <1>3, <1>4, <1>5, <1>6, <1>7, <1>8, <1>9, <1>10, Zenon DEF ClaimsAreEarned

(* What may be claimed, over every call the rules' run makes: an eligible    *)
(* comparator was reproduced, a permitted claim was won against enough       *)
(* families, a simultaneous bound is the stricter one, an executed export is *)
(* whole and of what is on disk, no text leaves an adapter against its       *)
(* guard, a run stands in one column, and a claim about single atoms rests   *)
(* on a complete deterministic audit.                                        *)
THEOREM ClaimsAreKept == Spec => []ClaimsAreEarned
<1>1. Init => Claimed(call)
  BY DEF Init, Idle, Claimed
<1>2. ASSUME Claimed(call), [Next]_call PROVE Claimed(call)'
  <2>1. CASE UNCHANGED call
    BY <1>2, <2>1
  <2>2. CASE Next
    <3> DEFINE a == call'.args
               r == call'.ret
    <3>1. call'.rule = "reproduce" /\ AdmittedEntry(r) => Reproduced(r, a.run)
      <4>1. ASSUME Reproduce, AdmittedEntry(r) PROVE Reproduced(r, a.run)
        BY <4>1, ReproduceCalls, Zenon DEF Reproduced
      <4> QED BY <2>2, <4>1, RuleOfCall
    <3>2. call'.rule = "superiority" /\ r.permitted => WinsAreEnough(a.eligible, a.result)
      <4>1. ASSUME Superiority, r.permitted PROVE WinsAreEnough(a.eligible, a.result)
        BY <4>1, SuperiorityCalls, Zenon DEF WinsAreEnough
      <4> QED BY <2>2, <4>1, RuleOfCall
    <3>3. call'.rule = "bootstrap" => BoundsCompare(a.diffs, a.draws, r.verdict)
      BY <2>2, RuleOfCall, BootstrapCalls
    <3>4. call'.rule = "manuscript" /\ Executed(a, r) => ExportIsWhole(a.tex, a.files, a.m)
      <4>1. ASSUME Manuscript, Executed(a, r) PROVE ExportIsWhole(a.tex, a.files, a.m)
        BY <4>1, ManuscriptCalls, Zenon DEF Executed
      <4> QED BY <2>2, <4>1, RuleOfCall
    <3>5. call'.rule = "manifest" => VerifiesItsDisk(a.paths, a.before, a.after, r)
      BY <2>2, RuleOfCall, FreezeCalls
    <3>6. call'.rule = "compress" /\ Gave(r) => Guarded(a.adapter, a.budget, a.leaks, a.enforce, r)
      BY <2>2, RuleOfCall, CompressCalls
    <3>7. call'.rule = "benchmark" => InOneColumn(a.methods, r.result.runs, r.parts)
      <4>1. ASSUME Benchmark PROVE InOneColumn(a.methods, r.result.runs, r.parts)
        BY <4>1, BenchmarkCalls, Zenon DEF InOneColumn
      <4> QED BY <2>2, <4>1, RuleOfCall
    <3>8. call'.rule = "comparators" => EnoughFamilies(a.x, r)
      <4>1. ASSUME Comparators PROVE EnoughFamilies(a.x, r)
        BY <4>1, ComparatorsCalls, Zenon DEF EnoughFamilies
      <4> QED BY <2>2, <4>1, RuleOfCall
    <3>9. call'.rule = "cell" /\ ~r => Traceable(a)
      <4>1. ASSUME Cell, ~r PROVE Traceable(a)
        BY <4>1, CellCalls, Zenon DEF Traceable
      <4> QED BY <2>2, <4>1, RuleOfCall
    <3>10. call'.rule = "ledger" /\ r => Audited(a)
      <4>1. ASSUME Ledger, r PROVE Audited(a)
        BY <4>1, LedgerCalls, Zenon DEF Audited
      <4> QED BY <2>2, <4>1, RuleOfCall
    <3> QED BY <3>1, <3>2, <3>3, <3>4, <3>5, <3>6, <3>7, <3>8, <3>9, <3>10, Zenon DEF Claimed
  <2> QED BY <1>2, <2>1, <2>2
<1> QED BY <1>1, <1>2, ClaimedIsEarned, PTL DEF Spec

=============================================================================
