---------------------------- MODULE Configuration ----------------------------
(***************************************************************************)
(* host/config.py: the model backend, as the environment names it.  A      *)
(* setting is there or not; LLM_X and the provider's own X are one, the    *)
(* second being looked at before the first.                                *)
(***************************************************************************)

(* "groq" stands for the presets that want a key, "ollama" for those that  *)
(* do not, "custom" for a provider without a preset.                       *)
Provider == {"anthropic", "groq", "ollama", "custom"}
Keyless == {"ollama"}
Presets == {"groq", "ollama"}

Environment == [provider : Provider, model : BOOLEAN, key : BOOLEAN, url : BOOLEAN]

(* load_llm(); the model of anthropic has a default. *)
LoadLLM(env) ==
    IF env.provider = "anthropic"
    THEN [provider |-> "anthropic", model |-> TRUE, key |-> env.key, url |-> FALSE]
    ELSE [env EXCEPT !.url = env.url \/ env.provider \in Presets]

IsOpenAICompatible(llm) == llm.provider # "anthropic"

(* LLMConfig.is_usable *)
IsUsable(llm) ==
    /\ llm.model
    /\ llm.key \/ llm.provider \in Keyless
    /\ llm.url \/ ~IsOpenAICompatible(llm)

NoReason == "none"

(* LLMConfig.why_unusable(); no reason is the empty string. *)
WhyUnusable(llm) ==
    IF llm.provider \in Keyless /\ ~llm.url THEN "url"
    ELSE IF llm.provider \notin Keyless /\ ~llm.key THEN "key"
    ELSE IF IsOpenAICompatible(llm) /\ ~llm.url THEN "url"
    ELSE IF ~llm.model THEN "model" ELSE NoReason
=============================================================================
