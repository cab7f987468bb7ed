---------------------------- MODULE ModelRegistry ---------------------------
(***************************************************************************)
(* The registry MODELS of python/mlc_llm/model/model.py: configuration,    *)
(* exported functions and KV cache of every architecture, and its loaders  *)
(* for AWQ weights.                                                        *)
(***************************************************************************)
EXTENDS VariantModels, GPTModels, MoEModels, OtherModels

Config(a, raw) ==
  CASE a = "llama" -> LlamaConfig(raw)      [] a = "mistral" -> MistralConfig(raw)
    [] a = "qwen2" -> QWen2Config(raw)      [] a = "baichuan" -> BaichuanConfig(raw)
    [] a = "internlm" -> InternLMConfig(raw) [] a = "internlm2" -> InternLM2Config(raw)
    [] a = "orion" -> OrionConfig(raw)      [] a = "qwen" -> QWenConfig(raw)
    [] a = "qwen3" -> Qwen3Config(raw)      [] a = "stablelm" -> StableLmConfig(raw)
    [] a = "olmo" -> OLMoConfig(raw)        [] a = "gemma" -> GemmaConfig(raw)
    [] a = "gemma2" -> Gemma2Config(raw)    [] a = "gemma3" -> Gemma3Config(raw)
    [] a = "phi3" -> Phi3Config(raw)        [] a = "phi3_v" -> Phi3VConfig(raw)
    [] a = "cohere" -> CohereConfig(raw)    [] a = "chatglm" -> GLMConfig(raw)
    [] a = "nemotron" -> NemotronConfig(raw) [] a = "gpt2" -> GPT2Config(raw)
    [] a = "gpt_bigcode" -> GPTBigCodeConfig(raw) [] a = "gptj" -> GPTJConfig(raw)
    [] a = "gpt_neox" -> GPTNeoXConfig(raw) [] a = "phi" -> Phi1Config(raw)
    [] a = "phi-msft" -> PhiConfig(raw)     [] a = "starcoder2" -> Starcoder2Config(raw)
    [] a = "mixtral" -> MixtralConfig(raw)  [] a = "qwen2_moe" -> Qwen2MoeConfig(raw)
    [] a = "qwen3_moe" -> Qwen3MoeConfig(raw) [] a = "minicpm" -> MiniCPMConfig(raw)
    [] a = "deepseek" -> DeepseekConfig(raw) [] a = "deepseek_v2" -> DeepseekV2Config(raw)
    [] a = "eagle" -> EagleConfig(raw)      [] a = "medusa" -> MedusaConfig(raw)
    [] a = "bert" -> BertConfig(raw)        [] a = "llava" -> LlavaConfig(raw)

Model(a, c, f, in) ==
  CASE a = "llama" -> LlamaForCausalLM(c, f, in) [] a = "mistral" -> MistralForCasualLM(c, f, in)
    [] a = "qwen2" -> QWen2LMHeadModel(c, f, in) [] a = "baichuan" -> BaichuanForCausalLM(c, f, in)
    [] a = "internlm" -> InternLMForCausalLM(c, f, in)
    [] a = "internlm2" -> InternLM2ForCausalLM(c, f, in)
    [] a = "orion" -> OrionForCasualLM(c, f, in) [] a = "qwen" -> QWenLMHeadModel(c, f, in)
    [] a = "qwen3" -> Qwen3LMHeadModel(c, f, in)
    [] a = "stablelm" -> StableLmForCausalLM(c, f, in)
    [] a = "olmo" -> OLMoForCausalLM(c, f, in)
    [] a = "gemma" -> GemmaForCausalLM(c, f, in)
    [] a = "gemma2" -> Gemma2ForCausalLM(c, f, in) [] a = "gemma3" -> Gemma3LanguageModel(c, f, in)
    [] a = "phi3" -> Phi3ForCausalLM(c, f, in)   [] a = "phi3_v" -> Phi3VForCausalLM(c, f, in)
    [] a = "cohere" -> CohereForCausalLM(c, f, in) [] a = "chatglm" -> ChatGLMForCausalLM(c, f, in)
    [] a = "nemotron" -> NemotronForCausalLM(c, f, in) [] a = "gpt2" -> GPT2LMHeadModel(c, f, in)
    [] a = "gpt_bigcode" -> GPTBigCodeForCausalLM(c, f, in)
    [] a = "gptj" -> GPTJForCausalLM(c, f, in)   [] a = "gpt_neox" -> GPTNeoXForCausalLM(c, f, in)
    [] a \in {"phi", "phi-msft"} -> PhiForCausalLM(c, f, in)
    [] a = "starcoder2" -> Starcoder2ForCausalLM(c, f, in)
    [] a = "mixtral" -> MixtralForCasualLM(c, f, in)
    [] a = "qwen2_moe" -> Qwen2MoeForCausalLM(c, f, in)
    [] a = "qwen3_moe" -> Qwen3MoeForCausalLM(c, f, in)
    [] a = "minicpm" -> MiniCPMForCausalLM(c, f, in)
    [] a = "deepseek" -> DeepseekForCausalLM(c, f, in)
    [] a = "deepseek_v2" -> DeepseekV2ForCausalLM(c, f, in)
    [] a = "eagle" -> EagleForCasualLM(c, f, in) [] a = "medusa" -> MedusaModel(c, f, in)
    [] a = "bert" -> BertModel(c, f, in)         [] a = "llava" -> LlavaForCasualLM(c, f, in)

KVCache(a, c) ==
  CASE a \in {"llama", "mixtral"} -> LlamaKVCache(c) [] a = "mistral" -> MistralKVCache(c)
    [] a = "qwen2" -> QWen2KVCache(c)   [] a = "baichuan" -> BaichuanKVCache(c)
    [] a = "internlm" -> InternLMKVCache(c) [] a = "internlm2" -> InternLM2KVCache(c)
    [] a = "orion" -> OrionKVCache(c)   [] a = "qwen" -> QWenKVCache(c)
    [] a = "qwen3" -> Qwen3KVCache(c)   [] a = "stablelm" -> StableLmKVCache(c)
    [] a = "olmo" -> OLMoKVCache(c)     [] a \in {"gemma", "gemma2"} -> GemmaKVCache(c)
    [] a = "gemma3" -> Gemma3KVCache(c) [] a = "phi3" -> Phi3KVCache(c)
    [] a = "phi3_v" -> Phi3VKVCache(c)  [] a = "cohere" -> CohereKVCache(c)
    [] a = "chatglm" -> ChatGLMKVCache(c) [] a = "nemotron" -> NemotronKVCache(c)
    [] a = "gpt2" -> GPT2KVCache(c)     [] a = "gpt_bigcode" -> GPTBigCodeKVCache(c)
    [] a = "gptj" -> GPTJKVCache(c)     [] a = "gpt_neox" -> GPTNeoXKVCache(c)
    [] a \in {"phi", "phi-msft"} -> PhiKVCache(c)
    [] a = "starcoder2" -> Starcoder2KVCache(c) [] a = "qwen2_moe" -> Qwen2MoeKVCache(c)
    [] a = "qwen3_moe" -> Qwen3MoeKVCache(c) [] a = "minicpm" -> MiniCPMKVCache(c)
    [] a = "deepseek" -> DeepseekKVCache(c)  [] a = "deepseek_v2" -> DeepseekV2KVCache(c)
    [] a = "eagle" -> EagleKVCache(c)   [] a = "llava" -> LlavaKVCache(c)

Functions(a) ==
  CASE a \in {"llama", "mixtral"} -> LlamaSpec [] a = "mistral" -> MistralSpec
    [] a = "qwen2" -> QWen2Spec   [] a = "baichuan" -> BaichuanSpec
    [] a = "internlm" -> InternLMSpec [] a = "internlm2" -> InternLM2Spec
    [] a = "orion" -> OrionSpec   [] a = "qwen" -> QWenSpec
    [] a = "qwen3" -> Qwen3Spec   [] a = "stablelm" -> StableLmSpec
    [] a = "olmo" -> OLMoSpec     [] a \in {"gemma", "gemma2"} -> GemmaSpec
    [] a = "gemma3" -> Gemma3Spec [] a = "phi3" -> Phi3Spec
    [] a = "phi3_v" -> Phi3VSpec  [] a = "cohere" -> CohereSpec
    [] a = "chatglm" -> ChatGLMSpec [] a = "nemotron" -> NemotronSpec
    [] a = "gpt2" -> GPT2Spec     [] a = "gpt_bigcode" -> GPTBigCodeSpec
    [] a = "gptj" -> GPTJSpec     [] a = "gpt_neox" -> GPTNeoXSpec
    [] a \in {"phi", "phi-msft"} -> PhiSpec
    [] a = "starcoder2" -> Starcoder2Spec [] a = "qwen2_moe" -> Qwen2MoeSpec
    [] a = "qwen3_moe" -> Qwen3MoeSpec [] a = "minicpm" -> MiniCPMSpec
    [] a = "deepseek" -> DeepseekSpec  [] a = "deepseek_v2" -> DeepseekV2Spec
    [] a = "eagle" -> EagleSpec   [] a = "medusa" -> MedusaSpec
    [] a = "bert" -> BertSpec     [] a = "llava" -> LlavaSpec

AwqSources == {"llama", "mistral", "olmo", "eagle", "llava"}

AwqLoader(a, c) ==
  CASE a = "llama" -> LlamaAwqLoader(c) [] a = "mistral" -> MistralAwqLoader(c)
    [] a = "olmo" -> OLMoAwqLoader(c)   [] a = "eagle" -> EagleAwqLoader(c)
    [] a = "llava" -> LlavaAwqLoader(c)

=============================================================================
