--------------------------- MODULE ProviderClients --------------------------
(***************************************************************************)
(* The clients of the eight providers: what each makes of a request, and   *)
(* of the answer it gets.  Prices, token counts and identifiers are left   *)
(* out; texts, roles, their order and the reason a model stopped are kept. *)
(* Then the rest of the LLMProvider trait, and how the command line makes  *)
(* a provider.                                                             *)
(***************************************************************************)
EXTENDS SseDecoder, Selection

ProviderNames ==
    {"openai", "deepseek", "anthropic", "gemini", "groq", "nvidia", "llamacpp", "ml-ops"}
Roles == {"system", "user", "assistant", "function"}

\* A request: messages with a role and a content, which is a text or a list
\* of parts, the system field, and whether its parameters are in range.
PlainText(text) == [form |-> "Text", parts |-> <<[kind |-> "text", text |-> text]>>]
Said(role, text) == [role |-> role, content |-> PlainText(text)]

\* MessageContent::text and its twins: the text parts, images left out.
TextOf(content) ==
    LET parts == content.parts
        kept == Chosen(parts, {i \in DOMAIN parts : parts[i].kind = "text"})
    IN [i \in DOMAIN kept |-> kept[i].text]

\* Request::validate
Valid(request) == request.messages # <<>> /\ request.in_range

\* What goes over the wire: the provider's own slot for a system prompt, and
\* the turns of the conversation.
Wire(system, turns) == [system |-> system, turns |-> turns]
Turn(role, message) == [role |-> role, text |-> TextOf(message.content)]

OfRole(messages, wanted) ==
    Chosen(messages, {i \in DOMAIN messages : messages[i].role \in wanted})

-----------------------------------------------------------------------------

OpenAiRequest(request) ==
    LET ms == request.messages IN
    Wire(<<>>, [i \in DOMAIN ms |-> Turn(ms[i].role, ms[i])])

\* Mutant: the messages that are not the user's go first.
DeepSeekRequestSorted(request) ==
    LET ms == OfRole(request.messages, Roles \ {"user"})
                \o OfRole(request.messages, {"user"})
    IN Wire(<<>>, [i \in DOMAIN ms |-> Turn(ms[i].role, ms[i])])

DeepSeekRequest(request) ==
    LET ms == request.messages IN
    Wire(<<>>, [i \in DOMAIN ms |-> Turn(ms[i].role, ms[i])])

\* request.system is the system prompt; system messages are filtered out.
AnthropicRequest(request) ==
    LET ms == OfRole(request.messages, Roles \ {"system"})
        role(m) == IF m.role = "assistant" THEN "assistant" ELSE "user"
    IN Wire(request.system, [i \in DOMAIN ms |-> Turn(role(ms[i]), ms[i])])

\* The last system message that is a text is the instruction.
GeminiRole(role) ==
    CASE role = "assistant" -> "model"
      [] role = "function"  -> "function"
      [] OTHER              -> "user"

GeminiRequest(request) ==
    LET ms == OfRole(request.messages, Roles \ {"system"})
        instructions == {i \in DOMAIN request.messages :
                            /\ request.messages[i].role = "system"
                            /\ request.messages[i].content.form = "Text"}
        last == CHOOSE i \in instructions : \A j \in instructions : j <= i
    IN Wire(IF instructions = {} THEN <<>> ELSE TextOf(request.messages[last].content),
            [i \in DOMAIN ms |-> Turn(GeminiRole(ms[i].role), ms[i])])

\* Groq and NVIDIA serialise the messages as they are.
GroqRequest(request) ==
    LET ms == request.messages IN
    Wire(<<>>, [i \in DOMAIN ms |-> Turn(ms[i].role, ms[i])])

NvidiaRequest(request) ==
    LET ms == request.messages IN
    Wire(<<>>, [i \in DOMAIN ms |-> Turn(ms[i].role, ms[i])])

\* One transcript; the prompt begins with the system field.
LlamaCppPrompt(request) ==
    LET ms == request.messages IN
    Wire(request.system, [i \in DOMAIN ms |-> Turn(ms[i].role, ms[i])])

\* The system field becomes the first message.
MlOpsRequest(request) ==
    LET ms == request.messages
        system == [i \in DOMAIN request.system |->
                    [role |-> "system", text |-> <<request.system[i]>>]]
    IN Wire(<<>>, system \o [i \in DOMAIN ms |-> Turn(ms[i].role, ms[i])])

-----------------------------------------------------------------------------

\* What a call comes back with: nothing, a status that is no success, a body
\* that does not parse, or the texts of the answer and why the model stopped,
\* in OpenAI's words.
Reply(texts, stop) == [kind |-> "answer", texts |-> texts, stop |-> stop]
NoReply == [kind |-> "network"]
Refusal == [kind |-> "status"]
Garbage == [kind |-> "garbled"]
ReplyKinds == {"network", "status", "garbled", "answer"}

Ok(texts, finish) == [ok |-> TRUE, texts |-> texts, finish |-> finish]
Err(error) == [ok |-> FALSE, error |-> error]

Failed(reply) ==
    CASE reply.kind = "network" -> Err("Network")
      [] reply.kind = "status"  -> Err("Provider")
      [] reply.kind = "garbled" -> Err("Serialization")

FirstOrEmpty(texts) == IF texts = <<>> THEN <<"">> ELSE <<texts[1]>>

\* Mutant: an answer cut off at max_tokens passes for a complete one.
OpenAiFinishComplete(stop) == IF stop = "content_filter" THEN "ContentFilter" ELSE "Stop"

OpenAiFinish(stop) ==
    CASE stop = "stop"           -> "Stop"
      [] stop = "length"         -> "Length"
      [] stop = "content_filter" -> "ContentFilter"
      [] OTHER                   -> "Unknown"

OpenAiResponse(reply) == Ok(reply.texts, OpenAiFinish(reply.stop))

DeepSeekResponse(reply) == Ok(reply.texts, OpenAiFinish(reply.stop))

\* end_turn and stop_sequence, max_tokens; only the first block of the content.
AnthropicResponse(reply) ==
    Ok(FirstOrEmpty(reply.texts),
       CASE reply.stop = "stop"   -> "Stop"
         [] reply.stop = "length" -> "Length"
         [] OTHER                 -> "Unknown")

GeminiResponse(reply) ==
    IF reply.texts = <<>> THEN Err("Provider")
    ELSE Ok(FirstOrEmpty(reply.texts), OpenAiFinish(reply.stop))

\* "Mapping omitted for brevity": no choices, whatever the answer was.
GroqResponse(reply) == Ok(<<>>, NoFinish)
NvidiaResponse(reply) == Ok(<<>>, NoFinish)

\* The completion API tells neither choices nor a reason.
LlamaCppResponse(reply) == Ok(FirstOrEmpty(reply.texts), "Stop")

MlOpsResponse(reply) ==
    Ok(FirstOrEmpty(reply.texts),
       IF reply.texts = <<>> THEN "Stop" ELSE FinishReason(reply.stop))

-----------------------------------------------------------------------------

\* send_request, provider by provider: what is sent, if anything is, and what
\* the caller gets for each reply.
NothingSent == [system |-> <<>>, turns |-> <<>>]
Exchange(wire, result) == [wire |-> wire, result |-> result]
Unsent == Exchange(NothingSent, Err("InvalidRequest"))

OpenAiSend(request, reply) ==
    IF ~Valid(request) THEN Unsent
    ELSE Exchange(OpenAiRequest(request),
              IF reply.kind # "answer" THEN Failed(reply) ELSE OpenAiResponse(reply))

DeepSeekSend(request, reply) ==
    IF ~Valid(request) THEN Unsent
    ELSE Exchange(DeepSeekRequest(request),
              IF reply.kind # "answer" THEN Failed(reply) ELSE DeepSeekResponse(reply))

AnthropicSend(request, reply) ==
    IF ~Valid(request) THEN Unsent
    ELSE Exchange(AnthropicRequest(request),
              IF reply.kind # "answer" THEN Failed(reply) ELSE AnthropicResponse(reply))

\* The others send what they are given, in range or not.
GeminiSend(request, reply) ==
    Exchange(GeminiRequest(request),
         IF reply.kind # "answer" THEN Failed(reply) ELSE GeminiResponse(reply))

GroqSend(request, reply) ==
    Exchange(GroqRequest(request),
         IF reply.kind # "answer" THEN Failed(reply) ELSE GroqResponse(reply))

NvidiaSend(request, reply) ==
    Exchange(NvidiaRequest(request),
         IF reply.kind # "answer" THEN Failed(reply) ELSE NvidiaResponse(reply))

LlamaCppSend(request, reply) ==
    Exchange(LlamaCppPrompt(request),
         IF reply.kind # "answer" THEN Failed(reply) ELSE LlamaCppResponse(reply))

MlOpsSend(request, reply) ==
    Exchange(MlOpsRequest(request),
         IF reply.kind # "answer" THEN Failed(reply) ELSE MlOpsResponse(reply))

SendRequest(p, request, reply) ==
    CASE p = "openai"    -> OpenAiSend(request, reply)
      [] p = "deepseek"  -> DeepSeekSend(request, reply)
      [] p = "anthropic" -> AnthropicSend(request, reply)
      [] p = "gemini"    -> GeminiSend(request, reply)
      [] p = "groq"      -> GroqSend(request, reply)
      [] p = "nvidia"    -> NvidiaSend(request, reply)
      [] p = "llamacpp"  -> LlamaCppSend(request, reply)
      [] p = "ml-ops"    -> MlOpsSend(request, reply)

-----------------------------------------------------------------------------

\* stream_request up to the response's head: an error, or a body to decode.
Opened == [ok |-> TRUE]
Open(wire, reply) ==
    Exchange(wire, IF reply.kind = "answer" THEN Opened ELSE Failed(reply))

OpenAiStream(request, reply) ==
    IF Valid(request) THEN Open(OpenAiRequest(request), reply) ELSE Unsent

DeepSeekStream(request, reply) ==
    IF Valid(request) THEN Open(DeepSeekRequest(request), reply) ELSE Unsent

GroqStream(request, reply) ==
    IF Valid(request) THEN Open(GroqRequest(request), reply) ELSE Unsent

MlOpsStream(request, reply) ==
    IF Valid(request) THEN Open(MlOpsRequest(request), reply) ELSE Unsent

\* The default of the trait, which anthropic, gemini, nvidia and llamacpp keep.
NoStream == Exchange(NothingSent, Err("Provider"))

StreamRequest(p, request, reply) ==
    CASE p = "openai"   -> OpenAiStream(request, reply)
      [] p = "deepseek" -> DeepSeekStream(request, reply)
      [] p = "groq"     -> GroqStream(request, reply)
      [] p = "ml-ops"   -> MlOpsStream(request, reply)
      [] OTHER          -> NoStream

-----------------------------------------------------------------------------

\* What the request that probes a provider comes back with.
Probes == {"2xx", "4xx", "5xx", "none"}

HealthOfProbe(probe) ==
    CASE probe = "2xx" -> "Healthy"
      [] probe = "5xx" -> "Degraded"
      [] OTHER         -> "Unhealthy"

\* What a client says of itself: a fixed list of models is its own name here,
\* and the local servers are asked for theirs.
Services(health, models, streaming) ==
    [health |-> health, models |-> models,
     capabilities |-> [streaming |-> streaming, system_prompts |-> TRUE]]

OpenAiServices(probe) == Services(HealthOfProbe(probe), <<"openai">>, TRUE)

DeepSeekServices(probe) == Services(HealthOfProbe(probe), <<"deepseek">>, TRUE)

\* The probe is a message of one token.
AnthropicServices(probe) == Services(HealthOfProbe(probe), <<"anthropic">>, TRUE)

\* Any response is health.
GeminiServices(probe) ==
    Services(IF probe = "none" THEN "Unhealthy" ELSE "Healthy", <<"gemini">>, FALSE)

\* Nobody is asked.
GroqServices == Services("Healthy", <<"groq">>, TRUE)

NvidiaServices == Services("Healthy", <<"nvidia">>, TRUE)

LocalHealth(probe) == IF probe = "2xx" THEN "Healthy" ELSE "Degraded"

Offline == <<"offline">>

\* A list that cannot be parsed is an error of list_models.
Unparsable == <<"unparsable">>

\* The model of the configuration stands in for an empty list too.
LlamaCppServices(probe, listed) ==
    Services(LocalHealth(probe), IF probe # "2xx" \/ listed = <<>> THEN Offline ELSE listed,
             FALSE)

MlOpsServices(probe, listed) ==
    Services(LocalHealth(probe), IF probe # "2xx" THEN Offline ELSE listed, TRUE)

ServicesOf(p, probe, listed) ==
    CASE p = "openai"    -> OpenAiServices(probe)
      [] p = "deepseek"  -> DeepSeekServices(probe)
      [] p = "anthropic" -> AnthropicServices(probe)
      [] p = "gemini"    -> GeminiServices(probe)
      [] p = "groq"      -> GroqServices
      [] p = "nvidia"    -> NvidiaServices
      [] p = "llamacpp"  -> LlamaCppServices(probe, listed)
      [] p = "ml-ops"    -> MlOpsServices(probe, listed)

\* Response::text: the first choice's, if there is one.
HasText(result) == result.texts # <<>>
ResponseText(result) == result.texts[1]

\* build_provider: the client of a name of the command line; the name of the
\* ml-ops client is mlops there.
Built(name) == IF name = "mlops" THEN "ml-ops" ELSE name
CanBuild(name) == name # "ml-ops" /\ Built(name) \in ProviderNames

\* resolve_api_key: the option, or for a provider that is not local one of two
\* environment variables; "" where none is set.
ApiKey(name, option, own, generic) ==
    CASE option # "" -> option
      [] option = "" /\ name \in {"llamacpp", "mlops"} -> "local"
      [] OTHER -> IF own # "" THEN own ELSE generic

=============================================================================
