---------------------------- MODULE ProviderCalls ----------------------------
(***************************************************************************)
(* The providers of llm/providers: what a request becomes on its way to    *)
(* the server and its answer on the way back, the limit on requests and    *)
(* the counts of usage.  Several goroutines share one provider.            *)
(*                                                                         *)
(* Hugging Face is two of the providers, for the models it chats with and  *)
(* for those that continue a text.  Sampling options, log probabilities,   *)
(* latencies and choices beyond the first are left out; what a stream      *)
(* brings is the affair of ClientStream.  Usage is one token for every     *)
(* call that reports it; the input, output and total tokens are counted    *)
(* alike.                                                                  *)
(***************************************************************************)
EXTENDS Naturals, Sequences, FiniteSets, SequencesExt

CONSTANTS Askers,      \* goroutines that share the provider
          PerMinute,   \* RateLimit.RequestsPerMinute
          Minute,      \* a minute, in ticks of the clock
          NoText,       \* the empty string, no call, no system prompt
          MaxAsked,    \* bound: calls
          MaxClock     \* bound: ticks

ASSUME PCAssumption == PerMinute \in Nat \ {0} /\ Minute \in Nat \ {0}

VARIABLES
  server,      \* which provider
  window,      \* rateLimit.requestTokens
  ledger,      \* usage
  clock,
  asks,        \* [asker -> its call, and what it knows of the conversation]
  granted,     \* when requests passed the limiter, the last minute of it
  asked,       \* how many calls there have been
  earned,      \* what the calls that have ended should have added to usage
  crossed      \* what two goroutines have been in at once: "limiter", "usage"

providerVars == <<server, window, ledger, clock, asks, asked, granted, earned, crossed>>

Servers == {"openai", "lmstudio", "anthropic", "ollama", "hf_chat", "hf_text"}
Kinds   == {"chat", "stream", "complete", "embed", "health"}
Zero    == [requests |-> 0, tokens |-> 0, errors |-> 0]
Plus(u, v) == [f \in DOMAIN u |-> u[f] + v[f]]

Call(id, name, args) == [id |-> id, name |-> name, args |-> args]
Said(role, text, calls, id) == [role |-> role, text |-> text, calls |-> calls, id |-> id]
(* "tools" is whether the format has a place for the tools that are offered. *)
Request(system, messages, tools) == [system |-> system, messages |-> messages, tools |-> tools]

-----------------------------------------------------------------------------
(* From a conversation to a request. *)
ToolCalls(calls) ==
  [i \in DOMAIN calls |-> Call(calls[i].id, calls[i].name, calls[i].args)]

OpenAIChat_NoIds(ms) ==
  Request(NoText, [i \in DOMAIN ms |-> Said(ms[i].role, ms[i].text, ToolCalls(ms[i].calls), NoText)], TRUE)

OpenAIChat(ms) ==
  Request(NoText, [i \in DOMAIN ms |-> Said(ms[i].role, ms[i].text, ToolCalls(ms[i].calls), ms[i].id)], TRUE)
LMStudioChat(ms) ==
  Request(NoText, [i \in DOMAIN ms |-> Said(ms[i].role, ms[i].text, ToolCalls(ms[i].calls), ms[i].id)], TRUE)

(* The last system message is the system prompt; the input of a call is    *)
(* empty, and a result does not say which call it is of.                   *)
AnthropicChat(ms) ==
  LET systems == SelectSeq(ms, LAMBDA m : m.role = "system")
      others  == SelectSeq(ms, LAMBDA m : m.role # "system")
      uses(calls) == [i \in DOMAIN calls |-> [calls[i] EXCEPT !.args = NoText]]
  IN Request(IF systems = <<>> THEN NoText ELSE Last(systems).text,
             [i \in DOMAIN others |->
                Said(others[i].role, others[i].text, uses(others[i].calls), NoText)], TRUE)

OllamaChat(ms) ==
  Request(NoText, [i \in DOMAIN ms |-> Said(ms[i].role, ms[i].text, <<>>, NoText)], TRUE)
HFChat(ms) ==
  Request(NoText, [i \in DOMAIN ms |-> Said(ms[i].role, ms[i].text, <<>>, NoText)], FALSE)

(* One prompt, in which messages of other roles have no line. *)
HFPrompt(ms) ==
  LET lines == SelectSeq(ms, LAMBDA m : m.role \in {"system", "user", "assistant"})
  IN Request(NoText, [i \in DOMAIN lines |-> Said(lines[i].role, lines[i].text, <<>>, NoText)], FALSE)

ChatRequest(ms) ==
  CASE server = "openai"    -> OpenAIChat(ms)
    [] server = "lmstudio"  -> LMStudioChat(ms)
    [] server = "anthropic" -> AnthropicChat(ms)
    [] server = "ollama"    -> OllamaChat(ms)
    [] server = "hf_chat"   -> HFChat(ms)
    [] server = "hf_text"   -> HFPrompt(ms)

-----------------------------------------------------------------------------
(* From an answer to a reply.  An answer has the pieces of its text, calls *)
(* of tools, "usage" if it reports any, and "whole" unless a server that   *)
(* was not told to stream or not sends it in pieces.  A reply has "some"   *)
(* unless there are no choices.                                            *)
ServerAnswer(text, calls, usage, whole) == [text |-> text, calls |-> calls, usage |-> usage, whole |-> whole]
Reply(some, text, calls) == [some |-> some, text |-> text, calls |-> calls]

OpenAIReply(a)   == Reply(TRUE, a.text, ToolCalls(a.calls))
LMStudioReply(a) == Reply(TRUE, a.text, ToolCalls(a.calls))

(* The arguments are printed the way Go prints a map: not as JSON. *)
Printed == "printed"
AnthropicReply(a) ==
  Reply(a.text # <<>> \/ a.calls # <<>>, a.text,
        [i \in DOMAIN a.calls |-> [a.calls[i] EXCEPT !.args = Printed]])

(* The chunk that is last replaces those before it, and no calls are taken *)
(* from it.                                                                *)
OllamaResult(a) == IF a.whole THEN a ELSE [a EXCEPT !.text = <<>>]
OllamaReply(a)  == Reply(TRUE, OllamaResult(a).text, <<>>)
HFChatReply(a)  == Reply(TRUE, a.text, <<>>)
HFTextReply(a)  == Reply(TRUE, a.text, <<>>)

ChatReply(a) ==
  CASE server = "openai"    -> OpenAIReply(a)
    [] server = "lmstudio"  -> LMStudioReply(a)
    [] server = "anthropic" -> AnthropicReply(a)
    [] server = "ollama"    -> OllamaReply(a)
    [] server = "hf_chat"   -> HFChatReply(a)
    [] server = "hf_text"   -> HFTextReply(a)

-----------------------------------------------------------------------------
(* Completions and embeddings.  Anthropic makes a chat of a completion and *)
(* has no embeddings; Ollama has one field for one input and another for   *)
(* several.                                                                *)
Prompt(text) == Request(NoText, <<Said("prompt", text, <<>>, NoText)>>, FALSE)
OpenAICompletion(text)    == Prompt(text)
LMStudioCompletion(text)  == Prompt(text)
OllamaCompletion(text)    == Prompt(text)
HFCompletion(text)        == Prompt(text)
AnthropicCompletion(text) == AnthropicChat(<<Said("user", text, <<>>, NoText)>>)

CompletionRequest(text) ==
  CASE server = "openai"    -> OpenAICompletion(text)
    [] server = "lmstudio"  -> LMStudioCompletion(text)
    [] server = "anthropic" -> AnthropicCompletion(text)
    [] server = "ollama"    -> OllamaCompletion(text)
    [] server \in {"hf_chat", "hf_text"} -> HFCompletion(text)

OpenAIText(a)    == Reply(TRUE, a.text, <<>>)
LMStudioText(a)  == Reply(TRUE, a.text, <<>>)
OllamaGenerated(a) == IF a.whole THEN a ELSE [a EXCEPT !.text = <<>>]
OllamaText(a)    == Reply(TRUE, OllamaGenerated(a).text, <<>>)
HFText(a)        == Reply(TRUE, a.text, <<>>)
AnthropicText(a) == [AnthropicReply(a) EXCEPT !.calls = <<>>]

CompletionReply(a) ==
  CASE server = "openai"    -> OpenAIText(a)
    [] server = "lmstudio"  -> LMStudioText(a)
    [] server = "anthropic" -> AnthropicText(a)
    [] server = "ollama"    -> OllamaText(a)
    [] server \in {"hf_chat", "hf_text"} -> HFText(a)

Inputs(field, texts) ==
  Request(NoText, [i \in DOMAIN texts |-> Said(field, <<texts[i]>>, <<>>, NoText)], FALSE)
OpenAIInputs(texts)   == Inputs("input", texts)
LMStudioInputs(texts) == Inputs("input", texts)
HFInputs(texts)       == Inputs("inputs", texts)
OllamaInputs(texts)   == Inputs(IF Len(texts) = 1 THEN "prompt" ELSE "input", texts)

EmbeddingRequest(texts) ==
  CASE server = "openai"   -> OpenAIInputs(texts)
    [] server = "lmstudio" -> LMStudioInputs(texts)
    [] server = "ollama"   -> OllamaInputs(texts)
    [] server \in {"hf_chat", "hf_text"} -> HFInputs(texts)

(* The vectors, of the texts they are of. *)
OpenAIVectors(a)   == Reply(TRUE, a.text, <<>>)
LMStudioVectors(a) == Reply(TRUE, a.text, <<>>)
HFVectors(a)       == Reply(TRUE, a.text, <<>>)
OllamaVectors(a)   == Reply(a.text # <<>>, a.text, <<>>)

EmbeddingReply(a) ==
  CASE server = "openai"   -> OpenAIVectors(a)
    [] server = "lmstudio" -> LMStudioVectors(a)
    [] server = "ollama"   -> OllamaVectors(a)
    [] server \in {"hf_chat", "hf_text"} -> HFVectors(a)

-----------------------------------------------------------------------------
(* What an application asks: a conversation with two system messages, a    *)
(* prompt, two texts to embed.                                             *)
Opening == <<Said("system", <<"be brief">>, <<>>, NoText), Said("system", <<"use tools">>, <<>>, NoText),
             Said("user", <<"question">>, <<>>, NoText)>>
Texts   == {<<"t1">>, <<"t1", "t2">>}
(* What a server may answer; the vectors of an embedding stand for their   *)
(* texts, and of a stream only the usage matters.                          *)
Answers(kind, texts) ==
  LET usages == BOOLEAN
      wholes == IF server = "ollama" THEN BOOLEAN ELSE {TRUE}
  IN CASE kind \in {"embed", "stream"} -> {ServerAnswer(texts, <<>>, u, TRUE) : u \in usages}
       [] kind \in {"complete", "health"} ->
            {ServerAnswer(<<"yes", "no">>, <<>>, u, w) : u \in usages, w \in wholes}
       [] OTHER ->
            {ServerAnswer(<<"yes", "no">>, <<>>, u, w) : u \in usages, w \in wholes}
            \union {ServerAnswer(<<"hm">>, <<Call("c1", "find", "json"), Call("c2", "find", "json")>>, TRUE, TRUE),
                    ServerAnswer(<<>>, <<>>, TRUE, TRUE)}

NoRequest == Request(NoText, <<>>, FALSE)
NoAnswer  == ServerAnswer(<<>>, <<>>, FALSE, TRUE)
Out(talk, said) ==
  [at |-> "out", ok |-> TRUE, kind |-> "chat", now |-> 0, copy |-> <<>>, base |-> Zero, due |-> Zero,
   texts |-> <<"t1">>, talk |-> talk, said |-> said, wire |-> NoRequest, answer |-> NoAnswer]
Leave(ask) == Out(ask.talk, ask.said)

ProviderInit ==
  /\ server \in Servers
  /\ window = <<>> /\ granted = <<>>
  /\ ledger = Zero /\ earned = Zero
  /\ clock = Minute
  /\ asks = [a \in Askers |-> Out(Opening, <<>>)] /\ asked = 0
  /\ crossed = {}

Offered(kind) == ~(server = "anthropic" /\ kind = "embed")

(* Streams are not limited, but for Hugging Face, whose stream is a Chat.  *)
(* The health check of OpenAI, LM Studio and Ollama only asks for models.  *)
Probe(kind) == kind = "health" /\ server \in {"openai", "lmstudio", "ollama"}
Limited(kind) ==
  \/ server \in {"hf_chat", "hf_text"}
  \/ server \in {"openai", "anthropic"} /\ kind # "stream" /\ ~Probe(kind)

InLimiter == {"cleaning", "cleaned", "checking", "adding"}
InUsage   == {"loaded", "stored"}

Enters(a, section, name) ==
  crossed' = IF \E b \in Askers \ {a} : asks[b].at \in section THEN crossed \union {name} ELSE crossed

StartAsk(a, kind, texts) ==
  /\ asks[a].at = "out" /\ asked < MaxAsked /\ asked' = asked + 1 /\ Offered(kind)
  /\ kind # "embed" => texts = <<"t1">>
  /\ asks' = [asks EXCEPT ![a] =
       [@ EXCEPT !.at = IF Limited(kind) THEN "cleaning" ELSE "asking", !.kind = kind, !.texts = texts,
                 !.now = IF Limited(kind) THEN clock ELSE 0]]
  /\ UNCHANGED <<server, window, ledger, clock, granted, earned, crossed>>

(* checkRateLimit and cleanupRateLimit: no lock, so what is read from the  *)
(* window may be old when it is written back.                              *)
InMinute(times, now) == SelectSeq(times, LAMBDA t : t + Minute > now)

ReadWindow(a) ==
  /\ asks[a].at = "cleaning"
  /\ asks' = [asks EXCEPT ![a].at = "cleaned", ![a].copy = InMinute(window, asks[a].now)]
  /\ Enters(a, InLimiter \ {"cleaning"}, "limiter")
  /\ UNCHANGED <<server, window, ledger, clock, granted, earned, asked>>

WriteWindow(a) ==
  /\ asks[a].at = "cleaned"
  /\ window' = asks[a].copy
  /\ asks' = [asks EXCEPT ![a].at = "checking", ![a].copy = <<>>]
  /\ UNCHANGED <<server, ledger, clock, granted, earned, crossed, asked>>

checkRateLimit_OffByOne(a) ==
  /\ asks[a].at = "checking"
  /\ asks' = IF Len(window) > PerMinute
             THEN [asks EXCEPT ![a] = Leave(@)]
             ELSE [asks EXCEPT ![a].at = "adding", ![a].copy = Append(window, asks[a].now)]
  /\ UNCHANGED <<server, window, ledger, clock, granted, earned, crossed, asked>>

checkRateLimit(a) ==
  /\ asks[a].at = "checking"
  /\ asks' = IF Len(window) >= PerMinute
             THEN [asks EXCEPT ![a] = Leave(@)]
             ELSE [asks EXCEPT ![a].at = "adding", ![a].copy = Append(window, asks[a].now)]
  /\ UNCHANGED <<server, window, ledger, clock, granted, earned, crossed, asked>>

AddRequest(a) ==
  /\ asks[a].at = "adding"
  /\ window' = asks[a].copy
  /\ granted' = InMinute(Append(granted, asks[a].now), clock)
  /\ asks' = [asks EXCEPT ![a].at = "asking", ![a].now = 0, ![a].copy = <<>>]
  /\ UNCHANGED <<server, ledger, clock, earned, crossed, asked>>

-----------------------------------------------------------------------------
(* makeRequest and its counts.  "due" is what the call adds to usage. *)
Sent(a) ==
  CASE asks[a].kind \in {"chat", "stream"} -> ChatRequest(asks[a].talk)
    [] asks[a].kind = "embed" -> EmbeddingRequest(asks[a].texts)
    [] asks[a].kind = "complete" \/ server \in {"hf_chat", "hf_text"} -> CompletionRequest(<<"prompt">>)
    [] OTHER -> ChatRequest(<<Said("user", <<"Hi">>, <<>>, NoText)>>)

One(reported) == IF reported THEN 1 ELSE 0
Counted(requests, tokens, errors) ==
  [requests |-> One(requests), tokens |-> One(tokens), errors |-> One(errors)]

OpenAIDue(kind, ok, usage) ==
  IF kind = "stream" THEN Counted(TRUE, usage, ~ok) ELSE Counted(ok /\ usage, ok /\ usage, FALSE)
AnthropicDue(kind, ok, usage) == OpenAIDue(kind, ok, usage)
LMStudioDue(kind, ok, usage) ==
  Counted(ok /\ usage /\ kind # "stream", ok /\ usage /\ kind # "stream", ~ok)
OllamaDue(kind, ok, usage) == Counted(ok, ok /\ usage /\ kind # "embed", ~ok)
(* Continuing a text counts characters, reported or not; no embedding counts. *)
HFTextDue(ok)        == Counted(ok, ok, FALSE)
HFChatDue(ok, usage) == Counted(ok /\ usage, ok /\ usage, FALSE)
HFEmbedDue(ok)       == Zero
HFDue(kind, ok, usage) ==
  IF kind = "embed" THEN HFEmbedDue(ok)
  ELSE IF kind \in {"complete", "health"} \/ server = "hf_text" THEN HFTextDue(ok)
  ELSE HFChatDue(ok, usage)

Due(kind, ok, usage) ==
  CASE Probe(kind)          -> Zero
    [] server = "openai"    -> OpenAIDue(kind, ok, usage)
    [] server = "anthropic" -> AnthropicDue(kind, ok, usage)
    [] server = "lmstudio"  -> LMStudioDue(kind, ok, usage)
    [] server = "ollama"    -> OllamaDue(kind, ok, usage)
    [] server \in {"hf_chat", "hf_text"} -> HFDue(kind, ok, usage)

Locked_NotAll == server = "ollama"
Locked == server \in {"lmstudio", "ollama"}

Ends(a, ok, usage, answer) ==
  LET due == Due(asks[a].kind, ok, usage)
  IN /\ asks[a].at = "asking"
     /\ asks' = [asks EXCEPT ![a] =
          [@ EXCEPT !.at = "ended", !.ok = ok, !.wire = Sent(a), !.answer = answer, !.due = due]]
     /\ earned' = Plus(earned, due)
     /\ UNCHANGED <<server, window, ledger, clock, granted, crossed, asked>>

Succeed(a, answer) == ~Probe(asks[a].kind) /\ Ends(a, TRUE, answer.usage, answer)
Probed(a)          == Probe(asks[a].kind) /\ Ends(a, TRUE, FALSE, NoAnswer)
(* A stream that breaks may have reported usage before. *)
Break(a, usage) == (usage => asks[a].kind = "stream") /\ Ends(a, FALSE, usage, NoAnswer)

(* The context of a stream ends, or its handler returns an error. *)
Quit(a) ==
  /\ asks[a].at = "asking" /\ asks[a].kind = "stream" /\ server \notin {"hf_chat", "hf_text"}
  /\ asks' = [asks EXCEPT ![a] = Leave(@)]
  /\ UNCHANGED <<server, window, ledger, clock, granted, earned, crossed, asked>>

(* Under a lock, the counts are one step; without it each of them is read  *)
(* and written, and another goroutine may come in between.                 *)
Done(ask) == IF ask.ok THEN [ask EXCEPT !.at = "counted", !.base = Zero, !.due = Zero] ELSE Leave(ask)

RecordAtOnce(a) ==
  /\ asks[a].at = "ended" /\ (Locked \/ asks[a].due = Zero)
  /\ ledger' = Plus(ledger, asks[a].due)
  /\ asks' = [asks EXCEPT ![a] = Done(@)]
  /\ UNCHANGED <<server, window, clock, granted, earned, crossed, asked>>

LoadUsage(a) ==
  /\ asks[a].at = "ended" /\ ~Locked /\ asks[a].due # Zero
  /\ asks' = [asks EXCEPT ![a].at = "loaded", ![a].base = ledger]
  /\ Enters(a, InUsage, "usage")
  /\ UNCHANGED <<server, window, ledger, clock, granted, earned, asked>>

StoreTokens(a) ==
  /\ asks[a].at = "loaded"
  /\ ledger' = [ledger EXCEPT !.tokens = asks[a].base.tokens + asks[a].due.tokens]
  /\ asks' = [asks EXCEPT ![a].at = "stored", ![a].base = ledger']
  /\ UNCHANGED <<server, window, clock, granted, earned, crossed, asked>>

StoreRequest(a) ==
  /\ asks[a].at = "stored"
  /\ ledger' = [ledger EXCEPT !.requests = asks[a].base.requests + asks[a].due.requests,
                              !.errors = asks[a].base.errors + asks[a].due.errors]
  /\ asks' = [asks EXCEPT ![a] = Done(@)]
  /\ UNCHANGED <<server, window, clock, granted, earned, crossed, asked>>

(* The reply reaches the application, which executes the tools it names    *)
(* and keeps their results for the next request.                           *)
ReplyTo(a) ==
  CASE asks[a].kind = "chat"  -> ChatReply(asks[a].answer)
    [] asks[a].kind = "embed" -> EmbeddingReply(asks[a].answer)
    [] OTHER -> CompletionReply(asks[a].answer)

Continuation(r) ==
  IF r.calls = <<>> THEN <<>>
  ELSE <<Said("assistant", r.text, r.calls, NoText)>>
         \o [i \in DOMAIN r.calls |-> Said("tool", <<"result">>, <<>>, r.calls[i].id)]

ReplyArrives(a) ==
  /\ asks[a].at = "counted"
  /\ asks' = [asks EXCEPT ![a] =
       IF @.kind = "chat" THEN Out(@.talk \o Continuation(ReplyTo(a)), @.said \o @.answer.calls) ELSE Leave(@)]
  /\ UNCHANGED <<server, window, ledger, clock, granted, earned, crossed, asked>>

MinuteTicks ==
  /\ clock < MaxClock /\ clock' = clock + 1
  /\ granted' = InMinute(granted, clock')
  /\ UNCHANGED <<server, window, ledger, asks, earned, crossed, asked>>

ProviderNext ==
  \/ MinuteTicks
  \/ \E a \in Askers :
       \/ \E kind \in Kinds, texts \in Texts : StartAsk(a, kind, texts)
       \/ ReadWindow(a) \/ WriteWindow(a) \/ checkRateLimit(a) \/ AddRequest(a)
       \/ \E answer \in Answers(asks[a].kind, asks[a].texts) : Succeed(a, answer)
       \/ Probed(a) \/ (\E usage \in BOOLEAN : Break(a, usage)) \/ Quit(a)
       \/ RecordAtOnce(a) \/ LoadUsage(a) \/ StoreTokens(a) \/ StoreRequest(a)
       \/ ReplyArrives(a)

-----------------------------------------------------------------------------
(* What a server is sent of a conversation: the texts of the roles its     *)
(* format has a place for, in order; and of the calls that it made itself  *)
(* in earlier answers, all and with their results, or only names, or none. *)
RolesOf(s) == IF s = "anthropic" THEN {"user", "assistant", "tool"}
              ELSE IF s = "hf_text" THEN {"system", "user", "assistant"}
              ELSE {"system", "user", "assistant", "tool"}
Carries(s) == s \in {"openai", "lmstudio"}
IdsOf(calls) == [i \in DOMAIN calls |-> calls[i].id]

RequestIsTrue(a) ==
  LET ask   == asks[a]
      sent  == ask.wire.messages
      due   == SelectSeq(ask.talk, LAMBDA m : m.role \in RolesOf(server))
      shown == FlattenSeq([i \in DOMAIN sent |-> sent[i].calls])
      tools == SelectSeq(sent, LAMBDA m : m.id # NoText)
  IN ask.kind \in {"chat", "stream"} /\ ask.at \in {"ended", "counted"} \union InUsage =>
       /\ Len(sent) = Len(due)
       /\ \A i \in DOMAIN sent : sent[i].role = due[i].role /\ sent[i].text = due[i].text
       /\ server = "anthropic" => ask.wire.system = <<"use tools">>
       /\ Carries(server) => shown = ask.said /\ [i \in DOMAIN tools |-> tools[i].id] = IdsOf(ask.said)
       /\ server = "anthropic" => IdsOf(shown) = IdsOf(ask.said)
       /\ ~Carries(server) => tools = <<>>

(* A reply is the whole answer, its calls where the provider has them; but *)
(* of an answer that came in pieces Ollama's reply has nothing, and an     *)
(* empty answer of Anthropic is no choice at all.                          *)
ReplyIsTrue(a) ==
  LET reply == ReplyTo(a)  answer == asks[a].answer
  IN asks[a].at = "counted" /\ asks[a].kind \in {"chat", "complete", "embed"} =>
       /\ reply.some \/ answer.text \o answer.calls = <<>>
       /\ reply.text = IF answer.whole THEN answer.text ELSE <<>>
       /\ IdsOf(reply.calls) = IF asks[a].kind = "chat" /\ (Carries(server) \/ server = "anthropic") THEN IdsOf(answer.calls) ELSE <<>>
       /\ Carries(server) /\ asks[a].kind = "chat" => reply.calls = answer.calls

(* No more requests pass in a minute than the limit allows, as long as no  *)
(* two goroutines have been in the limiter at once.                        *)
RateHolds == "limiter" \notin crossed => Len(granted) <= PerMinute

(* Usage never has more than the calls have earned, and has all of it when *)
(* they are done, unless two goroutines counted at once without a lock.    *)
UsageIsTrue ==
  /\ \A f \in DOMAIN ledger : ledger[f] <= earned[f]
  /\ (server \in {"lmstudio", "ollama"} \/ "usage" \notin crossed) /\ (\A a \in Askers : asks[a].at \notin {"ended"} \union InUsage)
       => ledger = earned

(* What providers make of requests, answers, limits and usage              *)
(* (llm/providers: convertChatRequest, convertChatResponse, checkRateLimit,*)
(* makeRequest), as the four above say.                                    *)
ProvidersHold ==
  (\A a \in Askers : RequestIsTrue(a) /\ ReplyIsTrue(a)) /\ RateHolds /\ UsageIsTrue
=============================================================================
