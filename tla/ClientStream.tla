---------------------------- MODULE ClientStream ----------------------------
(***************************************************************************)
(* How a model's turn reaches the handler of a stream: what a provider's   *)
(* server sends, chunk by chunk, and the ChatStreamEvents that the         *)
(* provider makes of it (llm/providers), or that LLMManager.ChatStream     *)
(* makes up for a provider that does not stream.                           *)
(*                                                                         *)
(* A turn is a sequence of parts: text, thinking, or the call of a tool,   *)
(* whose text or arguments come in pieces.  A string is the sequence of    *)
(* the pieces that were joined to it, <<>> the empty string.  Usage, roles *)
(* and chunks without an event (pings, message_start) are left out.        *)
(***************************************************************************)
EXTENDS Naturals, Sequences, SequencesExt

CONSTANTS None       \* the empty string, where a name or a type is expected

Part(kind, id, name, pieces) ==
  [kind |-> kind, id |-> id, name |-> name, pieces |-> pieces]

Concat(ss) == FoldLeft(LAMBDA s, t : s \o t, <<>>, ss)

OfKind(turn, kind) == SelectSeq(turn, LAMBDA p : p.kind = kind)
TextOf(turn, kind) == LET ps == OfKind(turn, kind)
                      IN Concat([i \in DOMAIN ps |-> ps[i].pieces])

(* A tool call, or a fragment of one, in an event. *)
ToolCall(id, name, args) == [id |-> id, name |-> name, args |-> args]
CallsOf(turn) == LET ps == OfKind(turn, "tool_use")
                 IN [i \in DOMAIN ps |-> ToolCall(ps[i].id, ps[i].name, ps[i].pieces)]

(* A ChatStreamEvent: its first choice has a delta or a message, or there  *)
(* is none.                                                                *)
Event == [done |-> FALSE, error |-> FALSE, block |-> None, state |-> None,
          choice |-> "none", text |-> <<>>, calls |-> <<>>, finish |-> FALSE]
Delta(text, calls) == [Event EXCEPT !.choice = "delta", !.text = text, !.calls = calls]
Done  == [Event EXCEPT !.done = TRUE]

-----------------------------------------------------------------------------
(* OpenAI and LM Studio: a call comes in fragments, of which the first has *)
(* the identifier and the name and the others one piece each.              *)
OpenAIChunks(turn) ==
  LET fragments(p) == <<ToolCall(p.id, p.name, <<>>)>>
                        \o [i \in DOMAIN p.pieces |-> ToolCall(None, None, <<p.pieces[i]>>)]
      chunks(p) == IF p.kind = "tool_use"
                   THEN [i \in DOMAIN fragments(p) |-> [text |-> <<>>, call |-> <<fragments(p)[i]>>]]
                   ELSE [i \in DOMAIN p.pieces |-> [text |-> <<p.pieces[i]>>, call |-> <<>>]]
      said == SelectSeq(turn, LAMBDA p : p.kind # "thinking")
  IN <<[kind |-> "delta", text |-> <<>>, call |-> <<>>]>>
       \o LET cs == Concat([i \in DOMAIN said |-> chunks(said[i])])
          IN [i \in DOMAIN cs |-> [kind |-> "delta", text |-> cs[i].text, call |-> cs[i].call]]
       \o <<[kind |-> "finish"], [kind |-> "done"]>>

(* parseOpenAIStreamChunk, and the [DONE] line. *)
OpenAIEvent(chunk) ==
  CASE chunk.kind = "delta"  -> Delta(chunk.text, chunk.call)
    [] chunk.kind = "finish" -> [Delta(<<>>, <<>>) EXCEPT !.finish = TRUE]
    [] chunk.kind = "done"   -> Done

(* parseStreamChunk of the LM Studio provider does the same. *)
LMStudioEvent(chunk) == OpenAIEvent(chunk)

-----------------------------------------------------------------------------
(* Ollama: a call comes in one piece and without an identifier; the last   *)
(* chunk is empty.                                                         *)
OllamaChunks(turn) ==
  LET said == SelectSeq(turn, LAMBDA p : p.kind # "thinking")
      chunks(p) == IF p.kind = "tool_use" THEN <<[kind |-> "call", name |-> p.name, args |-> p.pieces]>>
                   ELSE [i \in DOMAIN p.pieces |-> [kind |-> "text", piece |-> p.pieces[i]]]
  IN Concat([i \in DOMAIN said |-> chunks(said[i])]) \o <<[kind |-> "done"]>>

(* ChatStream of the Ollama provider numbers the calls of a chunk, and     *)
(* repeats the whole text in the message of its last event.                *)
OllamaEvent(said, chunk) ==
  CASE chunk.kind = "text" -> Delta(<<chunk.piece>>, <<>>)
    [] chunk.kind = "call" -> Delta(<<>>, <<ToolCall("call_0", chunk.name, chunk.args)>>)
    [] chunk.kind = "done" -> [Done EXCEPT !.choice = "message", !.text = said, !.finish = TRUE]

OllamaSaid(said, chunk) == IF chunk.kind = "text" THEN Append(said, chunk.piece) ELSE said

-----------------------------------------------------------------------------
(* Anthropic: every part is a block with a start, deltas and a stop. *)
AnthropicChunks(turn) ==
  LET chunks(p) == <<[kind |-> "content_block_start", block |-> p.kind, id |-> p.id, name |-> p.name]>>
                     \o [i \in DOMAIN p.pieces |-> [kind |-> "content_block_delta", of |-> p.kind, piece |-> p.pieces[i]]]
                     \o <<[kind |-> "content_block_stop"]>>
  IN Concat([i \in DOMAIN turn |-> chunks(turn[i])])
       \o <<[kind |-> "message_delta"], [kind |-> "message_stop"]>>

(* anthropicStreamState: the block and the tool call that are open. *)
NoBlock == [block |-> None, id |-> None, name |-> None]

(* parseAnthropicStreamEvent, and the done event ChatStream adds. *)
AnthropicEvent(open, chunk) ==
  LET block(type, state) == [Delta(<<>>, <<>>) EXCEPT !.block = type, !.state = state] IN
  CASE chunk.kind = "content_block_start" ->
         [block(chunk.block, "start") EXCEPT
            !.calls = IF chunk.block = "tool_use" THEN <<ToolCall(chunk.id, chunk.name, <<>>)>> ELSE <<>>]
    [] chunk.kind = "content_block_delta" ->
         IF chunk.of = "tool_use"
         THEN [block(open.block, "delta") EXCEPT !.calls = <<ToolCall(open.id, open.name, <<chunk.piece>>)>>]
         ELSE [block(IF chunk.of = "thinking" THEN "thinking" ELSE open.block, "delta") EXCEPT
                 !.text = <<chunk.piece>>]
    [] chunk.kind = "content_block_stop" -> block(open.block, "stop")
    [] chunk.kind = "message_delta" -> [Event EXCEPT !.choice = "message", !.finish = TRUE]
    [] chunk.kind = "message_stop"  -> Done
    [] chunk.kind = "error"         -> [Event EXCEPT !.error = TRUE]

AnthropicOpen(open, chunk) ==
  CASE chunk.kind = "content_block_start" ->
         IF chunk.block = "tool_use" THEN [block |-> chunk.block, id |-> chunk.id, name |-> chunk.name]
                                     ELSE [open EXCEPT !.block = chunk.block]
    [] chunk.kind = "content_block_stop" -> NoBlock
    [] OTHER -> open

-----------------------------------------------------------------------------
(* A provider that does not stream: the answer, from which                 *)
(* LLMManager.ChatStream makes a message and a done event.                 *)
PlainChunks(turn) ==
  (IF turn = <<>> THEN <<>> ELSE <<[kind |-> "message", text |-> TextOf(turn, "text"), calls |-> CallsOf(turn)]>>)
    \o <<[kind |-> "done"]>>

PlainEvent(chunk) ==
  CASE chunk.kind = "message" -> [Event EXCEPT !.choice = "message", !.text = chunk.text, !.calls = chunk.calls]
    [] chunk.kind = "done"    -> Done

-----------------------------------------------------------------------------
Providers == {"openai", "lmstudio", "ollama", "anthropic", "plain"}

ChunksOf(provider, turn) ==
  CASE provider \in {"openai", "lmstudio"} -> OpenAIChunks(turn)
    [] provider = "ollama"    -> OllamaChunks(turn)
    [] provider = "anthropic" -> AnthropicChunks(turn)
    [] provider = "plain"     -> PlainChunks(turn)

(* What a provider remembers while it reads a stream: for Ollama the text, *)
(* for Anthropic the open block.                                           *)
Reader == [said |-> <<>>, open |-> NoBlock]

EventOf(provider, reader, chunk) ==
  CASE provider = "openai"    -> OpenAIEvent(chunk)
    [] provider = "lmstudio"  -> LMStudioEvent(chunk)
    [] provider = "ollama"    -> OllamaEvent(reader.said, chunk)
    [] provider = "anthropic" -> AnthropicEvent(reader.open, chunk)
    [] provider = "plain"     -> PlainEvent(chunk)

ReaderAfter(provider, reader, chunk) ==
  CASE provider = "ollama"    -> [reader EXCEPT !.said = OllamaSaid(@, chunk)]
    [] provider = "anthropic" -> [reader EXCEPT !.open = AnthropicOpen(@, chunk)]
    [] OTHER -> reader
---------------------------------------------------------------------------
(***************************************************************************)
(* The ClientStreamHandler of llm/stream_handler.go: it turns the events   *)
(* of a provider into typed events for a client, which open and close      *)
(* blocks of thinking, content and tool use.  A handler is a record;       *)
(* "out" are the typed events it has sent for the event at hand.           *)
(*                                                                         *)
(* The channel of events is left out: nothing reads it, sends to it never  *)
(* wait.  The callback never returns an error.                             *)
(***************************************************************************)

(* NewClientStreamHandler *)
NewHandler == [block |-> None, started |-> FALSE, tool |-> None,
               content |-> FALSE, index |-> 0, out |-> <<>>]

(* sendEvent; a delta takes the next index. *)
Send(h, type, tool, text) ==
  [h EXCEPT !.out = Append(@, [type |-> type, tool |-> tool, text |-> text, index |-> h.index])]
SendDelta(h, type, tool, text) ==
  [Send(h, type, tool, text) EXCEPT !.index = @ + 1]

EndCurrentBlock(h) ==
  LET ended == [h EXCEPT !.started = FALSE] IN
  CASE ~h.started -> h
    [] h.started /\ h.block = "thinking" -> Send(ended, "thinking_end", None, <<>>)
    [] h.started /\ h.block = "text"     -> Send(ended, "content_end", None, <<>>)
    [] h.started /\ h.block = "tool_use" ->
         IF h.tool = None THEN ended
         ELSE [Send(ended, "tool_use_end", h.tool, <<>>) EXCEPT !.tool = None]

(* handleBlockTransition; a block of tool use is announced with its call. *)
BlockTransition(h, type) ==
  LET begun == [EndCurrentBlock(h) EXCEPT !.block = type, !.started = TRUE] IN
  IF h.started /\ h.block = type THEN h
  ELSE CASE type = "thinking" -> Send(begun, "thinking_start", None, <<>>)
         [] type = "text"     -> Send([begun EXCEPT !.content = TRUE], "content_start", None, <<>>)
         [] type = "tool_use" -> begun

(* handleToolCallDelta for one fragment: a new identifier begins a call. *)
ToolCallDelta(h, call) ==
  LET new    == call.id # None /\ call.id # h.tool
      closed == IF new /\ h.tool # None THEN Send(h, "tool_use_end", h.tool, <<>>) ELSE h
      opened == IF new THEN Send([closed EXCEPT !.tool = call.id], "tool_use_start", call.id, <<>>)
                       ELSE h
  IN IF call.args = <<>> THEN opened
     ELSE SendDelta(opened, "tool_use_delta", opened.tool, call.args)

(* determineBlockType *)
BlockTypeOf(event) ==
  CASE event.block # None -> event.block
    [] event.block = None /\ event.calls # <<>> -> "tool_use"
    [] OTHER -> "text"

HandleDelta(h, event) ==
  LET type == BlockTypeOf(event)
      in   == BlockTransition(h, type)
  IN CASE event.text # <<>> ->
            SendDelta(in, IF type = "thinking" THEN "thinking_delta" ELSE "content_delta", None, event.text)
       [] event.text = <<>> /\ event.calls # <<>> -> FoldLeft(ToolCallDelta, in, event.calls)
       [] event.text = <<>> /\ event.calls = <<>> -> IF event.finish THEN EndCurrentBlock(in) ELSE in

(* handleToolCall: a whole call. *)
WholeCall(h, call) ==
  LET opened == Send(h, "tool_use_start", call.id, <<>>)
      told   == IF call.args = <<>> THEN opened
                ELSE SendDelta(opened, "tool_use_delta", call.id, call.args)
  IN Send(told, "tool_use_end", call.id, <<>>)

(* handleMessage: content is announced once in the life of a handler. *)
HandleMessage(h, event) ==
  LET opened == IF h.content THEN h ELSE [Send(h, "content_start", None, <<>>) EXCEPT !.content = TRUE]
      told   == SendDelta(opened, "content_delta", None, event.text)
  IN FoldLeft(WholeCall, Send(told, "content_end", None, <<>>), event.calls)

HandleDone_BlockLeftOpen(h) == Send(h, "done", None, <<>>)

(* handleDone *)
HandleDone(h) == Send(EndCurrentBlock(h), "done", None, <<>>)

(* HandleChatStreamEvent, when the context is not done. *)
HandleChatStreamEvent(h, event) ==
  LET fresh == [h EXCEPT !.out = <<>>] IN
  CASE event.error -> Send(fresh, "error", None, <<>>)
    [] event.done  -> HandleDone(fresh)
    [] event.choice = "delta"   /\ ~event.done -> HandleDelta(fresh, event)
    [] event.choice = "message" /\ ~event.done ->
         IF event.text = <<>> THEN fresh ELSE HandleMessage(fresh, event)
    [] OTHER -> fresh

-----------------------------------------------------------------------------
(* What a client makes of the typed events: the text and the thinking it   *)
(* has read, which block is open, and whether something came that does not *)
(* fit, a delta or an end without a start or a start within a block.       *)
Client == [open |-> "nothing", tool |-> None, confused |-> FALSE,
           text |-> <<>>, thinking |-> <<>>]

Blocks == {"thinking", "content", "tool_use"}
Read(c, e) == [c EXCEPT !.text     = IF e.type = "content_delta" THEN @ \o e.text ELSE @,
                        !.thinking = IF e.type = "thinking_delta" THEN @ \o e.text ELSE @]
Follow(c, e) ==
  LET begins(b) == e.type = b \o "_start"
      inside(b) == e.type = b \o "_delta"
      ends(b)   == e.type = b \o "_end"
      fits(b)   == c.open = b /\ (b = "tool_use" => c.tool = e.tool)
      unfit     == [c EXCEPT !.confused = TRUE]
  IN CASE \E b \in Blocks : begins(b) ->
            IF c.open # "nothing" THEN unfit
            ELSE [c EXCEPT !.open = CHOOSE b \in Blocks : begins(b), !.tool = e.tool]
       [] \E b \in Blocks : inside(b) /\ fits(b) -> c
       [] \E b \in Blocks : ends(b) /\ fits(b)   -> [c EXCEPT !.open = "nothing", !.tool = None]
       [] \E b \in Blocks : (inside(b) \/ ends(b)) /\ ~fits(b) -> unfit
       [] OTHER -> IF e.type = "done" /\ c.open # "nothing" THEN unfit ELSE c
See(c, e) == Follow(Read(c, e), e)
=============================================================================
