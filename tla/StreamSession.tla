---------------------------- MODULE StreamSession ----------------------------
(***************************************************************************)
(* StreamingGenerator.Stream of stream.go: one request to a model whose    *)
(* answer comes as a stream, and the agentic loop around it, which         *)
(* executes the tools the model calls and asks again with their results.   *)
(*                                                                         *)
(* The session meets a provider, whose server may break                    *)
(* off, end early or stall; the typed handler of the client (ClientStream);*)
(* and the tools.  Reasoning markers in a text, usage, structured output,  *)
(* suggestions and the callbacks beside the typed events are left out.     *)
(***************************************************************************)
EXTENDS ClientStream, FiniteSets

CONSTANTS
  Using,              \* the providers the session may be asked to use
  Turns,              \* the turns a model may take
  Registered,         \* the tools the registry knows, and presentation tools
  MaxToolIterations

VARIABLES
  provider, auto,     \* WithProvider; WithToolRegistry and WithAutoExecuteTools
  pc, iteration,
  expired,            \* the context of the session is done
  wire, reader,       \* chunks to come; what the provider remembers
  h,                  \* the ClientStreamHandler
  gen,                \* the result so far and the current tool of the generator
  todo, ran,          \* the calls of the round to execute, and how they went
  request,            \* the rounds added to the request: calls and results
  client,             \* what the client has seen
  turns, cut          \* the model's turns; the server ended one early

session == <<provider, auto>>
vars == <<provider, auto, pc, iteration, expired, wire, reader, h, gen,
          todo, ran, request, client, turns, cut>>

Ended == {"succeeded", "failed"}

Init ==
  /\ provider \in Using /\ auto \in BOOLEAN
  /\ pc = "ready" /\ iteration = 0 /\ expired = FALSE
  /\ wire = <<>> /\ reader = Reader
  /\ h = NewHandler
  /\ gen = [content |-> <<>>, thinking |-> <<>>, steps |-> <<>>, calls |-> <<>>,
            tool |-> ToolCall(None, None, <<>>)]
  /\ todo = <<>> /\ ran = <<>> /\ request = <<>>
  /\ client = Client
  /\ turns = <<>> /\ cut = FALSE

-----------------------------------------------------------------------------
(* A ToolInvocation; it has arguments under "raw" unless they are empty. *)
Invocation(name, args) == [name |-> name, raw |-> args, processed |-> FALSE]

HandleBlockEvent_ArgsKept(g, event) ==
  LET is(block, state) == event.block = block /\ event.state = state IN
  CASE is("thinking", "delta") -> [g EXCEPT !.thinking = @ \o event.text]
    [] is("thinking", "stop")  -> IF g.thinking = <<>> THEN g ELSE [g EXCEPT !.steps = Append(@, g.thinking)]
    [] is("text", "delta")     -> [g EXCEPT !.content = @ \o event.text]
    [] is("tool_use", "start") -> [g EXCEPT !.tool.id = event.calls[1].id, !.tool.name = event.calls[1].name]
    [] is("tool_use", "delta") -> [g EXCEPT !.tool.args = @ \o event.calls[1].args]
    [] is("tool_use", "stop")  -> [g EXCEPT !.tool.id = None, !.tool.name = None,
                                            !.calls = Append(@, Invocation(g.tool.name, g.tool.args))]
    [] OTHER -> g

(* handleBlockEvent: providers that announce blocks.  A call is complete   *)
(* when its block stops; the end of thinking keeps all thinking so far.    *)
HandleBlockEvent(g, event) ==
  LET is(block, state) == event.block = block /\ event.state = state IN
  CASE is("thinking", "delta") -> [g EXCEPT !.thinking = @ \o event.text]
    [] is("thinking", "stop")  -> IF g.thinking = <<>> THEN g ELSE [g EXCEPT !.steps = Append(@, g.thinking)]
    [] is("text", "delta")     -> [g EXCEPT !.content = @ \o event.text]
    [] is("tool_use", "start") -> IF event.calls = <<>> THEN g
                                  ELSE [g EXCEPT !.tool.id = event.calls[1].id, !.tool.name = event.calls[1].name]
    [] is("tool_use", "delta") -> IF event.calls = <<>> THEN g
                                  ELSE [g EXCEPT !.tool.args = @ \o event.calls[1].args]
    [] is("tool_use", "stop")  ->
         [g EXCEPT !.tool  = ToolCall(None, None, <<>>),
                   !.calls = IF g.tool.id = None THEN @
                             ELSE Append(@, Invocation(g.tool.name, g.tool.args))]
    [] OTHER -> g

(* Events without a block: every call in a choice, or fragment of one, is  *)
(* an invocation.                                                          *)
NoteCall(g, call) ==
  LET new == call.id # None /\ call.id # g.tool.id
  IN [g EXCEPT !.tool.id   = IF new THEN call.id ELSE @,
               !.tool.name = IF new THEN call.name ELSE @,
               !.calls     = Append(@, Invocation(call.name, call.args))]

HandleChoice(g, event) ==
  FoldLeft(NoteCall, [g EXCEPT !.content = @ \o event.text], event.calls)

Accumulate_ByChoice(g, event) == HandleChoice(g, event)

Accumulate(g, event) ==
  IF event.block # None THEN HandleBlockEvent(g, event) ELSE HandleChoice(g, event)

-----------------------------------------------------------------------------
(* ChatStream is called with the request so far. *)
Ask(turn) ==
  /\ pc = "ready" /\ ~expired
  /\ iteration' = iteration + 1
  /\ turns' = Append(turns, turn)
  /\ wire' = ChunksOf(provider, turn)
  /\ reader' = Reader
  /\ pc' = "streaming"
  /\ UNCHANGED <<session, expired, h, gen, todo, ran, request, client, cut>>

(* One chunk: the provider makes an event of it, the typed handler tells   *)
(* the client, the generator adds it to the result.  A server may also     *)
(* send an error, which ends the session before the client hears of it.    *)
Handle(chunk) ==
  LET event == EventOf(provider, reader, chunk)
      told  == HandleChatStreamEvent(h, event)
  IN IF event.error
     THEN pc' = "failed" /\ UNCHANGED <<h, gen, client, reader>>
     ELSE /\ h' = told
          /\ client' = FoldLeft(See, client, told.out)
          /\ gen' = Accumulate(gen, event)
          /\ reader' = ReaderAfter(provider, reader, chunk)
          /\ UNCHANGED pc

Receive ==
  /\ pc = "streaming" /\ ~expired /\ wire # <<>>
  /\ \/ Handle(Head(wire)) /\ wire' = Tail(wire)
     \/ /\ provider = "anthropic"
        /\ Handle([kind |-> "error"]) /\ UNCHANGED wire
  /\ UNCHANGED <<session, iteration, expired, todo, ran, request, turns, cut>>

(* The server ends a stream early: the providers do not ask for the end.   *)
CutShort ==
  /\ pc = "streaming" /\ wire # <<>> /\ provider # "plain"
  /\ wire' = <<>> /\ cut' = TRUE
  /\ UNCHANGED <<session, pc, iteration, expired, reader, h, gen, todo, ran, request, client, turns>>

(* The calls that were not executed yet are this round's. *)
Pending == SelectSeq(gen.calls, LAMBDA c : ~c.processed)

EndOfStream ==
  /\ pc = "streaming" /\ wire = <<>>
  /\ IF auto /\ Pending # <<>>
     THEN pc' = "executing" /\ todo' = Pending /\ ran' = <<>>
     ELSE pc' = "succeeded" /\ UNCHANGED <<todo, ran>>
  /\ UNCHANGED <<session, iteration, expired, wire, reader, h, gen, request, client, turns, cut>>

(* ChatStream fails: the request or the connection does, at any time, or   *)
(* because the context it was made with is done.                           *)
Break ==
  /\ pc \in {"ready", "streaming"}
  /\ pc' = "failed"
  /\ UNCHANGED <<session, iteration, expired, wire, reader, h, gen, todo, ran, request, client, turns, cut>>

TimeOut_OnlyToConnect == expired /\ pc = "ready" /\ Break

TimeOut == expired /\ Break

(* executeToolCalls takes the calls in turn.  A tool that is not known     *)
(* gives an error, and so does one that fails or runs out of time.         *)
Outcomes(call) == IF call.name \in Registered THEN {"result", "error"} ELSE {"error"}

ExecuteTool ==
  /\ pc = "executing" /\ todo # <<>>
  /\ \E outcome \in Outcomes(Head(todo)) :
       ran' = Append(ran, [name |-> Head(todo).name, outcome |-> outcome])
  /\ todo' = Tail(todo)
  /\ UNCHANGED <<session, pc, iteration, expired, wire, reader, h, gen, request, client, turns, cut>>

(* buildToolResultMessages: the round, as it goes back to the model. *)
ToolResultMessages == [calls |-> [i \in DOMAIN Pending |-> ToolCall(None, Pending[i].name, Pending[i].raw)],
                       results |-> ran]

(* The calls are marked, the results added to the request, and the loop    *)
(* begins again unless it has come to its bound.  The current tool is      *)
(* reset, its arguments are not.                                           *)
NextIteration ==
  /\ pc = "executing" /\ todo = <<>>
  /\ request' = Append(request, ToolResultMessages)
  /\ gen' = [gen EXCEPT !.calls = [i \in DOMAIN @ |-> [@[i] EXCEPT !.processed = TRUE]],
                        !.tool.id = None, !.tool.name = None]
  /\ ran' = <<>>
  /\ pc' = IF iteration < MaxToolIterations THEN "ready" ELSE "succeeded"
  /\ UNCHANGED <<session, iteration, expired, wire, reader, h, todo, client, turns, cut>>

(* The timeout passes or the caller gives up. *)
Expire ==
  /\ ~expired /\ pc \notin Ended
  /\ expired' = TRUE
  /\ UNCHANGED <<session, pc, iteration, wire, reader, h, gen, todo, ran, request, client, turns, cut>>

Next ==
  \/ \E turn \in Turns : Ask(turn)
  \/ Receive \/ CutShort \/ EndOfStream \/ Break
  \/ ExecuteTool \/ NextIteration
  \/ Expire

(* The session's own steps happen, tools return, and the timeout passes.   *)
(* Nothing is assumed of the server: it may stall for ever.                *)
Fairness == /\ WF_vars(Expire) /\ WF_vars(TimeOut)
            /\ WF_vars(EndOfStream) /\ WF_vars(ExecuteTool) /\ WF_vars(NextIteration)

Spec == Init /\ [][Next]_vars /\ Fairness

-----------------------------------------------------------------------------
Called == Concat([i \in DOMAIN turns |-> CallsOf(turns[i])])

(* The client can follow: no block begins within another, no delta or end  *)
(* comes outside of its block, and nothing is open at a done, across all   *)
(* rounds of the loop and although each provider marks its blocks in       *)
(* another way, or not at all.  Excepted is the second round of a provider *)
(* that does not stream, whose content is not announced again.             *)
BlocksAreBracketed ==
  client.confused => provider = "plain" /\ Len(turns) > 1

(* The caller's result and the client's screen agree at every moment,      *)
(* whatever was cut short or failed; and at the end, if nothing was cut    *)
(* short, both have what the model said, whole and in order.  Ollama is    *)
(* excepted: its last event repeats the text, which the result has twice.  *)
ContentIsDelivered ==
  /\ provider # "ollama" => gen.content = client.text
  /\ gen.thinking = client.thinking
  /\ pc = "succeeded" /\ ~cut =>
       /\ client.text = Concat([i \in DOMAIN turns |-> TextOf(turns[i], "text")])
       /\ provider = "anthropic" =>
            client.thinking = Concat([i \in DOMAIN turns |-> TextOf(turns[i], "thinking")])

(* Every tool the model calls is executed once, with its own arguments and *)
(* in order, before the model is asked again, and its results go back with *)
(* the next request.  Excepted are OpenAI and LM Studio, whose calls come  *)
(* in fragments, each of which is taken for a call; and streams cut short. *)
CallsAreExecuted ==
  provider \in {"anthropic", "ollama", "plain"} /\ ~cut /\ pc \in {"ready", "succeeded"} =>
    LET back    == Concat([i \in DOMAIN request |-> request[i].calls])
        results == Concat([i \in DOMAIN request |-> request[i].results])
        calls   == [i \in DOMAIN Called |-> [Called[i] EXCEPT !.id = None]]
    IN /\ auto => /\ back = calls
                  /\ [i \in DOMAIN results |-> results[i].name] = [i \in DOMAIN calls |-> calls[i].name]
       /\ [i \in DOMAIN gen.calls |-> ToolCall(None, gen.calls[i].name, gen.calls[i].raw)] = calls

(* The stream of events tells the client, and the caller, what was said.   *)
StreamIsFaithful == BlocksAreBracketed /\ ContentIsDelivered /\ CallsAreExecuted

(* A session that was begun comes to its end, whatever the server does:    *)
(* the context ends every wait, and the loop is bounded.                   *)
StreamEnds == pc = "streaming" ~> pc \in Ended
=============================================================================
