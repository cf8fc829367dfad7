------------------------------- MODULE Handoffs -------------------------------
(***************************************************************************)
(* Handing work from one agent to another (handoff.go): the registry of    *)
(* agents and their aliases, HandoffManager with single and chained        *)
(* handoffs and automatic routing, and the handoff_to_agent tool, through   *)
(* which an agent hands off while its own Execute waits for the tool.      *)
(*                                                                         *)
(* Agents are shared: nothing keeps two handoffs to one agent apart, so    *)
(* histories are copied message by message between the messages of other   *)
(* executions, and what a chain leaves in the agent's data for the next    *)
(* step can be overwritten before the step executes.  maxChainDepth bounds *)
(* the list given to ChainedHandoff only; handoffs by tool nest freely,    *)
(* also back into an agent that is executing.                              *)
(*                                                                         *)
(* Execute is AgentSession's; here it is a question, any number of handoffs *)
(* by tool, and an answer or an error.  An agent whose session has a       *)
(* handoff to itself copies its history behind itself.                     *)
(***************************************************************************)
EXTENDS Integers, Sequences, FiniteSets

CONSTANTS Agents,    \* agents, each the only one with its ID
          Aliases,   \* the aliases they are registered with
          Callers,   \* goroutines that hand off
          Chains,    \* the lists of handoffs they make: [to, from, preserve]
          MaxDepth,  \* bound: how deep handoffs by tool nest
          MaxNested,  \* bound: how many of them a caller's execution makes
          MaxAdmin   \* bound: how often the registry changes

NoAgent == "no agent"

ASSUME HandoffAssumption == /\ NoAgent \notin Agents
                            /\ MaxDepth \in Nat \ {0}
                            /\ MaxNested \in Nat
                            /\ MaxAdmin \in Nat

VARIABLES agents,    \* r.agents
          aliases,   \* r.aliases
          turns,     \* agent.state.History
          previous,  \* agent.state.Data["previous_response"]
          caller,    \* what each caller is doing
          stack,     \* the handoffs open in it, the innermost last: placed, where
                     \* their agents' histories have the messages copied so far
          naming,    \* the registration whose alias is not set yet
          admin,     \* how often the registry changed
          told,      \* observer: how often each caller's callbacks were called
          touched,   \* observer: agents whose data another chain wrote, per caller
          overlap    \* observer: aliases set while the agent was unregistered

handoffVars == <<agents, aliases, turns, previous, caller, stack, naming, admin,
                 told, touched, overlap>>

NoResponse == <<"none", 0>>

HandoffsAtRest ==
  /\ agents = Agents
  /\ aliases \in [Aliases -> Agents]
  /\ turns = [a \in Agents |-> <<>>]
  /\ previous = [a \in Agents |-> NoResponse]
  /\ stack = [c \in Callers |-> <<>>]
  /\ naming = <<>>
  /\ admin = 0
  /\ told = [c \in Callers |-> [start |-> 0, complete |-> 0, error |-> 0]]
  /\ touched = [c \in Callers |-> {}]
  /\ overlap = {}

HandoffInit ==
  /\ HandoffsAtRest
  /\ caller \in [Callers -> [chain : Chains, at : {0}, tools : {0}, made : {0},
                             last : {NoResponse}, outcome : {"none"}]]

-----------------------------------------------------------------------------
(* AgentRegistry.Get: an ID before an alias. *)
Get(name) ==
  CASE name \in agents -> name
    [] name \in Aliases -> IF aliases[name] \in agents THEN aliases[name] ELSE NoAgent
    [] OTHER -> NoAgent

Registered(name) == Get(name) # NoAgent

(* Register, and the second half of RegisterWithAlias, a lock apart. *)
Register(a) ==
  /\ a \notin agents
  /\ naming = <<>>
  /\ admin < MaxAdmin
  /\ admin' = admin + 1
  /\ agents' = agents \cup {a}
  /\ naming' \in {<<>>} \cup {<<a, x>> : x \in Aliases}
  /\ UNCHANGED <<aliases, turns, previous, caller, stack, told, touched, overlap>>

SetAlias ==
  /\ naming # <<>>
  /\ aliases' = [aliases EXCEPT ![naming[2]] = naming[1]]
  /\ naming' = <<>>
  /\ overlap' = IF naming[1] \in agents THEN overlap \ {naming[2]}
                                        ELSE overlap \cup {naming[2]}
  /\ UNCHANGED <<agents, turns, previous, caller, stack, admin, told, touched>>

(* A variant of Unregister that leaves the aliases. *)
UnregisterAgentOnly(a) ==
  /\ a \in agents
  /\ admin < MaxAdmin
  /\ admin' = admin + 1
  /\ agents' = agents \ {a}
  /\ UNCHANGED <<aliases, turns, previous, caller, stack, naming, told, touched, overlap>>

Unregister(a) ==
  /\ a \in agents
  /\ admin < MaxAdmin
  /\ admin' = admin + 1
  /\ agents' = agents \ {a}
  /\ aliases' = [x \in Aliases |-> IF aliases[x] = a THEN NoAgent ELSE aliases[x]]
  /\ UNCHANGED <<turns, previous, caller, stack, naming, told, touched, overlap>>

-----------------------------------------------------------------------------
Depth(c)  == Len(stack[c])
Top(c)    == stack[c][Depth(c)]
Idle(c)   == stack[c] = <<>>
Told(c, what) == told' = [told EXCEPT ![c][what] = @ + 1]

SetTop(c, f) == stack' = [stack EXCEPT ![c][Depth(c)] = f]

(* The handoff by which the innermost execution of c, if any, is left.     *)
Frame(c, h) ==
  [to |-> Get(h.to), at |-> "preserving", n |-> caller[c].made + 1,
   source |-> IF h.preserve /\ Registered(h.from) THEN turns[Get(h.from)] ELSE <<>>,
   placed |-> <<>>, chained |-> Idle(c), quiet |-> FALSE]

(***************************************************************************)
(* Handoff up to applyPreservation: the start callback, the look-ups, and  *)
(* the copy of the other agent's state; or there is no such agent.         *)
(***************************************************************************)
Opens(c, h) ==
  /\ Registered(h.to)
  /\ stack' = [stack EXCEPT ![c] = Append(@, Frame(c, h))]
  /\ Told(c, "start")

(* AutoRoute and ExecuteWithHandoff: Execute of the agent that the router   *)
(* chose among those registered, or of the agent itself; no callbacks.     *)
AutoRoute(c) ==
  /\ Idle(c)
  /\ caller[c].outcome = "none"
  /\ caller[c].chain = <<>>
  /\ \E a \in agents :
       stack' = [stack EXCEPT ![c] = <<[to |-> a, at |-> "ready", n |-> 1, source |-> <<>>,
                                        placed |-> <<>>, chained |-> TRUE, quiet |-> TRUE]>>]
  /\ caller' = [caller EXCEPT ![c].made = 1]
  /\ UNCHANGED <<agents, aliases, turns, previous, naming, admin, told, touched, overlap>>

NotFound(c) == told' = [told EXCEPT ![c].start = @ + 1, ![c].error = @ + 1]

Chain(c) == caller[c].chain

(* ChainedHandoff, or Handoff when the list has one: its next handoff.     *)
HandOff(c) ==
  /\ Idle(c)
  /\ caller[c].outcome = "none"
  /\ caller[c].at < Len(Chain(c))
  /\ LET h == Chain(c)[caller[c].at + 1]
     IN \/ /\ Opens(c, h)
           /\ caller' = [caller EXCEPT ![c].at = @ + 1, ![c].made = @ + 1]
           /\ touched' = [touched EXCEPT ![c] = {}]
        \/ /\ ~Registered(h.to)
           /\ NotFound(c)
           /\ caller' = [caller EXCEPT ![c].outcome = "failed"]
           /\ UNCHANGED <<stack, touched>>
  /\ UNCHANGED <<agents, aliases, turns, previous, naming, admin, overlap>>

(* The handler of handoff_to_agent, or of use_specialized_tool, which does  *)
(* not preserve the history; it runs inside Execute of the agent that      *)
(* hands off.  An error goes to the model as the tool's.                   *)
HandOffByTool(c, to, preserve) ==
  /\ ~Idle(c)
  /\ Top(c).at = "executing"
  /\ Depth(c) < MaxDepth
  /\ caller[c].tools < MaxNested
  /\ LET h == [to |-> to, from |-> Top(c).to, preserve |-> preserve]
     IN \/ /\ Opens(c, h)
           /\ caller' = [caller EXCEPT ![c].tools = @ + 1, ![c].made = @ + 1]
        \/ /\ ~Registered(to)
           /\ NotFound(c)
           /\ caller' = [caller EXCEPT ![c].tools = @ + 1]
           /\ UNCHANGED stack
  /\ UNCHANGED <<agents, aliases, turns, previous, naming, admin, touched, overlap>>

(* A variant of CopyMessage that looks at the last message again. *)
CopyLastMessage(c) ==
  /\ ~Idle(c)
  /\ LET f == Top(c)
     IN /\ f.at = "preserving"
        /\ Len(f.placed) < Len(f.source)
        /\ turns' = [turns EXCEPT ![f.to] = Append(@, f.source[Len(f.source)])]
        /\ SetTop(c, [f EXCEPT !.placed = Append(@, Len(turns[f.to]) + 1)])
  /\ UNCHANGED <<agents, aliases, previous, caller, naming, admin, told, touched, overlap>>

(* applyPreservation: one addToHistory. *)
CopyMessage(c) ==
  /\ ~Idle(c)
  /\ LET f == Top(c)
     IN /\ f.at = "preserving"
        /\ Len(f.placed) < Len(f.source)
        /\ turns' = [turns EXCEPT ![f.to] = Append(@, f.source[Len(f.placed) + 1])]
        /\ SetTop(c, [f EXCEPT !.placed = Append(@, Len(turns[f.to]) + 1)])
  /\ UNCHANGED <<agents, aliases, previous, caller, naming, admin, told, touched, overlap>>

(* The context of the handoff goes into the agent's data; in a chain it has *)
(* the response of the step before.                                        *)
SetStateData(c) ==
  /\ ~Idle(c)
  /\ LET f == Top(c)
     IN /\ f.at = "preserving"
        /\ Len(f.placed) = Len(f.source)
        /\ SetTop(c, [f EXCEPT !.at = "ready"])
        /\ IF f.chained /\ caller[c].last # NoResponse
             THEN /\ previous' = [previous EXCEPT ![f.to] = caller[c].last]
                  /\ touched' = [d \in Callers |-> IF d = c THEN touched[d]
                                                            ELSE touched[d] \cup {f.to}]
             ELSE UNCHANGED <<previous, touched>>
  /\ UNCHANGED <<agents, aliases, turns, caller, naming, admin, told, overlap>>

(* Execute adds its question, which for a handoff by tool is empty. *)
BeginTask(c) ==
  /\ ~Idle(c)
  /\ LET f == Top(c)
     IN /\ f.at = "ready"
        /\ turns' = [turns EXCEPT ![f.to] = Append(@, <<c, f.n, "user">>)]
        /\ SetTop(c, [f EXCEPT !.at = "executing", !.source = <<>>, !.placed = <<>>])
  /\ UNCHANGED <<agents, aliases, previous, caller, naming, admin, told, touched, overlap>>

(* The innermost execution returns: to the tool call of the one around it,  *)
(* or to the chain.                                                        *)
Closes(c) == stack' = [stack EXCEPT ![c] = SubSeq(@, 1, Len(@) - 1)]

AnswerTask(c) ==
  /\ ~Idle(c)
  /\ LET f == Top(c)
     IN /\ f.at = "executing"
        /\ turns' = [turns EXCEPT ![f.to] = Append(@, <<c, f.n, "assistant">>)]
        /\ Closes(c)
        /\ IF f.quiet THEN UNCHANGED told ELSE Told(c, "complete")
        /\ caller' = IF ~f.chained THEN caller
                     ELSE [caller EXCEPT ![c].last = <<c, f.n>>,
                             ![c].outcome = IF caller[c].at = Len(Chain(c)) THEN "ok" ELSE @]
  /\ UNCHANGED <<agents, aliases, previous, naming, admin, touched, overlap>>

(* A variant of Fail that forgets the callback. *)
FailQuietly(c) ==
  /\ ~Idle(c)
  /\ Top(c).at = "executing"
  /\ Closes(c)
  /\ caller' = IF Top(c).chained THEN [caller EXCEPT ![c].outcome = "failed"] ELSE caller
  /\ UNCHANGED <<agents, aliases, turns, previous, naming, admin, told, touched, overlap>>

Fail(c) ==
  /\ ~Idle(c)
  /\ Top(c).at = "executing"
  /\ Closes(c)
  /\ IF Top(c).quiet THEN UNCHANGED told ELSE Told(c, "error")
  /\ caller' = IF Top(c).chained THEN [caller EXCEPT ![c].outcome = "failed"] ELSE caller
  /\ UNCHANGED <<agents, aliases, turns, previous, naming, admin, touched, overlap>>

HandoffStep(c) ==
  \/ HandOff(c) \/ AutoRoute(c) \/ CopyMessage(c) \/ SetStateData(c)
  \/ BeginTask(c) \/ AnswerTask(c) \/ Fail(c)
  \/ \E to \in Agents \cup Aliases, preserve \in BOOLEAN : HandOffByTool(c, to, preserve)

HandoffNext ==
  \/ \E c \in Callers : HandoffStep(c)
  \/ SetAlias
  \/ \E a \in Agents : Register(a) \/ Unregister(a)

HandoffSpec == HandoffInit /\ [][HandoffNext]_handoffVars

-----------------------------------------------------------------------------
Frames(c) == {stack[c][i] : i \in 1 .. Depth(c)}

(* Where the messages copied so far are in the history of the agent.       *)
Copied(f) ==
  \A i \in DOMAIN f.placed :
    /\ f.placed[i] \in DOMAIN turns[f.to]
    /\ turns[f.to][f.placed[i]] = f.source[i]
    /\ \A j \in 1 .. i - 1 : f.placed[j] < f.placed[i]

(* The handoffs that are open and were told. *)
Loud(c) == {i \in 1 .. Depth(c) : ~stack[c][i].quiet}

(* The history that a handoff preserves arrives whole and in order, before  *)
(* the question, whatever else the agent executes meanwhile; a step of a   *)
(* chain executes with the response of the step before it, unless another   *)
(* caller's chain wrote the same agent's data since; and each start of a   *)
(* handoff is told once, and its end once, as a completion or an error     *)
(* (applyPreservation, ChainedHandoff, Handoff).                           *)
HandoffsAreFaithful ==
  \A c \in Callers :
    /\ \A f \in Frames(c) :
         f.at = "ready" => Copied(f) /\ DOMAIN f.placed = DOMAIN f.source
    /\ ~Idle(c) /\ Depth(c) = 1 /\ Top(c).at = "ready" /\ caller[c].at > 1 =>
         \/ previous[Top(c).to] = caller[c].last
         \/ Top(c).to \in touched[c]
    /\ told[c].start = told[c].complete + told[c].error + Cardinality(Loud(c))

(* An alias leads to the agent it was registered with or to none: it does   *)
(* not outlive the agent, unless the agent was unregistered between the    *)
(* two halves of RegisterWithAlias (Unregister, RegisterWithAlias).         *)
AliasesResolve ==
  \A x \in Aliases : aliases[x] = NoAgent \/ aliases[x] \in agents \/ x \in overlap

(* What is handed off arrives, and at whom it was meant for. *)
HandoffsHold == HandoffsAreFaithful /\ AliasesResolve
=============================================================================
