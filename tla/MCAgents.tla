------------------------------- MODULE MCAgents -------------------------------
(* Instances for TLC of what an application talks to: an agent and its       *)
(* sessions, agents that hand off to one another, a conversation, and the    *)
(* provider behind them; in each behaviour one of the four, the subject,     *)
(* moves.                                                                    *)
EXTENDS AgentSession, Handoffs, Conversation, ProviderCalls

CONSTANTS a, b, x, h1, h2, g1, g2

VARIABLE subject

allVars == <<vars, handoffVars, convVars, providerVars, subject>>

Symmetry == Permutations(Calls) \union Permutations(Sessions) \union Permutations(Senders)

-----------------------------------------------------------------------------
(* Handoffs: the first to an agent from none, the second with the history of *)
(* the first; to itself; through an alias; and no handoff, where AutoRoute   *)
(* executes.                                                                 *)
To(t, f, p) == [to |-> t, from |-> f, preserve |-> p]
Two     == <<To(a, "", FALSE), To(b, a, TRUE)>>
Self    == <<To(b, "", FALSE), To(b, b, TRUE)>>
ByAlias == <<To(x, a, TRUE)>>

MCChains == {<<>>, Two, Self, ByAlias}

NarrowChains ==
  \/ caller[h2].chain = <<>>
  \/ caller[h2].chain = Two /\ caller[h1].chain \in {<<>>, Two}

(* Tools hand off within the first caller only, beside AutoRoute, and while  *)
(* the registry is left alone, which changes beside a handoff by alias.      *)
NarrowHandoffs ==
  /\ caller'[h2].tools = 0
  /\ caller'[h1].tools > 0 => admin' = 0 /\ caller[h2].chain = <<>>
  /\ admin' > 0 => caller[h1].chain = ByAlias

-----------------------------------------------------------------------------
(* One of: a system message, messages taken back, and a branch, which then   *)
(* has no system messages; and three Sends in all.                           *)
NarrowConversation ==
  /\ Len(SelectSeq(spoken'["root"], System)) + undos' +
       (IF length'["branch"] >= 0 THEN 1 ELSE 0) <= 1
  /\ length'["branch"] >= 0 => SelectSeq(spoken'["branch"], System) = <<>>
  /\ MapThenSumSet(LAMBDA u : send'[u].n, Senders) <= 3

(* Of the two that share a provider, one chats and one does not; the clock   *)
(* matters to providers with a limit.                                        *)
NarrowCalls ==
  /\ clock' > Minute => server \notin {"lmstudio", "ollama"}
  /\ asks'[g1].kind = "chat"
  /\ asks'[g2].kind = "chat" => asks'[g2].at = "out"

MCInit ==
  /\ Init
  /\ HandoffInit /\ NarrowChains
  /\ ConvInit
  /\ subject \in {"session", "handoff", "conversation", "provider"}
  /\ subject # "handoff" => \A c \in Callers : caller[c].chain = <<>> /\ aliases[x] = a
  /\ subject # "conversation" => pruner = "window"
  /\ ProviderInit
  /\ subject # "provider" => server = "ollama"

MCNext ==
  /\ UNCHANGED subject
  /\ \/ subject = "session" /\ Next /\ UNCHANGED <<handoffVars, convVars, providerVars>>
     \/ subject = "handoff" /\ HandoffNext /\ NarrowHandoffs /\ UNCHANGED <<vars, convVars, providerVars>>
     \/ subject = "conversation" /\ ConvNext /\ NarrowConversation
        /\ UNCHANGED <<vars, handoffVars, providerVars>>
     \/ subject = "provider" /\ ProviderNext /\ NarrowCalls
        /\ UNCHANGED <<vars, handoffVars, convVars>>

MCSpec == MCInit /\ [][MCNext]_allVars
=============================================================================
