---------------------------- MODULE AgentSession ----------------------------
(***************************************************************************)
(* Agent.Execute of agent.go, called by several goroutines on one agent,   *)
(* over a MemoryStateStore.  Nothing keeps two calls of Execute apart: the *)
(* agent's lock stateMu is held for one addToHistory, one version          *)
(* increment or one GetState at a time, and SaveState does the increment,  *)
(* the copy and the store's Save under three separate locks.               *)
(*                                                                         *)
(* A call appends the user's message, then asks the model up to            *)
(* maxIterations times; a reply asks for tools, answers, or does neither.  *)
(* Tools of one reply run in parallel, their results are appended in the   *)
(* order of the request.  A message is identified by its call, the         *)
(* iteration and its place in it.                                          *)
(***************************************************************************)
EXTENDS Naturals, Sequences, FiniteSets

(* The MemoryStateStore of integrations/statestores/memory: the states of  *)
(* one agent by session, with a time to live, and the list of the agent's  *)
(* sessions that List returns.  Every method holds m.mu throughout.  What  *)
(* a state holds is of no concern to the store.                            *)
CONSTANT Sessions

VARIABLES states,    \* m.states: the sessions that have a state, and the state
          expired,   \* sessions whose entry is past its expiresAt
          sessions   \* m.sessions of the agent

store == <<states, expired, sessions>>

StoreTypeOK ==
  /\ DOMAIN states \subseteq Sessions
  /\ expired \in SUBSET DOMAIN states
  /\ sessions \in SUBSET Sessions

-----------------------------------------------------------------------------
StoreInit == states = <<>> /\ expired = {} /\ sessions = {}

(* Save: the entry is replaced whatever its version, and lives anew. *)
Save(s, st) ==
  /\ states' = [t \in DOMAIN states \union {s} |-> IF t = s THEN st ELSE states[t]]
  /\ expired' = expired \ {s}
  /\ sessions' = sessions \union {s}

(* Load finds the session: it has an entry that has not expired. *)
Loadable(s) == s \in DOMAIN states \ expired

Without(S) == [t \in DOMAIN states \ S |-> states[t]]

Delete(s) ==
  /\ states' = Without({s})
  /\ expired' = expired \ {s}
  /\ sessions' = sessions \ {s}

(* The time to live of an entry runs out. *)
Expire(s) ==
  /\ s \in DOMAIN states
  /\ expired' = expired \union {s}
  /\ UNCHANGED <<states, sessions>>

(* A tick of cleanupExpired: the sessions stay on the list. *)
CleanupExpired ==
  /\ states' = Without(expired)
  /\ expired' = {}
  /\ UNCHANGED sessions

-----------------------------------------------------------------------------
(* List shows every session that has a state, whatever Save, Delete and the *)
(* clean-up do.  (The converse fails: cleanupExpired leaves the sessions of *)
(* the states it deletes on the list.)                                      *)
EveryStateIsListed == DOMAIN states \subseteq sessions

-----------------------------------------------------------------------------
(* The agent. *)
CONSTANTS Calls,          \* calls of Execute, each made once
          MaxIterations,  \* a.maxIterations
          MaxTools,       \* bound: tool calls in one reply of the model
          MaxOutside      \* bound: how often something interferes from outside the calls

ASSUME ASAssumption == /\ MaxIterations \in Nat \ {0}
                       /\ MaxTools \in Nat
                       /\ MaxOutside \in Nat

VARIABLES session,    \* a.state.SessionID
          version,    \* a.state.Version
          history,    \* a.state.History
          pc,         \* where each call is
          iteration,  \* the call's iteration
          tools,      \* how many tools its last reply asked for
          ran,        \* which of them have run
          next,       \* the next result to append
          copy,       \* the copy of the state a call is about to save
          began,      \* the session in which a call began
          said,       \* messages the call has appended
          disturbed,  \* calls during which the state was replaced or cleared
          overtaken,  \* calls that copied the state before another call's last save
          loading,    \* the stored state a LoadState has read and not yet installed
          outside     \* how often something interfered so far

agent == <<session, version, history>>
local == <<iteration, tools, ran, next>>
ghost == <<began, disturbed, overtaken>>
vars  == <<agent, pc, local, copy, ghost, said, store, loading, outside>>

Message  == [call : Calls, iteration : 0 .. MaxIterations, place : 0 .. MaxTools + 1]
User(c)  == [call |-> c, iteration |-> 0, place |-> 0]
Tool(c, i)    == [call |-> c, iteration |-> iteration[c], place |-> i]
Assistant(c)  == [call |-> c, iteration |-> iteration[c], place |-> MaxTools + 1]
State    == [session : Sessions, version : Nat, history : Seq(Message)]
Current  == [session |-> session, version |-> version, history |-> history]

None   == [session |-> "none", version |-> 0, history |-> <<>>]
Steps  == {"idle", "asking", "tools", "bump", "copy", "save", "done", "failed"}
Active == {c \in Calls : pc[c] \notin {"idle", "done", "failed"}}

TypeOK ==
  /\ StoreTypeOK
  /\ \A s \in DOMAIN states : states[s] \in State
  /\ Current \in State
  /\ pc \in [Calls -> Steps]
  /\ iteration \in [Calls -> 0 .. MaxIterations]
  /\ tools \in [Calls -> 0 .. MaxTools]
  /\ ran \in [Calls -> SUBSET (1 .. MaxTools)]
  /\ next \in [Calls -> 1 .. MaxTools + 1]
  /\ copy \in [Calls -> State \union {None}]
  /\ began \in [Calls -> Sessions]
  /\ said \in [Calls -> SUBSET Message]
  /\ disturbed \in SUBSET Calls
  /\ overtaken \in SUBSET Calls
  /\ loading \in State \union {None}
  /\ outside \in Nat

-----------------------------------------------------------------------------
Fresh(s) == [session |-> s, version |-> 1, history |-> <<>>]

(* a.state = st *)
Becomes(st) == /\ session' = st.session
               /\ version' = st.version
               /\ history' = st.history

Init ==
  /\ StoreInit
  /\ \E s \in Sessions : /\ session = s /\ version = 1 /\ history = <<>>
                         /\ began = [c \in Calls |-> s]
  /\ pc = [c \in Calls |-> "idle"]
  /\ iteration = [c \in Calls |-> 0]
  /\ tools = [c \in Calls |-> 0]
  /\ ran = [c \in Calls |-> {}]
  /\ next = [c \in Calls |-> 1]
  /\ copy = [c \in Calls |-> None]
  /\ said = [c \in Calls |-> {}]
  /\ disturbed = {}
  /\ overtaken = {}
  /\ loading = None
  /\ outside = 0

Goto(c, l) == pc' = [pc EXCEPT ![c] = l]

(* A call that is over has no local state. *)
Return(c, l) ==
  /\ Goto(c, l)
  /\ iteration' = [iteration EXCEPT ![c] = 0]
  /\ tools' = [tools EXCEPT ![c] = 0]
  /\ ran' = [ran EXCEPT ![c] = {}]
  /\ next' = [next EXCEPT ![c] = 1]
  /\ copy' = [copy EXCEPT ![c] = None]
  /\ said' = [said EXCEPT ![c] = {}]

(* A variant without stateMu: of two appends at a time one may overwrite    *)
(* the other's message.                                                     *)
AddToHistoryUnlocked(c, m) ==
  /\ history' \in {Append(history, m)} \union
                  (IF history = <<>> \/ Cardinality(Active) < 2 THEN {}
                   ELSE {Append(SubSeq(history, 1, Len(history) - 1), m)})
  /\ said' = [said EXCEPT ![c] = @ \union {m}]
  /\ UNCHANGED <<session, version>>

AddToHistory(c, m) ==
  /\ history' = Append(history, m)
  /\ said' = [said EXCEPT ![c] = @ \union {m}]
  /\ UNCHANGED <<session, version>>

(* Execute up to the first iteration.  A start callback that fails or input *)
(* guardrails that block end it before this, and nothing has changed.       *)
Begin(c) ==
  /\ pc[c] = "idle"
  /\ Goto(c, "asking")
  /\ AddToHistory(c, User(c))
  /\ iteration' = [iteration EXCEPT ![c] = 1]
  /\ began' = [began EXCEPT ![c] = session]
  /\ UNCHANGED <<tools, ran, next, copy, disturbed, overtaken, store>>

(* The model fails, or the output guardrails block its answer: Execute      *)
(* returns without saving, and what it appended so far stays.               *)
GenerateFails(c) ==
  /\ pc[c] = "asking"
  /\ Return(c, "failed")
  /\ UNCHANGED <<agent, ghost, store>>

(* The model answers: finish reason "stop" or "complete". *)
Answer(c) ==
  /\ pc[c] = "asking"
  /\ Goto(c, "bump")
  /\ AddToHistory(c, Assistant(c))
  /\ UNCHANGED <<local, copy, ghost, store>>

NoTools(c) == /\ tools' = [tools EXCEPT ![c] = 0]
              /\ ran' = [ran EXCEPT ![c] = {}]
              /\ next' = [next EXCEPT ![c] = 1]

(* The head of the loop.  Out of iterations, Execute goes on to save and    *)
(* returns without an answer and without an error.                          *)
NextIteration(c) ==
  /\ IF iteration[c] < MaxIterations
       THEN iteration' = [iteration EXCEPT ![c] = @ + 1] /\ Goto(c, "asking")
       ELSE UNCHANGED iteration /\ Goto(c, "bump")
  /\ NoTools(c)

(* The reply neither answers nor asks for tools. *)
SaysNothing(c) ==
  /\ pc[c] = "asking"
  /\ NextIteration(c)
  /\ UNCHANGED <<agent, copy, ghost, said, store>>

AsksForTools(c) ==
  /\ pc[c] = "asking"
  /\ Goto(c, "tools")
  /\ \E n \in 1 .. MaxTools : tools' = [tools EXCEPT ![c] = n]
  /\ UNCHANGED <<agent, iteration, ran, next, copy, ghost, said, store>>

(* executeToolsParallel: the tools end in any order; a tool that fails or   *)
(* is not found gives a result as well.                                     *)
RunTool(c, i) ==
  /\ pc[c] = "tools"
  /\ i \in 1 .. tools[c] \ ran[c]
  /\ ran' = [ran EXCEPT ![c] = @ \union {i}]
  /\ UNCHANGED <<agent, pc, iteration, tools, next, copy, ghost, said, store>>

(* A variant that appends the results in the order in which tools ended.    *)
AppendResultEarly(c) ==
  /\ pc[c] = "tools"
  /\ \E i \in ran[c] :
       /\ AddToHistory(c, Tool(c, i))
       /\ IF next[c] < tools[c]
            THEN /\ next' = [next EXCEPT ![c] = @ + 1]
                 /\ UNCHANGED <<pc, iteration, tools, ran>>
            ELSE NextIteration(c)
  /\ UNCHANGED <<copy, ghost, store>>

(* After wg.Wait the results are appended in the order of the request, one  *)
(* lock at a time.                                                          *)
AppendResult(c) ==
  /\ pc[c] = "tools"
  /\ ran[c] = 1 .. tools[c]
  /\ AddToHistory(c, Tool(c, next[c]))
  /\ IF next[c] < tools[c]
       THEN /\ next' = [next EXCEPT ![c] = @ + 1]
            /\ UNCHANGED <<pc, iteration, tools, ran>>
       ELSE NextIteration(c)
  /\ UNCHANGED <<copy, ghost, store>>

-----------------------------------------------------------------------------
(* SaveState: increment, copy and Save, each under its own lock. *)
Bump(c) ==
  /\ pc[c] = "bump"
  /\ version' = version + 1
  /\ Goto(c, "copy")
  /\ UNCHANGED <<session, history, local, copy, ghost, said, store>>

(* A variant that copies the call's own messages only. *)
CopyStateOwnMessages(c) ==
  /\ pc[c] = "copy"
  /\ copy' = [copy EXCEPT ![c] =
       [Current EXCEPT !.history = SelectSeq(history, LAMBDA m : m.call = c)]]
  /\ Goto(c, "save")
  /\ UNCHANGED <<agent, local, ghost, said, store>>

CopyState(c) ==
  /\ pc[c] = "copy"
  /\ copy' = [copy EXCEPT ![c] = Current]
  /\ Goto(c, "save")
  /\ UNCHANGED <<agent, local, ghost, said, store>>

(* A variant that saves under the session the agent has by now. *)
SaveStateLateKey(c) ==
  /\ pc[c] = "save"
  /\ Save(session, copy[c])
  /\ Return(c, "done")
  /\ overtaken' = {d \in Calls \ {c} : pc[d] = "save"} \union (overtaken \ {c})
  /\ UNCHANGED <<agent, began, disturbed>>

SaveState(c) ==
  /\ pc[c] = "save"
  /\ Save(copy[c].session, copy[c])
  /\ Return(c, "done")
  /\ overtaken' = {d \in Calls \ {c} : pc[d] = "save"} \union (overtaken \ {c})
  /\ UNCHANGED <<agent, began, disturbed>>

(* The store fails: Execute logs it and succeeds all the same. *)
SaveFails(c) ==
  /\ pc[c] = "save"
  /\ Return(c, "done")
  /\ UNCHANGED <<agent, ghost, store>>

-----------------------------------------------------------------------------
(* What users of the agent and of its store may do at any time. *)
Interfere == outside < MaxOutside /\ outside' = outside + 1

(* LoadState(s): the store's Load under its lock, the assignment under      *)
(* stateMu.  One LoadState runs at a time.                                  *)
ReadState(s) ==
  /\ loading = None
  /\ Loadable(s)
  /\ loading' = states[s]
  /\ UNCHANGED <<agent, pc, local, copy, ghost, said, store>>

LoadState ==
  /\ loading # None
  /\ Becomes(loading)
  /\ loading' = None
  /\ disturbed' = disturbed \union Active
  /\ UNCHANGED <<pc, local, copy, began, overtaken, said, store, outside>>

Reset ==
  /\ version' = version + 1
  /\ history' = <<>>
  /\ disturbed' = disturbed \union Active
  /\ UNCHANGED <<session, pc, local, copy, began, overtaken, said, store, loading>>

ClearHistory ==
  /\ history' = <<>>
  /\ disturbed' = disturbed \union Active
  /\ UNCHANGED <<session, version, pc, local, copy, began, overtaken, said, store, loading>>

(* Between calls another agent of the same ID takes over, in session s and  *)
(* from its stored state if there is one.                                   *)
NewAgent(s) ==
  /\ Active = {} /\ loading = None
  /\ Becomes(IF Loadable(s) THEN states[s] ELSE Fresh(s))
  /\ UNCHANGED <<pc, local, copy, ghost, said, store, loading, outside>>

Forgets(s) ==
  /\ Delete(s) \/ Expire(s)
  /\ UNCHANGED <<agent, pc, local, copy, ghost, said, loading>>

Cleanup ==
  /\ CleanupExpired
  /\ UNCHANGED <<agent, pc, local, copy, ghost, said, loading, outside>>

CallStep(c) ==
  \/ Begin(c) \/ Answer(c) \/ GenerateFails(c) \/ SaysNothing(c) \/ AsksForTools(c)
  \/ AppendResult(c) \/ Bump(c) \/ CopyState(c)
  \/ SaveState(c) \/ SaveFails(c)
  \/ \E i \in 1 .. MaxTools : RunTool(c, i)

Outside ==
  /\ Interfere
  /\ \/ \E s \in Sessions : ReadState(s) \/ Forgets(s)
     \/ Reset
     \/ ClearHistory

Next ==
  \/ \E c \in Calls : CallStep(c) /\ UNCHANGED <<loading, outside>>
  \/ \E s \in Sessions : NewAgent(s)
  \/ Outside
  \/ LoadState
  \/ Cleanup

Spec == Init /\ [][Next]_vars

-----------------------------------------------------------------------------
Before(m, n) == \/ m.iteration < n.iteration
                \/ m.iteration = n.iteration /\ m.place < n.place

Messages(h) == {h[i] : i \in DOMAIN h}

InOrder(h) == \A i, j \in DOMAIN h :
                (i < j /\ h[i].call = h[j].call) => Before(h[i], h[j])

(* However calls interleave, and through saving, loading and new agents, each*)
(* call's messages stand in the history once and in order: the user's, the  *)
(* results of each reply's tools as requested, the answer.                  *)
TurnsInOrder == InOrder(history) /\ \A s \in DOMAIN states : InOrder(states[s].history)

(* When a call asks the model, the history holds everything that call has   *)
(* said so far, unless the state was replaced or cleared during the call.   *)
PromptIsComplete == \A c \in Active \ disturbed : said[c] \subseteq Messages(history)

(* A session's stored history holds messages of calls begun in it only,     *)
(* unless LoadState changed the session under a running call.               *)
SessionsApart ==
  \A s \in DOMAIN states :
    /\ states[s].session = s
    /\ \A i \in DOMAIN states[s].history :
         LET c == states[s].history[i].call IN began[c] = s \/ c \in disturbed

(* Histories hold what was said where it was said. *)
HistoriesAreTrue == TurnsInOrder /\ SessionsApart

(* Saved messages stay saved: without interference from outside, a save     *)
(* drops a stored message only if another call has saved between the copy   *)
(* and the Save of this one.                                                *)
SavedIsKept ==
  [][\A c \in Calls \ overtaken :
       pc[c] = "save" /\ pc'[c] = "done" /\ outside = 0 =>
         \A s \in DOMAIN states :
           Messages(states[s].history) \subseteq Messages(states'[s].history)]_vars
=============================================================================
