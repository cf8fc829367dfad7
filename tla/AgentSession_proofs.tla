------------------------- MODULE AgentSession_proofs -------------------------
(***************************************************************************)
(* Safety of the agent's session for any calls, sessions and bounds.  Every *)
(* copy of the state there is (the agent's, the stored ones, those on the  *)
(* way to the store) is Sound: what it holds of a call is in order and     *)
(* lies before what the call says next, and its calls belong to its        *)
(* session.  At the end, the same for handing off from one agent to another *)
(* (Handoffs).                                                             *)
(***************************************************************************)
EXTENDS AgentSession, Handoffs, FiniteSetTheorems, TLAPS

(* The call of m has gone past m: whatever it says next comes after m.      *)
Past(m) == LET c == m.call IN
  /\ pc[c] # "idle"
  /\ pc[c] = "asking" => m.iteration < iteration[c]
  /\ pc[c] = "tools" => \/ m.iteration < iteration[c]
                        \/ m.iteration = iteration[c] /\ m.place < next[c]

Belongs(m, s) == began[m.call] = s \/ m.call \in disturbed

Sound(st) ==
  /\ InOrder(st.history)
  /\ \A m \in Messages(st.history) : Past(m) /\ Belongs(m, st.session)

(* What the local variables of a call hold at each place. *)
LocalInv ==
  \A c \in Calls :
    /\ pc[c] \in {"asking", "tools"} => iteration[c] \in 1 .. MaxIterations
    /\ pc[c] \in {"bump", "copy", "save"} => iteration[c] \in 0 .. MaxIterations
    /\ pc[c] = "tools" => tools[c] \in 1 .. MaxTools /\ next[c] \in 1 .. tools[c]
    /\ pc[c] # "tools" => next[c] = 1
    /\ pc[c] = "save" => copy[c] \in State

SoundInv ==
  /\ Sound(Current)
  /\ \A s \in DOMAIN states : Sound(states[s]) /\ states[s].session = s
  /\ \A c \in Calls : pc[c] = "save" => Sound(copy[c])
  /\ loading # None => Sound(loading)
  /\ \A c \in Active : began[c] = session \/ c \in disturbed

IInv == TypeOK /\ LocalInv /\ EveryStateIsListed /\ SoundInv

-----------------------------------------------------------------------------
LEMMA InitInv == Init => IInv
<1> SUFFICES ASSUME Init PROVE IInv
  OBVIOUS
<1> USE ASAssumption DEF Init
<1>1. \A s \in Sessions : Fresh(s) \in State
  BY DEF Fresh, State
<1>2. Current \in State /\ history = <<>>
  BY DEF Current, State
<1>3. DOMAIN states = {}
  BY DEF StoreInit
<1>4. TypeOK
  BY <1>2, <1>3 DEF TypeOK, StoreTypeOK, StoreInit, Steps
<1>5. LocalInv
  BY DEF LocalInv
<1>6. EveryStateIsListed
  BY <1>3 DEF EveryStateIsListed
<1>7. SoundInv
  BY <1>2, <1>3 DEF SoundInv, Sound, Current, InOrder, Messages, Active
<1>8. QED
  BY <1>4, <1>5, <1>6, <1>7 DEF IInv

-----------------------------------------------------------------------------
(* What every step keeps of the types. *)
LEMMA ReturnTypes ==
  ASSUME TypeOK, LocalInv, NEW c \in Calls, NEW l \in {"done", "failed"}, Return(c, l)
  PROVE  /\ LocalInv'
         /\ pc' \in [Calls -> Steps]
         /\ iteration' \in [Calls -> 0 .. MaxIterations]
         /\ tools' \in [Calls -> 0 .. MaxTools]
         /\ ran' \in [Calls -> SUBSET (1 .. MaxTools)]
         /\ next' \in [Calls -> 1 .. MaxTools + 1]
         /\ copy' \in [Calls -> State \union {None}]
         /\ said' \in [Calls -> SUBSET Message]
<1> USE ASAssumption DEF Return, Goto, TypeOK
<1>1. pc' \in [Calls -> Steps]
  BY DEF Steps
<1>2. /\ iteration' \in [Calls -> 0 .. MaxIterations]
      /\ tools' \in [Calls -> 0 .. MaxTools]
      /\ ran' \in [Calls -> SUBSET (1 .. MaxTools)]
      /\ next' \in [Calls -> 1 .. MaxTools + 1]
  OBVIOUS
<1>3. copy' \in [Calls -> State \union {None}]
  OBVIOUS
<1>4. said' \in [Calls -> SUBSET Message]
  OBVIOUS
<1>5. LocalInv'
  BY DEF LocalInv
<1>6. QED
  BY <1>1, <1>2, <1>3, <1>4, <1>5

LEMMA AppendTypes ==
  ASSUME TypeOK, NEW c \in Calls, NEW m \in Message, AddToHistory(c, m)
  PROVE  Current' \in State /\ said' \in [Calls -> SUBSET Message]
<1>1. history \in Seq(Message) /\ version \in Nat /\ session \in Sessions
  BY DEF TypeOK, Current, State
<1>2. history' \in Seq(Message)
  BY <1>1 DEF AddToHistory
<1>3. QED
  BY <1>1, <1>2 DEF AddToHistory, Current, State, TypeOK

LEMMA IterationTypes ==
  ASSUME TypeOK, LocalInv, NEW c \in Calls, pc[c] \in {"asking", "tools"},
         NextIteration(c)
  PROVE  /\ pc' = [pc EXCEPT ![c] = "asking"] \/ pc' = [pc EXCEPT ![c] = "bump"]
         /\ pc' \in [Calls -> Steps]
         /\ iteration' \in [Calls -> 0 .. MaxIterations]
         /\ pc'[c] = "asking" => iteration'[c] \in 1 .. MaxIterations
         /\ next'[c] = 1
         /\ \A d \in Calls \ {c} : /\ iteration'[d] = iteration[d]
                                  /\ tools'[d] = tools[d]
                                  /\ next'[d] = next[d]
         /\ tools' \in [Calls -> 0 .. MaxTools]
         /\ ran' \in [Calls -> SUBSET (1 .. MaxTools)]
         /\ next' \in [Calls -> 1 .. MaxTools + 1]
<1> USE ASAssumption DEF TypeOK, NextIteration, NoTools, Goto
<1>1. iteration[c] \in 1 .. MaxIterations
  BY DEF LocalInv
<1>2. pc' = [pc EXCEPT ![c] = "asking"] \/ pc' = [pc EXCEPT ![c] = "bump"]
  OBVIOUS
<1>3. pc' \in [Calls -> Steps]
  BY <1>2 DEF Steps
<1>4. /\ iteration' \in [Calls -> 0 .. MaxIterations]
      /\ pc'[c] = "asking" => iteration'[c] \in 1 .. MaxIterations
      /\ \A d \in Calls \ {c} : iteration'[d] = iteration[d]
  <2>1. CASE iteration[c] < MaxIterations
    BY <1>1, <2>1
  <2>2. CASE ~(iteration[c] < MaxIterations)
    BY <1>1, <2>2
  <2>3. QED
    BY <2>1, <2>2
<1>5. /\ tools' \in [Calls -> 0 .. MaxTools]
      /\ ran' \in [Calls -> SUBSET (1 .. MaxTools)]
      /\ next' \in [Calls -> 1 .. MaxTools + 1]
      /\ next'[c] = 1
      /\ \A d \in Calls \ {c} : tools'[d] = tools[d] /\ next'[d] = next[d]
  OBVIOUS
<1>6. QED
  BY <1>2, <1>3, <1>4, <1>5

-----------------------------------------------------------------------------
Typed == TypeOK /\ LocalInv

LEMMA MessageTypes ==
  ASSUME Typed, NEW c \in Calls
  PROVE  /\ User(c) \in Message
         /\ Assistant(c) \in Message
         /\ pc[c] = "tools" => Tool(c, next[c]) \in Message
<1>1. iteration[c] \in 0 .. MaxIterations
  BY DEF Typed, TypeOK
<1>2. pc[c] = "tools" => next[c] \in 0 .. MaxTools + 1
  BY ASAssumption DEF Typed, TypeOK, LocalInv
<1>3. QED
  BY ASAssumption, <1>1, <1>2 DEF User, Assistant, Tool, Message

LEMMA IterationLocal ==
  ASSUME Typed, NEW c \in Calls, pc[c] \in {"asking", "tools"}, NextIteration(c), UNCHANGED copy
  PROVE  LocalInv'
<1> DEFINE L(d) ==
      /\ pc[d] \in {"asking", "tools"} => iteration[d] \in 1 .. MaxIterations
      /\ pc[d] \in {"bump", "copy", "save"} => iteration[d] \in 0 .. MaxIterations
      /\ pc[d] = "tools" => tools[d] \in 1 .. MaxTools /\ next[d] \in 1 .. tools[d]
      /\ pc[d] # "tools" => next[d] = 1
      /\ pc[d] = "save" => copy[d] \in State
<1>1. pc' = [pc EXCEPT ![c] = "asking"] \/ pc' = [pc EXCEPT ![c] = "bump"]
  BY IterationTypes DEF Typed
<1>2. L(c)'
  <2>1. pc'[c] = "asking" \/ pc'[c] = "bump"
    BY <1>1 DEF Typed, TypeOK
  <2>2. /\ pc'[c] = "asking" => iteration'[c] \in 1 .. MaxIterations
        /\ iteration' \in [Calls -> 0 .. MaxIterations]
        /\ next'[c] = 1
    BY IterationTypes DEF Typed
  <2>3. QED
    BY <2>1, <2>2
<1>3. ASSUME NEW d \in Calls, d # c  PROVE L(d)'
  <2>1. pc'[d] = pc[d]
    BY <1>1, <1>3 DEF Typed, TypeOK
  <2>2. iteration'[d] = iteration[d] /\ tools'[d] = tools[d] /\ next'[d] = next[d]
    BY <1>3, IterationTypes DEF Typed
  <2>3. L(d)
    BY DEF Typed, LocalInv
  <2>4. QED
    BY <2>1, <2>2, <2>3
<1>4. QED
  BY <1>2, <1>3 DEF LocalInv

(* Steps of a call that say something. *)
LEMMA SayTypes ==
  ASSUME Typed, NEW c \in Calls, Begin(c) \/ Answer(c) \/ AppendResult(c),
         UNCHANGED <<loading, outside>>
  PROVE  Typed'
<1> USE ASAssumption
<1>1. CASE Begin(c)
  <2>1. Current' \in State /\ said' \in [Calls -> SUBSET Message]
    BY <1>1, AppendTypes, MessageTypes DEF Begin, Typed
  <2>2. TypeOK'
    BY <1>1, <2>1 DEF Begin, Typed, TypeOK, StoreTypeOK, Steps, Goto, AddToHistory, store,
                      Current, State
  <2>3. LocalInv'
    BY <1>1 DEF Begin, Typed, TypeOK, LocalInv, Goto
  <2>4. QED
    BY <2>2, <2>3 DEF Typed
<1>2. CASE Answer(c)
  <2>1. Current' \in State /\ said' \in [Calls -> SUBSET Message]
    BY <1>2, AppendTypes, MessageTypes DEF Answer, Typed
  <2>2. TypeOK'
    BY <1>2, <2>1 DEF Answer, Typed, TypeOK, StoreTypeOK, Steps, Goto, AddToHistory, store,
                      local, ghost
  <2>3. LocalInv'
    BY <1>2 DEF Answer, Typed, TypeOK, LocalInv, Goto, local
  <2>4. QED
    BY <2>2, <2>3 DEF Typed
<1>3. CASE AppendResult(c)
  <2>1. Current' \in State /\ said' \in [Calls -> SUBSET Message]
    BY <1>3, AppendTypes, MessageTypes DEF AppendResult, Typed
  <2>2. CASE next[c] < tools[c]
    <3>1. next[c] \in 1 .. tools[c] /\ tools[c] \in 1 .. MaxTools /\ pc[c] = "tools"
      BY <1>3 DEF AppendResult, Typed, LocalInv
    <3>2. next' = [next EXCEPT ![c] = @ + 1] /\ UNCHANGED <<pc, iteration, tools, ran, copy, ghost, store>>
      BY <1>3, <2>2 DEF AppendResult
    <3>3. next' \in [Calls -> 1 .. MaxTools + 1]
      BY <3>1, <3>2 DEF Typed, TypeOK
    <3>4. TypeOK'
      BY <2>1, <3>2, <3>3, <1>3 DEF Typed, TypeOK, StoreTypeOK, store, ghost, AppendResult
    <3>5. LocalInv'
      BY <2>2, <3>1, <3>2 DEF Typed, TypeOK, LocalInv
    <3>6. QED
      BY <3>4, <3>5 DEF Typed
  <2>3. CASE ~(next[c] < tools[c])
    <3>1. NextIteration(c) /\ UNCHANGED <<copy, ghost, store>>
      BY <1>3, <2>3 DEF AppendResult
    <3>2. TypeOK'
      BY <1>3, <2>1, <3>1, IterationTypes DEF Typed, TypeOK, StoreTypeOK, store, ghost, AppendResult
    <3>3. LocalInv'
      BY <1>3, <3>1, IterationLocal DEF AppendResult
    <3>4. QED
      BY <3>2, <3>3 DEF Typed
  <2>4. QED
    BY <2>2, <2>3
<1>4. QED
  BY <1>1, <1>2, <1>3

(* The other steps of a call. *)
LEMMA CallTypes ==
  ASSUME Typed, NEW c \in Calls, CallStep(c), UNCHANGED <<loading, outside>>,
         ~(Begin(c) \/ Answer(c) \/ AppendResult(c))
  PROVE  Typed'
<1> USE ASAssumption
<1>1. CASE GenerateFails(c)
  BY <1>1, ReturnTypes DEF GenerateFails, Return, Typed, TypeOK, StoreTypeOK, Current, agent, ghost, store
<1>2. CASE SaysNothing(c)
  <2>1. TypeOK'
    BY <1>2, IterationTypes DEF SaysNothing, Typed, TypeOK, StoreTypeOK, Current, agent, ghost, store
  <2>2. LocalInv'
    BY <1>2, IterationLocal DEF SaysNothing
  <2>3. QED
    BY <2>1, <2>2 DEF Typed
<1>3. CASE AsksForTools(c)
  <2>1. TypeOK'
    BY <1>3 DEF AsksForTools, Typed, TypeOK, StoreTypeOK, Current, agent, ghost, store, Goto, Steps
  <2>2. LocalInv'
    BY <1>3 DEF AsksForTools, Typed, TypeOK, LocalInv, Goto
  <2>3. QED
    BY <2>1, <2>2 DEF Typed
<1>4. CASE Bump(c)
  <2>1. Current' \in State
    BY <1>4 DEF Bump, Typed, TypeOK, Current, State
  <2>2. TypeOK'
    BY <1>4, <2>1 DEF Bump, Typed, TypeOK, StoreTypeOK, ghost, store, local, Goto, Steps
  <2>3. LocalInv'
    BY <1>4 DEF Bump, Typed, TypeOK, LocalInv, local, Goto
  <2>4. QED
    BY <2>2, <2>3 DEF Typed
<1>5. CASE CopyState(c)
  BY <1>5 DEF CopyState, Typed, TypeOK, StoreTypeOK, Current, ghost, store, local, agent, Goto, Steps, LocalInv
<1>6. CASE SaveState(c)
  <2>1. copy[c] \in State
    BY <1>6 DEF SaveState, Typed, LocalInv
  <2>2. copy[c].session \in Sessions
    BY <2>1 DEF State
  <2>3. StoreTypeOK' /\ \A s \in DOMAIN states' : states'[s] \in State
    BY <1>6, <2>1, <2>2 DEF SaveState, Save, StoreTypeOK, Typed, TypeOK
  <2>4. /\ UNCHANGED <<session, version, history, loading, outside, began, disturbed>>
        /\ overtaken' \in SUBSET Calls
    BY <1>6 DEF SaveState, agent, Typed, TypeOK
  <2>5. Return(c, "done")
    BY <1>6 DEF SaveState
  <2>6. TypeOK'
    BY <2>3, <2>4, <2>5, ReturnTypes DEF Typed, TypeOK, Current
  <2>7. QED
    BY <2>5, <2>6, ReturnTypes DEF Typed
<1>7. CASE SaveFails(c)
  BY <1>7, ReturnTypes DEF SaveFails, Return, Typed, TypeOK, StoreTypeOK, Current, agent, ghost, store
<1>8. ASSUME NEW i \in 1 .. MaxTools, RunTool(c, i)  PROVE Typed'
  BY <1>8 DEF RunTool, Typed, TypeOK, StoreTypeOK, Current, agent, ghost, store, LocalInv
<1>9. QED
  BY <1>1, <1>2, <1>3, <1>4, <1>5, <1>6, <1>7, <1>8 DEF CallStep

(* Steps from outside the calls, and steps of the store. *)
LEMMA OutsideTypes ==
  ASSUME Typed, Outside \/ LoadState \/ Cleanup \/ \E s \in Sessions : NewAgent(s)
  PROVE  Typed'
<1> USE ASAssumption
<1>1. CASE LoadState
  <2>1. loading \in State
    BY <1>1 DEF LoadState, Typed, TypeOK
  <2>2. Current' \in State
    BY <1>1, <2>1 DEF LoadState, Becomes, Current, State
  <2>3. TypeOK'
    BY <1>1, <2>2 DEF LoadState, Typed, TypeOK, StoreTypeOK, store, local, Active
  <2>4. LocalInv'
    BY <1>1 DEF LoadState, Typed, TypeOK, LocalInv, local
  <2>5. QED
    BY <2>3, <2>4 DEF Typed
<1>2. ASSUME NEW s \in Sessions, NewAgent(s)  PROVE Typed'
  <2>1. Current' \in State
    <3>1. CASE Loadable(s)
      BY <1>2, <3>1 DEF NewAgent, Becomes, Loadable, Typed, TypeOK, Current, State
    <3>2. CASE ~Loadable(s)
      BY <1>2, <3>2 DEF NewAgent, Becomes, Fresh, Current, State
    <3>3. QED
      BY <3>1, <3>2
  <2>2. TypeOK'
    BY <1>2, <2>1 DEF NewAgent, Typed, TypeOK, StoreTypeOK, store, ghost, local
  <2>3. LocalInv'
    BY <1>2 DEF NewAgent, Typed, TypeOK, LocalInv, local
  <2>4. QED
    BY <2>2, <2>3 DEF Typed
<1>a. ASSUME NEW s \in Sessions, ReadState(s), Interfere  PROVE Typed'
  <2>1. loading' \in State
    BY <1>a DEF ReadState, Loadable, Typed, TypeOK
  <2>2. TypeOK'
    BY <1>a, <2>1 DEF ReadState, Interfere, Typed, TypeOK, StoreTypeOK, agent, Current, store, ghost, local
  <2>3. LocalInv'
    BY <1>a DEF ReadState, Typed, TypeOK, LocalInv, local
  <2>4. QED
    BY <2>2, <2>3 DEF Typed
<1>3. ASSUME NEW s \in Sessions, Forgets(s), Interfere  PROVE Typed'
  <2>1. TypeOK'
    BY <1>3 DEF Forgets, Delete, Expire, Without, Interfere, Typed, TypeOK, StoreTypeOK,
                agent, local, ghost, Current
  <2>2. LocalInv'
    BY <1>3 DEF Forgets, Typed, TypeOK, LocalInv, local
  <2>3. QED
    BY <2>1, <2>2 DEF Typed
<1>4. ASSUME Reset \/ ClearHistory, Interfere  PROVE Typed'
  <2>1. Current' \in State
    <3>1. session \in Sessions /\ version \in Nat
      BY DEF Typed, TypeOK, Current, State
    <3>2. session' = session /\ version' \in Nat /\ history' = <<>>
      BY <1>4, <3>1 DEF Reset, ClearHistory
    <3>3. QED
      BY <3>1, <3>2 DEF Current, State
  <2>2. TypeOK'
    BY <1>4, <2>1 DEF Reset, ClearHistory, Interfere, Typed, TypeOK, StoreTypeOK, store,
                      local, Active
  <2>3. LocalInv'
    BY <1>4 DEF Reset, ClearHistory, Typed, TypeOK, LocalInv, local
  <2>4. QED
    BY <2>2, <2>3 DEF Typed
<1>5. CASE Cleanup
  <2>1. TypeOK'
    BY <1>5 DEF Cleanup, CleanupExpired, Without, Typed, TypeOK, StoreTypeOK,
                agent, local, ghost, Current
  <2>2. LocalInv'
    BY <1>5 DEF Cleanup, Typed, TypeOK, LocalInv, local
  <2>3. QED
    BY <2>1, <2>2 DEF Typed
<1>6. QED
  BY <1>1, <1>2, <1>a, <1>3, <1>4, <1>5 DEF Outside

LEMMA TypeStep == Typed /\ [Next]_vars => Typed'
<1> SUFFICES ASSUME Typed, [Next]_vars  PROVE Typed'
  OBVIOUS
<1>1. ASSUME NEW c \in Calls, CallStep(c), UNCHANGED <<loading, outside>>  PROVE Typed'
  BY <1>1, SayTypes, CallTypes
<1>2. CASE Outside \/ LoadState \/ Cleanup \/ \E s \in Sessions : NewAgent(s)
  BY <1>2, OutsideTypes
<1>3. CASE UNCHANGED vars
  BY <1>3 DEF vars, agent, local, ghost, store, Typed, TypeOK, StoreTypeOK, LocalInv, Current
<1>4. QED
  BY <1>1, <1>2, <1>3 DEF Next

-----------------------------------------------------------------------------
(* No step takes a call back behind what it has said. *)
LEMMA CallPast ==
  ASSUME Typed, Typed', NEW c \in Calls, CallStep(c), NEW m \in Message, Past(m)
  PROVE  Past(m)'
<1> USE ASAssumption DEF Past
<1>0. m.call \in Calls /\ m.iteration \in Nat /\ m.place \in Nat
  BY DEF Message
<1>1. pc[c] \in {"asking", "tools"} => iteration[c] \in 1 .. MaxIterations
  BY DEF Typed, LocalInv
<1>2. pc[c] = "tools" => next[c] \in Nat
  BY DEF Typed, LocalInv
<1>a. CASE m.call # c
  <2> DEFINE Same == /\ pc'[m.call] = pc[m.call]
                     /\ iteration'[m.call] = iteration[m.call]
                     /\ next'[m.call] = next[m.call]
  <2> SUFFICES Same
    OBVIOUS
  <2>0. ASSUME NextIteration(c)  PROVE Same
    BY <1>0, <1>a, <2>0 DEF NextIteration, NoTools, Goto, Typed, TypeOK
  <2>1. CASE Begin(c) \/ Answer(c) \/ Bump(c) \/ CopyState(c) \/ AsksForTools(c)
    BY <1>0, <1>a, <2>1 DEF Begin, Answer, Bump, CopyState, AsksForTools, Goto, local, Typed, TypeOK
  <2>3. CASE GenerateFails(c) \/ SaveState(c) \/ SaveFails(c)
    BY <1>0, <1>a, <2>3 DEF GenerateFails, SaveState, SaveFails, Return, Goto, Typed, TypeOK
  <2>4. CASE SaysNothing(c)
    BY <2>0, <2>4 DEF SaysNothing
  <2>5. CASE AppendResult(c)
    <3>1. CASE next[c] < tools[c]
      BY <1>0, <1>a, <2>5, <3>1 DEF AppendResult, Typed, TypeOK
    <3>2. CASE ~(next[c] < tools[c])
      BY <2>0, <2>5, <3>2 DEF AppendResult
    <3>3. QED
      BY <3>1, <3>2
  <2>6. ASSUME NEW i \in 1 .. MaxTools, RunTool(c, i)  PROVE Same
    BY <2>6 DEF RunTool
  <2>7. QED
    BY <2>1, <2>3, <2>4, <2>5, <2>6 DEF CallStep
<1>b. CASE m.call = c
  <2>1. CASE Begin(c)
    BY <1>b, <2>1 DEF Begin
  <2>2. CASE Answer(c) \/ Bump(c) \/ CopyState(c)
    BY <1>b, <2>2 DEF Answer, Bump, CopyState, Goto, Typed, TypeOK
  <2>3. CASE GenerateFails(c) \/ SaveState(c) \/ SaveFails(c)
    BY <1>b, <2>3 DEF GenerateFails, SaveState, SaveFails, Return, Goto, Typed, TypeOK
  <2>4. CASE AsksForTools(c)
    BY <1>b, <2>4 DEF AsksForTools, Goto, Typed, TypeOK
  <2>5. ASSUME NEW i \in 1 .. MaxTools, RunTool(c, i)  PROVE Past(m)'
    BY <1>b, <2>5 DEF RunTool
  <2>6. ASSUME NextIteration(c), pc[c] \in {"asking", "tools"}  PROVE Past(m)'
    <3>1. CASE iteration[c] < MaxIterations
      <4>1. pc'[c] = "asking" /\ iteration'[c] = iteration[c] + 1
        BY <2>6, <3>1 DEF NextIteration, Goto, Typed, TypeOK
      <4>2. m.iteration <= iteration[c]
        BY <1>0, <1>1, <1>b, <2>6
      <4>3. QED
        BY <1>0, <1>1, <1>b, <2>6, <4>1, <4>2
    <3>2. CASE ~(iteration[c] < MaxIterations)
      BY <1>b, <2>6, <3>2 DEF NextIteration, Goto, Typed, TypeOK
    <3>3. QED
      BY <3>1, <3>2
  <2>7. CASE SaysNothing(c)
    BY <2>6, <2>7 DEF SaysNothing
  <2>8. CASE AppendResult(c)
    <3>1. CASE next[c] < tools[c]
      <4>1. next'[c] = next[c] + 1 /\ UNCHANGED <<pc, iteration>>
        BY <2>8, <3>1 DEF AppendResult, Typed, TypeOK
      <4>2. QED
        BY <1>0, <1>2, <1>b, <2>8, <4>1 DEF AppendResult
    <3>2. CASE ~(next[c] < tools[c])
      BY <2>6, <2>8, <3>2 DEF AppendResult
    <3>3. QED
      BY <3>1, <3>2
  <2>9. QED
    BY <2>1, <2>2, <2>3, <2>4, <2>5, <2>7, <2>8 DEF CallStep
<1>c. QED
  BY <1>a, <1>b

LEMMA PastKept ==
  ASSUME Typed, Typed', [Next]_vars, NEW m \in Message, Past(m)
  PROVE  Past(m)'
<1>1. ASSUME NEW c \in Calls, CallStep(c)  PROVE Past(m)'
  BY <1>1, CallPast
<1>2. CASE UNCHANGED <<pc, local>>
  BY <1>2 DEF Past, local
<1>3. QED
  BY <1>1, <1>2 DEF Next, vars, Outside, LoadState, ReadState, NewAgent, Forgets, Reset,
     ClearHistory, Cleanup

(* A call that has said something belongs where it began, from then on.     *)
LEMMA BelongsKept ==
  ASSUME Typed, [Next]_vars, NEW m \in Message, Past(m), NEW s, Belongs(m, s)
  PROVE  Belongs(m, s)'
<1>0. m.call \in Calls
  BY DEF Message
<1>1. ASSUME NEW c \in Calls, Begin(c)  PROVE Belongs(m, s)'
  <2>1. m.call # c
    BY <1>1 DEF Begin, Past
  <2>2. QED
    BY <1>0, <1>1, <2>1 DEF Begin, Belongs, Typed, TypeOK
<1>2. CASE began' = began /\ disturbed \subseteq disturbed'
  BY <1>2 DEF Belongs
<1>3. QED
  BY <1>1, <1>2 DEF Next, vars, ghost, Outside, LoadState, ReadState, NewAgent, Forgets, Reset, ClearHistory,
       Cleanup, CallStep, Answer, GenerateFails, SaysNothing, AsksForTools, AppendResult, Bump,
       CopyState, SaveState, SaveFails, RunTool

(* So every copy of the state stays sound as long as nobody changes it.     *)
LEMMA SoundKept ==
  ASSUME Typed, Typed', [Next]_vars, NEW st \in State, Sound(st)
  PROVE  Sound(st)'
<1>1. \A m \in Messages(st.history) : m \in Message
  BY DEF Messages, State
<1>2. \A m \in Messages(st.history) : Past(m)' /\ Belongs(m, st.session)'
  BY <1>1, PastKept, BelongsKept DEF Sound
<1>3. QED
  BY <1>2 DEF Sound

(* A message that comes after all its call has said leaves the history sound. *)
LEMMA SoundAppend ==
  ASSUME Typed, Typed', [Next]_vars, Sound(Current),
         NEW c \in Calls, NEW m \in Message, m.call = c, AddToHistory(c, m),
         \A n \in Message : n.call = c /\ Past(n) => Before(n, m),
         Past(m)', Belongs(m, session)'
  PROVE  Sound(Current)'
<1>1. history \in Seq(Message)
  BY DEF Typed, TypeOK, Current, State
<1>2. history' = Append(history, m) /\ session' = session
  BY DEF AddToHistory
<1>3. Current.history = history /\ Current.session = session
  BY DEF Current
<1>4. Current'.history = history' /\ Current'.session = session'
  BY DEF Current
<1>5. \A i \in DOMAIN history : history[i] \in Message /\ Past(history[i])
                                 /\ Belongs(history[i], session)
  BY <1>1, <1>3 DEF Sound, Messages
<1>6. InOrder(history')
  <2> SUFFICES ASSUME NEW i \in DOMAIN history', NEW j \in DOMAIN history',
                      i < j, history'[i].call = history'[j].call
               PROVE  Before(history'[i], history'[j])
    BY DEF InOrder
  <2>1. DOMAIN history = 1 .. Len(history) /\ DOMAIN history' = 1 .. Len(history) + 1
        /\ Len(history) \in Nat
    BY <1>1, <1>2
  <2>2. i \in DOMAIN history /\ history'[i] = history[i]
    BY <1>1, <1>2, <2>1
  <2>3. CASE j \in DOMAIN history
    <3>1. history'[j] = history[j]
      BY <1>1, <1>2, <2>1, <2>3
    <3>2. QED
      BY <1>3, <2>2, <2>3, <3>1 DEF Sound, InOrder
  <2>4. CASE j \notin DOMAIN history
    <3>1. history'[j] = m
      BY <1>1, <1>2, <2>1, <2>4
    <3>2. QED
      BY <1>5, <2>2, <3>1
  <2>5. QED
    BY <2>3, <2>4
<1>7. ASSUME NEW n \in Messages(history')  PROVE Past(n)' /\ Belongs(n, session)'
  <2>1. CASE n = m
    BY <2>1
  <2>2. CASE n # m
    <3>1. PICK i \in DOMAIN history : n = history[i]
      BY <1>1, <1>2, <2>2 DEF Messages
    <3>2. Past(n) /\ Belongs(n, session) /\ n \in Message
      BY <1>5, <3>1
    <3>3. Past(n)'
      BY <3>2, PastKept
    <3>4. Belongs(n, session')
      BY <3>2, <1>2
    <3>5. QED
      BY <3>2, <3>3, <1>2, BelongsKept DEF Belongs
  <2>3. QED
    BY <2>1, <2>2
<1>8. QED
  BY <1>4, <1>6, <1>7 DEF Sound, Messages

-----------------------------------------------------------------------------
LEMMA ListedStep == EveryStateIsListed /\ [Next]_vars => EveryStateIsListed'
<1> SUFFICES ASSUME EveryStateIsListed, [Next]_vars  PROVE EveryStateIsListed'
  OBVIOUS
<1>1. ASSUME NEW c \in Calls, SaveState(c)  PROVE EveryStateIsListed'
  BY <1>1 DEF SaveState, Save, EveryStateIsListed
<1>2. ASSUME NEW s \in Sessions, Forgets(s)  PROVE EveryStateIsListed'
  BY <1>2 DEF Forgets, Delete, Expire, Without, EveryStateIsListed
<1>3. CASE Cleanup
  BY <1>3 DEF Cleanup, CleanupExpired, Without, EveryStateIsListed
<1>4. CASE UNCHANGED store
  BY <1>4 DEF store, EveryStateIsListed
<1>5. QED
  BY <1>1, <1>2, <1>3, <1>4 DEF Next, vars, Outside, LoadState, ReadState, NewAgent, Reset, ClearHistory,
     CallStep, Begin, Answer, GenerateFails, SaysNothing, AsksForTools, AppendResult, Bump,
     CopyState, SaveFails, RunTool

-----------------------------------------------------------------------------
(* The agent's own state stays sound. *)
LEMMA BeginSound ==
  ASSUME Typed, Typed', SoundInv, [Next]_vars, NEW c \in Calls, Begin(c)
  PROVE  Sound(Current)'
<1>1. User(c) \in Message /\ User(c).call = c
  BY MessageTypes DEF User
<1>2. \A n \in Message : n.call = c /\ Past(n) => Before(n, User(c))
  BY DEF Past, Begin
<1>3. pc'[c] = "asking" /\ iteration'[c] = 1 /\ began'[c] = session /\ session' = session
  BY DEF Begin, Goto, AddToHistory, Typed, TypeOK
<1>4. Past(User(c))'
  BY <1>3 DEF Past, User
<1>5. Belongs(User(c), session)'
  BY <1>3 DEF Belongs, User
<1>6. QED
  BY <1>1, <1>2, <1>4, <1>5, SoundAppend DEF SoundInv, Begin

LEMMA AnswerSound ==
  ASSUME Typed, Typed', SoundInv, [Next]_vars, NEW c \in Calls, Answer(c)
  PROVE  Sound(Current)'
<1>1. PICK m \in Message : m = Assistant(c)
  BY MessageTypes
<1>2. m.call = c /\ m.iteration = iteration[c] /\ m.place = MaxTools + 1
  BY <1>1 DEF Assistant
<1>3. \A n \in Message : n.call = c /\ Past(n) => Before(n, m)
  BY <1>2 DEF Past, Answer, Before
<1>4. pc'[c] = "bump" /\ UNCHANGED <<began, disturbed, session>>
  BY DEF Answer, Goto, AddToHistory, ghost, Typed, TypeOK
<1>5. Past(m)'
  BY <1>2, <1>4 DEF Past
<1>6. c \in Active
  BY DEF Active, Answer
<1>7. Belongs(m, session)'
  BY <1>2, <1>4, <1>6 DEF Belongs, SoundInv
<1>8. AddToHistory(c, m)
  BY <1>1 DEF Answer
<1>9. QED
  BY <1>2, <1>3, <1>5, <1>7, <1>8, SoundAppend DEF SoundInv

LEMMA AppendResultSound ==
  ASSUME Typed, Typed', SoundInv, [Next]_vars, NEW c \in Calls, AppendResult(c)
  PROVE  Sound(Current)'
<1> USE ASAssumption
<1>0. PICK m \in Message : m = Tool(c, next[c])
  BY MessageTypes DEF AppendResult
<1>1. m.call = c /\ m.iteration = iteration[c] /\ m.place = next[c]
  BY <1>0 DEF Tool
<1>2. \A n \in Message : n.call = c /\ Past(n) => Before(n, m)
  BY <1>1 DEF Past, AppendResult, Before
<1>3. iteration[c] \in 1 .. MaxIterations /\ next[c] \in 1 .. tools[c] /\ tools[c] \in 1 .. MaxTools
  BY DEF AppendResult, Typed, LocalInv
<1>4. Past(m)'
  <2>1. CASE next[c] < tools[c]
    <3>1. next'[c] = next[c] + 1 /\ UNCHANGED <<pc, iteration>> /\ pc[c] = "tools"
      BY <2>1 DEF AppendResult, Typed, TypeOK
    <3>2. QED
      BY <1>1, <1>3, <3>1 DEF Past
  <2>2. CASE ~(next[c] < tools[c])
    <3>1. NextIteration(c)
      BY <2>2 DEF AppendResult
    <3>2. CASE iteration[c] < MaxIterations
      <4>1. pc'[c] = "asking" /\ iteration'[c] = iteration[c] + 1
        BY <3>1, <3>2 DEF NextIteration, Goto, Typed, TypeOK
      <4>2. QED
        BY <1>1, <1>3, <4>1 DEF Past
    <3>3. CASE ~(iteration[c] < MaxIterations)
      <4>1. pc'[c] = "bump"
        BY <3>1, <3>3 DEF NextIteration, Goto, Typed, TypeOK
      <4>2. QED
        BY <1>1, <4>1 DEF Past
    <3>4. QED
      BY <3>2, <3>3
  <2>3. QED
    BY <2>1, <2>2
<1>5. c \in Active
  BY DEF Active, AppendResult
<1>6. UNCHANGED <<began, disturbed, session>>
  BY DEF AppendResult, AddToHistory, ghost
<1>7. Belongs(m, session)'
  BY <1>1, <1>5, <1>6 DEF Belongs, SoundInv
<1>8. AddToHistory(c, m)
  BY <1>0 DEF AppendResult
<1>9. QED
  BY <1>1, <1>2, <1>4, <1>7, <1>8, SoundAppend DEF SoundInv

LEMMA CurrentSound ==
  ASSUME Typed, Typed', SoundInv, [Next]_vars
  PROVE  Sound(Current)'
<1>1. Current \in State /\ Sound(Current)
  BY DEF SoundInv, Typed, TypeOK
<1>2. ASSUME NEW st \in State, Sound(st), Current' = st  PROVE Sound(Current)'
  BY <1>2, SoundKept
<1>3. ASSUME NEW s \in Sessions, s \in DOMAIN states, Becomes(states[s])  PROVE Sound(Current)'
  <2>1. states[s] \in State /\ Sound(states[s])
    BY <1>3 DEF SoundInv, Typed, TypeOK
  <2>2. Current' = states[s]
    BY <1>3, <2>1 DEF Becomes, Current, State
  <2>3. QED
    BY <1>2, <2>1, <2>2
<1>4. ASSUME history' = <<>>  PROVE Sound(Current)'
  BY <1>4 DEF Sound, Current, Messages, InOrder
<1>5. ASSUME UNCHANGED <<session, history>>  PROVE Sound(Current)'
  <2>1. PICK st \in State : st = Current
    BY <1>1
  <2>2. Sound(st)'
    BY <1>1, <2>1, SoundKept
  <2>3. st.history = Current'.history /\ st.session = Current'.session
    BY <1>5, <2>1 DEF Current
  <2>4. QED
    BY <2>2, <2>3 DEF Sound
<1>6. ASSUME NEW s \in Sessions, NewAgent(s)  PROVE Sound(Current)'
  BY <1>3, <1>4, <1>6 DEF NewAgent, Loadable, Fresh, Becomes
<1>7. CASE LoadState
  <2>1. PICK st \in State : st = loading
    BY <1>7 DEF LoadState, Typed, TypeOK
  <2>2. Sound(st) /\ Current' = st
    BY <1>7, <2>1 DEF LoadState, Becomes, Current, State, SoundInv
  <2>3. QED
    BY <1>2, <2>2
<1>8. QED
  BY <1>4, <1>5, <1>6, <1>7, BeginSound, AnswerSound, AppendResultSound
     DEF Next, vars, agent, Outside, ReadState, Forgets, Reset, ClearHistory, Cleanup,
         CallStep, GenerateFails, SaysNothing, AsksForTools, Bump, CopyState, SaveState,
         SaveFails, RunTool

LEMMA StoredSound ==
  ASSUME Typed, Typed', SoundInv, [Next]_vars
  PROVE  \A s \in DOMAIN states' : Sound(states[s])' /\ states'[s].session = s
<1>1. ASSUME NEW s \in DOMAIN states', s \in DOMAIN states, states'[s] = states[s]
      PROVE  Sound(states[s])' /\ states'[s].session = s
  <2>1. PICK st \in State : st = states[s]
    BY <1>1 DEF Typed, TypeOK
  <2>2. Sound(st) /\ st.session = s
    BY <1>1, <2>1 DEF SoundInv
  <2>3. QED
    BY <1>1, <2>1, <2>2, SoundKept
<1>2. ASSUME NEW c \in Calls, SaveState(c)
      PROVE  \A s \in DOMAIN states' : Sound(states[s])' /\ states'[s].session = s
  <2>1. PICK st \in State : st = copy[c]
    BY <1>2 DEF SaveState, Typed, LocalInv
  <2>2. Sound(st)
    BY <1>2, <2>1 DEF SoundInv, SaveState
  <2>3. states' = [t \in DOMAIN states \union {st.session} |-> IF t = st.session THEN st ELSE states[t]]
    BY <1>2, <2>1 DEF SaveState, Save
  <2>4. \A s \in DOMAIN states' : s # st.session => s \in DOMAIN states /\ states'[s] = states[s]
    BY <2>3
  <2>5. Sound(st)'
    BY <2>2, SoundKept
  <2>6. QED
    BY <1>1, <2>3, <2>4, <2>5
<1>3. CASE \A s \in DOMAIN states' : s \in DOMAIN states /\ states'[s] = states[s]
  BY <1>1, <1>3
<1>4. QED
  BY <1>2, <1>3 DEF Next, vars, store, Outside, LoadState, ReadState, NewAgent, Forgets, Delete, Expire,
     Reset, ClearHistory, Cleanup, CleanupExpired, Without, CallStep, Begin, Answer,
     GenerateFails, SaysNothing, AsksForTools, AppendResult, Bump, CopyState, SaveFails, RunTool

LEMMA CopiesSound ==
  ASSUME Typed, Typed', SoundInv, [Next]_vars, NEW c \in Calls, pc'[c] = "save"
  PROVE  Sound(copy[c])'
<1>1. ASSUME copy'[c] = copy[c], pc[c] = "save"  PROVE Sound(copy[c])'
  <2>1. PICK st \in State : st = copy[c]
    BY <1>1 DEF Typed, LocalInv
  <2>2. Sound(st)
    BY <1>1, <2>1 DEF SoundInv
  <2>3. QED
    BY <1>1, <2>1, <2>2, SoundKept
<1>2. CASE CopyState(c)
  <2>1. PICK st \in State : st = Current
    BY DEF Typed, TypeOK
  <2>2. Sound(st)
    BY <2>1 DEF SoundInv
  <2>3. copy'[c] = st
    BY <1>2, <2>1 DEF CopyState, Typed, TypeOK
  <2>4. QED
    BY <2>2, <2>3, SoundKept
<1>3. ASSUME NEW d \in Calls, CallStep(d), ~CopyState(c)
      PROVE  copy'[c] = copy[c] /\ pc[c] = "save"
  <2>1. CASE Begin(d) \/ Answer(d) \/ AsksForTools(d) \/ Bump(d)
    BY <2>1 DEF Begin, Answer, AsksForTools, Bump, Goto, Typed, TypeOK
  <2>2. CASE CopyState(d)
    BY <1>3, <2>2 DEF CopyState, Goto, Typed, TypeOK
  <2>3. CASE GenerateFails(d) \/ SaveState(d) \/ SaveFails(d)
    BY <2>3 DEF GenerateFails, SaveState, SaveFails, Return, Goto, Typed, TypeOK
  <2>4. ASSUME NextIteration(d), UNCHANGED copy  PROVE copy'[c] = copy[c] /\ pc[c] = "save"
    BY <2>4 DEF NextIteration, Goto, Typed, TypeOK
  <2>5. CASE SaysNothing(d)
    BY <2>4, <2>5 DEF SaysNothing
  <2>6. CASE AppendResult(d)
    BY <2>4, <2>6 DEF AppendResult
  <2>7. ASSUME NEW i \in 1 .. MaxTools, RunTool(d, i)  PROVE copy'[c] = copy[c] /\ pc[c] = "save"
    BY <2>7 DEF RunTool
  <2>8. QED
    BY <1>3, <2>1, <2>2, <2>3, <2>5, <2>6, <2>7 DEF CallStep
<1>4. CASE UNCHANGED <<pc, copy>>
  BY <1>1, <1>4
<1>6. QED
  BY <1>1, <1>2, <1>3, <1>4 DEF Next, vars, Outside, LoadState, ReadState, NewAgent, Forgets,
     Reset, ClearHistory, Cleanup

(* A running call is in its session, unless the state was replaced under it. *)
LEMMA ActiveBelongs ==
  ASSUME Typed, Typed', SoundInv, [Next]_vars, NEW c \in Calls, c \in Active'
  PROVE  began'[c] = session' \/ c \in disturbed'
<1>1. ASSUME c \in Active, began'[c] = began[c], session' = session, disturbed \subseteq disturbed'
      PROVE  began'[c] = session' \/ c \in disturbed'
  BY <1>1 DEF SoundInv
<1>2. CASE Begin(c)
  BY <1>2 DEF Begin, AddToHistory, Typed, TypeOK
<1>3. ASSUME NEW d \in Calls, CallStep(d), ~Begin(c)
      PROVE  c \in Active /\ began'[c] = began[c] /\ session' = session /\ disturbed' = disturbed
  <2>1. CASE Begin(d)
    BY <1>3, <2>1 DEF Begin, AddToHistory, Goto, Typed, TypeOK, Active
  <2>2. (UNCHANGED <<began, session, disturbed>>) \/ Begin(d)
    BY <1>3 DEF CallStep, Answer, GenerateFails, SaysNothing, AsksForTools, AppendResult, Bump,
       CopyState, SaveState, SaveFails, RunTool, AddToHistory, agent, ghost
  <2>3. CASE ~Begin(d)
    <3>1. pc[d] \in {"asking", "tools", "bump", "copy", "save"}
      BY <1>3, <2>3 DEF CallStep, Answer, GenerateFails, SaysNothing, AsksForTools, AppendResult,
         Bump, CopyState, SaveState, SaveFails, RunTool
    <3>2. c # d => pc'[c] = pc[c]
      BY <1>3, <2>3 DEF CallStep, Answer, GenerateFails, SaysNothing, AsksForTools, AppendResult,
         Bump, CopyState, SaveState, SaveFails, RunTool, Goto, Return, Goto, NextIteration,
         Typed, TypeOK
    <3>3. QED
      BY <2>2, <2>3, <3>1, <3>2 DEF Active
  <2>4. QED
    BY <2>1, <2>3
<1>5. ASSUME UNCHANGED pc, disturbed' = disturbed \union Active
      PROVE  c \in disturbed'
  BY <1>5 DEF Active
<1>6. CASE UNCHANGED <<pc, began, disturbed, session>>
  BY <1>1, <1>6 DEF Active
<1>7. QED
  BY <1>1, <1>2, <1>3, <1>5, <1>6 DEF Next, vars, agent, ghost, Outside, LoadState,
     ReadState, NewAgent, Forgets, Reset, ClearHistory, Cleanup

LEMMA LoadingSound ==
  ASSUME Typed, Typed', SoundInv, [Next]_vars, loading' # None
  PROVE  Sound(loading)'
<1>1. CASE UNCHANGED loading
  <2>1. PICK st \in State : st = loading
    BY <1>1 DEF Typed, TypeOK
  <2>2. Sound(st)
    BY <1>1, <2>1 DEF SoundInv
  <2>3. QED
    BY <1>1, <2>1, <2>2, SoundKept
<1>2. ASSUME NEW s \in Sessions, ReadState(s)  PROVE Sound(loading)'
  <2>1. PICK st \in State : st = states[s]
    BY <1>2 DEF ReadState, Loadable, Typed, TypeOK
  <2>2. Sound(st) /\ loading' = st
    BY <1>2, <2>1 DEF SoundInv, ReadState, Loadable
  <2>3. QED
    BY <2>2, SoundKept
<1>3. QED
  BY <1>1, <1>2 DEF Next, vars, Outside, LoadState, NewAgent, Forgets, Reset, ClearHistory, Cleanup

LEMMA SoundStep == Typed /\ Typed' /\ SoundInv /\ [Next]_vars => SoundInv'
<1> SUFFICES ASSUME Typed, Typed', SoundInv, [Next]_vars  PROVE SoundInv'
  OBVIOUS
<1>1. Sound(Current)'
  BY CurrentSound
<1>2. \A s \in DOMAIN states' : Sound(states[s])' /\ states'[s].session = s
  BY StoredSound
<1>3. \A c \in Calls : pc'[c] = "save" => Sound(copy[c])'
  BY CopiesSound
<1>4. \A c \in Active' : began'[c] = session' \/ c \in disturbed'
  BY ActiveBelongs DEF Active
<1>5. loading' # None => Sound(loading)'
  BY LoadingSound
<1>6. QED
  BY <1>1, <1>2, <1>3, <1>4, <1>5 DEF SoundInv

-----------------------------------------------------------------------------
LEMMA Inductive == Spec => []IInv
<1>1. IInv /\ [Next]_vars => IInv'
  BY TypeStep, ListedStep, SoundStep DEF IInv, Typed
<1>2. QED
  BY InitInv, <1>1, PTL DEF Spec

(* The variables of the agent, its calls and its store keep their types. *)
THEOREM TypeCorrect == Spec => []TypeOK
<1>1. IInv => TypeOK
  BY DEF IInv
<1>2. QED
  BY Inductive, <1>1, PTL

(* List always shows every session that has a state. *)
THEOREM ListedCorrect == Spec => []EveryStateIsListed
<1>1. IInv => EveryStateIsListed
  BY DEF IInv
<1>2. QED
  BY Inductive, <1>1, PTL

(* Every call's turns stand once and in order, in the agent's history and in *)
(* every stored one, and stored histories hold messages of their own        *)
(* session's calls, unless the state was replaced under the call; for any   *)
(* number of sessions, calls, iterations and tools.                         *)
THEOREM HistoriesCorrect == Spec => []HistoriesAreTrue
<1>1. IInv => TurnsInOrder
  BY DEF IInv, SoundInv, Sound, TurnsInOrder, Current
<1>2. IInv => SessionsApart
  BY DEF IInv, SoundInv, Sound, Belongs, Messages, SessionsApart
<1>3. IInv => HistoriesAreTrue
  BY <1>1, <1>2 DEF HistoriesAreTrue
<1>4. QED
  BY Inductive, <1>3, PTL
-----------------------------------------------------------------------------
(* What a step of a call does to what was said: it appends one message, or  *)
(* ends the call, or leaves all of it alone.                                *)
Says(c) ==
  \/ \E m \in Message : AddToHistory(c, m)
  \/ /\ UNCHANGED agent /\ said' = [said EXCEPT ![c] = {}]
     /\ \/ pc' = [pc EXCEPT ![c] = "done"]
        \/ pc' = [pc EXCEPT ![c] = "failed"]
  \/ UNCHANGED <<session, history, said>>

LEMMA StepSays ==
  ASSUME Typed, NEW c \in Calls, CallStep(c)
  PROVE  /\ Says(c) /\ UNCHANGED <<session, disturbed>> /\ pc'[c] # "idle"
         /\ \A d \in Calls \ {c} : pc'[d] = pc[d]
         /\ c \in Active \/ pc[c] = "idle"
<1> USE DEF Typed, TypeOK
<1>1. ASSUME NextIteration(c), pc[c] \in {"asking", "tools"}
      PROVE  /\ pc'[c] # "idle" /\ \A d \in Calls \ {c} : pc'[d] = pc[d]
             /\ c \in Active
  BY <1>1 DEF NextIteration, Goto, Active
<1>2. CASE Begin(c)
  BY <1>2, MessageTypes DEF Begin, Goto, AddToHistory, Says
<1>3. CASE Answer(c)
  BY <1>3, MessageTypes DEF Answer, Goto, AddToHistory, Says, Active, ghost
<1>4. CASE GenerateFails(c) \/ SaveFails(c) \/ SaveState(c)
  BY <1>4 DEF GenerateFails, SaveFails, SaveState, Return, Goto, Says, Active, agent, ghost
<1>5. CASE SaysNothing(c)
  BY <1>1, <1>5 DEF SaysNothing, Says, agent, ghost
<1>6. CASE AsksForTools(c) \/ Bump(c) \/ CopyState(c)
  BY <1>6 DEF AsksForTools, Bump, CopyState, Goto, Says, Active, agent, ghost
<1>7. CASE AppendResult(c)
  <2>1. /\ pc[c] = "tools" /\ AddToHistory(c, Tool(c, next[c])) /\ UNCHANGED disturbed
        /\ UNCHANGED pc \/ NextIteration(c)
    BY <1>7 DEF AppendResult, ghost
  <2>2. Says(c) /\ UNCHANGED session
    BY <2>1, MessageTypes DEF Says, AddToHistory
  <2>3. QED
    BY <1>1, <2>1, <2>2 DEF Active
<1>8. ASSUME NEW i \in 1 .. MaxTools, RunTool(c, i)
      PROVE  /\ Says(c) /\ UNCHANGED <<session, disturbed>> /\ pc'[c] # "idle"
             /\ \A d \in Calls \ {c} : pc'[d] = pc[d]
             /\ c \in Active \/ pc[c] = "idle"
  BY <1>8 DEF RunTool, Says, Active, agent, ghost
<1>9. QED
  BY <1>2, <1>3, <1>4, <1>5, <1>6, <1>7, <1>8 DEF CallStep

LEMMA AppendMessages ==
  ASSUME NEW h \in Seq(Message), NEW m \in Message
  PROVE  Messages(Append(h, m)) = Messages(h) \union {m}
<1>1. DOMAIN Append(h, m) = DOMAIN h \union {Len(h) + 1} /\ Len(h) + 1 \notin DOMAIN h
  OBVIOUS
<1>2. Append(h, m)[Len(h) + 1] = m /\ \A i \in DOMAIN h : Append(h, m)[i] = h[i]
  OBVIOUS
<1>3. QED
  BY <1>1, <1>2 DEF Messages

(* The history only grows under a call. *)
LEMMA HistoryGrows ==
  ASSUME Typed, NEW c \in Calls, Says(c)
  PROVE  /\ Messages(history) \subseteq Messages(history')
         /\ \A d \in Calls \ {c} : said'[d] = said[d]
         /\ said[c] \subseteq Messages(history) => said'[c] \subseteq Messages(history')
<1>1. history \in Seq(Message) /\ said \in [Calls -> SUBSET Message]
  BY DEF Typed, TypeOK, Current, State
<1>2. ASSUME NEW m \in Message, AddToHistory(c, m)
      PROVE  /\ Messages(history') = Messages(history) \union {m}
             /\ said' = [said EXCEPT ![c] = said[c] \union {m}]
  BY <1>1, <1>2, AppendMessages DEF AddToHistory
<1>3. CASE \E m \in Message : AddToHistory(c, m)
  BY <1>1, <1>2, <1>3
<1>4. CASE UNCHANGED history /\ (said' = [said EXCEPT ![c] = {}] \/ said' = said)
  BY <1>1, <1>4
<1>5. QED
  BY <1>3, <1>4 DEF Says, agent

(* A call that has not begun has said nothing. *)
SaidInv == PromptIsComplete /\ \A c \in Calls : pc[c] = "idle" => said[c] = {}

LEMMA SaidStep == Typed /\ SaidInv /\ [Next]_vars => SaidInv'
<1> SUFFICES ASSUME Typed, SaidInv, [Next]_vars PROVE SaidInv'
  OBVIOUS
<1>1. ASSUME NEW c \in Calls, CallStep(c) PROVE SaidInv'
  <2>1. /\ Says(c) /\ UNCHANGED disturbed /\ pc'[c] # "idle"
        /\ \A d \in Calls \ {c} : pc'[d] = pc[d]
        /\ c \in Active \/ pc[c] = "idle"
    BY <1>1, StepSays
  <2>2. /\ Messages(history) \subseteq Messages(history')
        /\ \A d \in Calls \ {c} : said'[d] = said[d]
        /\ said[c] \subseteq Messages(history) => said'[c] \subseteq Messages(history')
    BY <2>1, HistoryGrows
  <2>3. \A d \in Calls : pc'[d] = "idle" => said'[d] = {}
    BY <2>1, <2>2 DEF SaidInv
  <2>4. ASSUME NEW d \in Active' \ disturbed' PROVE said'[d] \subseteq Messages(history')
    <3>1. CASE d = c
      <4>1. said[c] \subseteq Messages(history)
        BY <2>1, <2>4, <3>1 DEF SaidInv, PromptIsComplete
      <4>2. QED
        BY <2>2, <3>1, <4>1
    <3>2. CASE d # c
      <4>1. d \in Active \ disturbed
        BY <2>1, <2>4, <3>2 DEF Active
      <4>2. QED
        BY <2>2, <3>2, <4>1 DEF SaidInv, PromptIsComplete, Active
    <3>3. QED
      BY <3>1, <3>2
  <2>5. QED
    BY <2>3, <2>4 DEF SaidInv, PromptIsComplete
<1>2. ASSUME UNCHANGED <<pc, said>>, disturbed' = disturbed \union Active \/ Active = {}
      PROVE  SaidInv'
  <2>1. Active' = Active
    BY <1>2 DEF Active
  <2>2. Active' \ disturbed' = {}
    BY <1>2, <2>1
  <2>3. QED
    BY <1>2, <2>2 DEF SaidInv, PromptIsComplete
<1>3. CASE LoadState \/ Reset \/ ClearHistory \/ \E s \in Sessions : NewAgent(s)
  BY <1>2, <1>3 DEF LoadState, Reset, ClearHistory, NewAgent
<1>4. CASE UNCHANGED <<pc, said, history, disturbed>>
  BY <1>4 DEF SaidInv, PromptIsComplete, Active, Messages
<1>5. CASE Cleanup \/ \E s \in Sessions : ReadState(s) \/ Forgets(s)
  BY <1>4, <1>5 DEF Cleanup, ReadState, Forgets, agent, ghost
<1>6. CASE UNCHANGED vars
  BY <1>4, <1>6 DEF vars, agent, ghost
<1>7. QED
  BY <1>1, <1>3, <1>5, <1>6 DEF Next, Outside

(* Whenever a call asks the model, all that it has said so far is in the    *)
(* history, however many other calls append to it meanwhile.                *)
THEOREM PromptCorrect == Spec => []PromptIsComplete
<1>1. Init => SaidInv
  <2> SUFFICES ASSUME Init PROVE SaidInv
    OBVIOUS
  <2>1. Active = {} /\ \A c \in Calls : said[c] = {}
    BY DEF Init, Active
  <2>2. QED
    BY <2>1 DEF SaidInv, PromptIsComplete
<1>2. IInv => Typed
  BY DEF IInv, Typed
<1>3. SaidInv => PromptIsComplete
  BY DEF SaidInv
<1>4. Spec => []SaidInv
  BY <1>1, <1>2, Inductive, SaidStep, PTL DEF Spec
<1>5. QED
  BY <1>3, <1>4, PTL

-----------------------------------------------------------------------------
(* While nobody interferes, the agent holds all that is stored of its       *)
(* session, and so does a copy that no save has overtaken.                  *)
Stored == IF session \in DOMAIN states THEN Messages(states[session].history) ELSE {}

KeptInv ==
  outside = 0 =>
    /\ expired = {} /\ loading = None
    /\ Stored \subseteq Messages(history)
    /\ \A c \in Calls : pc[c] = "save" =>
         /\ copy[c].session = session
         /\ Messages(copy[c].history) \subseteq Messages(history)
         /\ c \notin overtaken => Stored \subseteq Messages(copy[c].history)

(* A step that leaves the store alone and adds to the history. *)
LEMMA KeptGrows ==
  ASSUME KeptInv, UNCHANGED <<session, expired, loading, outside, overtaken>>,
         DOMAIN states' = DOMAIN states, \A s \in DOMAIN states : states'[s] = states[s],
         Messages(history) \subseteq Messages(history'),
         \A c \in Calls : pc'[c] = "save" =>
           \/ /\ pc[c] = "save"
              /\ copy'[c] = copy[c]
           \/ /\ copy'[c] = Current
              /\ UNCHANGED history
  PROVE  KeptInv'
<1>1. Stored' = Stored
  BY DEF Stored, Messages
<1>3. Current.session = session /\ Current.history = history
  BY DEF Current
<1>4. SUFFICES ASSUME outside = 0
               PROVE  /\ Stored \subseteq Messages(history')
                      /\ \A c \in Calls : pc'[c] = "save" =>
                           /\ copy'[c].session = session
                           /\ Messages(copy'[c].history) \subseteq Messages(history')
                           /\ c \notin overtaken => Stored \subseteq Messages(copy'[c].history)
  BY <1>1 DEF KeptInv, Messages
<1>5. Stored \subseteq Messages(history')
  BY <1>4 DEF KeptInv
<1>6. ASSUME NEW c \in Calls, pc'[c] = "save"
      PROVE  /\ copy'[c].session = session
             /\ Messages(copy'[c].history) \subseteq Messages(history')
             /\ c \notin overtaken => Stored \subseteq Messages(copy'[c].history)
  <2>1. CASE pc[c] = "save" /\ copy'[c] = copy[c]
    BY <1>4, <2>1 DEF KeptInv
  <2>2. CASE copy'[c] = Current /\ UNCHANGED history
    BY <1>3, <1>4, <2>2 DEF KeptInv
  <2>3. QED
    BY <1>6, <2>1, <2>2
<1>7. QED
  BY <1>5, <1>6

LEMMA KeptBySave ==
  ASSUME Typed, KeptInv, NEW c \in Calls, SaveState(c), UNCHANGED <<loading, outside>>
  PROVE  KeptInv'
<1> SUFFICES ASSUME outside = 0 PROVE KeptInv'
  BY DEF KeptInv
<1>1. /\ pc[c] = "save" /\ pc' = [pc EXCEPT ![c] = "done"] /\ UNCHANGED <<session, history>>
      /\ copy' = [copy EXCEPT ![c] = None]
      /\ overtaken' = {d \in Calls \ {c} : pc[d] = "save"} \union (overtaken \ {c})
      /\ Save(copy[c].session, copy[c])
  BY DEF SaveState, Return, Goto, agent
<1>2. /\ copy[c].session = session /\ Messages(copy[c].history) \subseteq Messages(history)
      /\ expired = {} /\ loading = None
  BY <1>1 DEF KeptInv
<1>3. /\ states' = [t \in DOMAIN states \union {session} |-> IF t = session THEN copy[c] ELSE states[t]]
      /\ expired' = {}
  BY <1>1, <1>2 DEF Save
<1>4. Stored' = Messages(copy[c].history)
  BY <1>1, <1>3 DEF Stored, Messages
<1>5. \A d \in Calls : pc'[d] = "save" =>
        d # c /\ pc[d] = "save" /\ copy'[d] = copy[d] /\ d \in overtaken'
  BY <1>1 DEF Typed, TypeOK
<1>6. /\ loading' = None /\ Messages(history') = Messages(history)
      /\ \A d \in Calls : pc'[d] = "save" =>
           copy'[d].session = session /\ Messages(copy'[d].history) \subseteq Messages(history)
  BY <1>1, <1>2, <1>5 DEF KeptInv, Messages
<1>7. QED
  BY <1>1, <1>2, <1>3, <1>4, <1>5, <1>6 DEF KeptInv

LEMMA CallKept ==
  ASSUME Typed, KeptInv, NEW c \in Calls, CallStep(c), UNCHANGED <<loading, outside>>
  PROVE  KeptInv'
<1>1. CASE SaveState(c)
  BY <1>1, KeptBySave
<1>2. CASE ~SaveState(c)
  <2>1. UNCHANGED <<states, expired, overtaken>>
    BY <1>2 DEF CallStep, Begin, Answer, GenerateFails, SaysNothing, AsksForTools, AppendResult,
       Bump, CopyState, SaveFails, RunTool, ghost, store
  <2>2. UNCHANGED session /\ Messages(history) \subseteq Messages(history')
    BY StepSays, HistoryGrows
  <2>3. CASE CopyState(c)
    BY <2>1, <2>2, <2>3, KeptGrows DEF CopyState, Goto, Typed, TypeOK, agent
  <2>4. CASE ~CopyState(c)
    <3>1. pc'[c] # "save"
      BY <1>2, <2>4 DEF CallStep, Begin, Answer, GenerateFails, SaysNothing, AsksForTools,
         AppendResult, Bump, SaveFails, RunTool, Goto, Return, NextIteration, Typed, TypeOK
    <3>2. UNCHANGED copy \/ copy' = [copy EXCEPT ![c] = None]
      BY <1>2, <2>4 DEF CallStep, Begin, Answer, GenerateFails, SaysNothing, AsksForTools,
         AppendResult, Bump, SaveFails, RunTool, Return
    <3>3. \A d \in Calls : pc'[d] = "save" => pc[d] = "save" /\ copy'[d] = copy[d]
      BY <3>1, <3>2, StepSays DEF Typed, TypeOK
    <3>4. QED
      BY <2>1, <2>2, <3>3, KeptGrows
  <2>5. QED
    BY <2>3, <2>4
<1>3. QED
  BY <1>1, <1>2

(* An agent that takes over begins with what is stored. *)
LEMMA NewAgentKept ==
  ASSUME Typed, SoundInv, KeptInv, NEW s \in Sessions, NewAgent(s)
  PROVE  KeptInv'
<1> SUFFICES ASSUME outside = 0 PROVE KeptInv'
  BY DEF NewAgent, KeptInv
<1>1. expired = {} /\ loading = None /\ UNCHANGED <<pc, states, expired, loading, outside>>
  BY DEF KeptInv, NewAgent, store
<1>2. \A c \in Calls : pc'[c] # "save"
  BY <1>1 DEF NewAgent, Active
<1>3. CASE s \in DOMAIN states
  <2>1. session' = s /\ history' = states[s].history
    BY <1>1, <1>3 DEF NewAgent, Becomes, Loadable, SoundInv
  <2>2. Stored' = Messages(history')
    BY <1>1, <1>3, <2>1 DEF Stored, Messages
  <2>3. QED
    BY <1>1, <1>2, <2>2 DEF KeptInv
<1>4. CASE s \notin DOMAIN states
  <2>1. session' = s
    BY <1>4 DEF NewAgent, Becomes, Loadable, Fresh
  <2>2. Stored' = {}
    BY <1>1, <1>4, <2>1 DEF Stored
  <2>3. QED
    BY <1>1, <1>2, <2>2 DEF KeptInv
<1>5. QED
  BY <1>3, <1>4

LEMMA KeptStep == Typed /\ SoundInv /\ KeptInv /\ [Next]_vars => KeptInv'
<1> SUFFICES ASSUME Typed, SoundInv, KeptInv, [Next]_vars PROVE KeptInv'
  OBVIOUS
<1>1. ASSUME NEW c \in Calls, CallStep(c), UNCHANGED <<loading, outside>> PROVE KeptInv'
  BY <1>1, CallKept
<1>2. ASSUME NEW s \in Sessions, NewAgent(s) PROVE KeptInv'
  BY <1>2, NewAgentKept
<1>3. CASE Outside
  <2>1. outside' # 0
    BY <1>3 DEF Outside, Interfere, Typed, TypeOK
  <2>2. QED
    BY <2>1 DEF KeptInv
<1>4. CASE LoadState
  BY <1>4 DEF LoadState, KeptInv
<1>5. CASE Cleanup
  <2>1. UNCHANGED <<session, history, pc, copy, overtaken, loading, outside>>
    BY <1>5 DEF Cleanup, agent, ghost
  <2>2. CASE outside # 0
    BY <2>1, <2>2 DEF KeptInv
  <2>3. CASE outside = 0
    <3>1. /\ DOMAIN states' = DOMAIN states /\ expired' = expired
          /\ \A s \in DOMAIN states : states'[s] = states[s]
      BY <1>5, <2>3 DEF Cleanup, CleanupExpired, Without, KeptInv
    <3>2. QED
      BY <2>1, <3>1, KeptGrows DEF Messages
  <2>4. QED
    BY <2>2, <2>3
<1>6. CASE UNCHANGED vars
  <2>1. UNCHANGED <<session, history, pc, copy, overtaken, loading, outside, states, expired>>
    BY <1>6 DEF vars, agent, ghost, store
  <2>2. QED
    BY <2>1, KeptGrows DEF Messages
<1>7. QED
  BY <1>1, <1>2, <1>3, <1>4, <1>5, <1>6 DEF Next

(* What a call that is in time does when it saves. *)
SaveKeeps ==
  \A c \in Calls \ overtaken :
    pc[c] = "save" /\ pc'[c] = "done" /\ outside = 0 =>
      \A s \in DOMAIN states :
        Messages(states[s].history) \subseteq Messages(states'[s].history)

LEMMA SaveStep == Typed /\ KeptInv /\ [Next]_vars => SaveKeeps
<1> SUFFICES ASSUME Typed, KeptInv, [Next]_vars,
                    NEW c \in Calls \ overtaken, pc[c] = "save", pc'[c] = "done", outside = 0,
                    NEW s \in DOMAIN states
             PROVE  Messages(states[s].history) \subseteq Messages(states'[s].history)
  BY DEF SaveKeeps
<1>1. SaveState(c) \/ SaveFails(c)
  <2>1. ~(UNCHANGED pc)
    OBVIOUS
  <2>2. PICK d \in Calls : CallStep(d)
    BY <2>1 DEF Next, vars, Outside, ReadState, Forgets, Reset, ClearHistory, LoadState, Cleanup,
       NewAgent
  <2>3. d = c
    BY <2>2, StepSays
  <2>4. QED
    BY <2>2, <2>3 DEF CallStep, Begin, Answer, GenerateFails, SaysNothing, AsksForTools,
       AppendResult, Bump, CopyState, RunTool
<1>2. CASE SaveFails(c)
  BY <1>2 DEF SaveFails, store, Messages
<1>3. CASE SaveState(c)
  <2>1. /\ copy[c].session = session /\ Stored \subseteq Messages(copy[c].history)
        /\ states' = [t \in DOMAIN states \union {copy[c].session} |->
                        IF t = copy[c].session THEN copy[c] ELSE states[t]]
    BY <1>3 DEF KeptInv, SaveState, Save
  <2>2. CASE s = session
    BY <2>1, <2>2 DEF Stored
  <2>3. CASE s # session
    BY <2>1, <2>3
  <2>4. QED
    BY <2>2, <2>3
<1>4. QED
  BY <1>1, <1>2, <1>3

(* Without interference from outside, no save of a call loses a message that *)
(* is stored, unless another call has saved between its copy and its save.   *)
THEOREM SavedCorrect == Spec => SavedIsKept
<1>1. Init => KeptInv
  <2> SUFFICES ASSUME Init PROVE KeptInv
    OBVIOUS
  <2>1. Stored = {} /\ \A c \in Calls : pc[c] # "save"
    BY DEF Init, StoreInit, Stored
  <2>2. QED
    BY <2>1 DEF KeptInv, Init, StoreInit
<1>2. IInv => Typed /\ SoundInv
  BY DEF IInv, Typed
<1>3. Spec => []KeptInv
  BY <1>1, <1>2, Inductive, KeptStep, PTL DEF Spec
<1>4. Typed /\ KeptInv /\ [Next]_vars => [SaveKeeps]_vars
  BY SaveStep
<1>5. Spec => [][SaveKeeps]_vars
  BY <1>2, <1>3, <1>4, Inductive, PTL DEF Spec
<1>6. QED
  BY <1>5 DEF SavedIsKept, SaveKeeps

-----------------------------------------------------------------------------
(* Handoffs.  Of a caller's open handoffs all but the innermost execute, and *)
(* only the outermost is a chain's; what is copied stays where it is, since *)
(* histories only grow; and a chain that has come further than its first    *)
(* handoff has a response.                                                  *)
Utterance  == Callers \X Nat \X {"user", "assistant"}
Response == {NoResponse} \union (Callers \X (Nat \ {0}))

OpenHandoff ==
  [to : Agents, at : {"preserving", "ready", "executing"}, n : Nat \ {0},
   source : Seq(Utterance), placed : Seq(Nat), chained : BOOLEAN, quiet : BOOLEAN]

CallerState ==
  [chain : Chains, at : Nat, tools : Nat, made : Nat, last : Response,
   outcome : {"none", "ok", "failed"}]

HandoffTypeOK ==
  /\ agents \in SUBSET Agents
  /\ aliases \in [Aliases -> Agents \union {NoAgent}]
  /\ turns \in [Agents -> Seq(Utterance)]
  /\ previous \in [Agents -> Response]
  /\ caller \in [Callers -> CallerState]
  /\ stack \in [Callers -> Seq(OpenHandoff)]
  /\ naming \in {<<>>} \union (Agents \X Aliases)
  /\ told \in [Callers -> [start : Nat, complete : Nat, error : Nat]]
  /\ touched \in [Callers -> SUBSET Agents]

(* The place of f among the handoffs of its caller, of which there are d. *)
Nested(f, i, d) ==
  /\ f.chained <=> i = 1
  /\ i < d => f.at = "executing"
  /\ f.at = "ready" => Len(f.placed) = Len(f.source)
  /\ Len(f.placed) <= Len(f.source)

NestInv == \A c \in Callers : \A i \in 1 .. Depth(c) : Nested(stack[c][i], i, Depth(c))

(* What f has copied is, in order, where it was put in histories t. *)
CopiedIn(f, t) ==
  \A i \in DOMAIN f.placed :
    /\ f.placed[i] \in DOMAIN t[f.to]
    /\ t[f.to][f.placed[i]] = f.source[i]
    /\ \A j \in 1 .. i - 1 : f.placed[j] < f.placed[i]

CopyInv == \A c \in Callers : \A i \in 1 .. Depth(c) : CopiedIn(stack[c][i], turns)

AnsweredInv ==
  \A c \in Callers :
    /\ Idle(c) /\ caller[c].outcome = "none" /\ caller[c].at > 0 => caller[c].last # NoResponse
    /\ ~Idle(c) /\ caller[c].at > 1 => caller[c].last # NoResponse
    /\ caller[c].chain = <<>> => caller[c].at = 0

PassedOn ==
  \A c \in Callers :
    ~Idle(c) /\ Depth(c) = 1 /\ Top(c).at = "ready" /\ caller[c].at > 1 =>
      previous[Top(c).to] = caller[c].last \/ Top(c).to \in touched[c]

ToldInv ==
  \A c \in Callers : told[c].start = told[c].complete + told[c].error + Cardinality(Loud(c))

HandoffInv ==
  /\ HandoffTypeOK /\ NestInv /\ CopyInv /\ AnsweredInv /\ PassedOn /\ ToldInv
  /\ AliasesResolve

LEMMA InitHandoffInv == HandoffInit => HandoffInv
<1> SUFFICES ASSUME HandoffInit PROVE HandoffInv
  OBVIOUS
<1>1. /\ agents = Agents /\ aliases \in [Aliases -> Agents]
      /\ turns = [a \in Agents |-> <<>>] /\ previous = [a \in Agents |-> NoResponse]
      /\ stack = [c \in Callers |-> <<>>] /\ naming = <<>>
      /\ told = [c \in Callers |-> [start |-> 0, complete |-> 0, error |-> 0]]
      /\ touched = [c \in Callers |-> {}]
      /\ caller \in [Callers -> [chain : Chains, at : {0}, tools : {0}, made : {0},
                                 last : {NoResponse}, outcome : {"none"}]]
  BY DEF HandoffInit, HandoffsAtRest
<1>2. \A c \in Callers : stack[c] = <<>> /\ Depth(c) = 0 /\ Idle(c) /\ caller[c].at = 0
  BY <1>1 DEF Depth, Idle
<1>3. HandoffTypeOK
  <2>1. caller \in [Callers -> CallerState]
    BY <1>1 DEF CallerState, Response
  <2>2. previous \in [Agents -> Response]
    BY <1>1 DEF Response
  <2> QED
    BY <1>1, <2>1, <2>2 DEF HandoffTypeOK
<1>4. NestInv /\ CopyInv /\ AnsweredInv /\ PassedOn
  BY <1>2 DEF NestInv, CopyInv, AnsweredInv, PassedOn
<1>5. ToldInv
  <2>1. \A c \in Callers : Loud(c) = {}
    BY <1>2 DEF Loud
  <2>2. \A c \in Callers : told[c].start = 0 /\ told[c].complete = 0 /\ told[c].error = 0
    BY <1>1
  <2>3. Cardinality({}) = 0
    BY FS_EmptySet
  <2>4. \A c \in Callers : Cardinality(Loud(c)) = 0
    BY <2>1, <2>3
  <2>5. 0 = 0 + 0 + 0
    OBVIOUS
  <2> QED
    BY <2>2, <2>4, <2>5 DEF ToldInv
<1>6. AliasesResolve
  BY <1>1 DEF AliasesResolve
<1> QED
  BY <1>3, <1>4, <1>5, <1>6 DEF HandoffInv

LEMMA GetTypes ==
  ASSUME HandoffTypeOK, NEW name PROVE Get(name) \in agents \union {NoAgent}
BY DEF HandoffTypeOK, Get

LEMMA RegisteredAgent ==
  ASSUME HandoffTypeOK, NEW name, Registered(name) PROVE Get(name) \in agents
BY GetTypes DEF Registered

(* Sequences of open handoffs: one more, and one less. *)
LEMMA Pushed ==
  ASSUME NEW S, NEW s \in Seq(S), NEW f \in S
  PROVE /\ Append(s, f) \in Seq(S) /\ Len(Append(s, f)) = Len(s) + 1
        /\ Append(s, f)[Len(s) + 1] = f
        /\ \A i \in 1 .. Len(s) : Append(s, f)[i] = s[i]
        /\ Append(s, f) # <<>>
OBVIOUS

LEMMA Popped ==
  ASSUME NEW S, NEW s \in Seq(S), s # <<>>, NEW t, t = SubSeq(s, 1, Len(s) - 1)
  PROVE /\ t \in Seq(S) /\ Len(t) = Len(s) - 1
        /\ \A i \in 1 .. Len(s) - 1 : t[i] = s[i]
        /\ t = <<>> <=> Len(s) = 1
<1>1. Len(s) \in Nat /\ Len(s) # 0
  OBVIOUS
<1>2. PICK m \in Nat : Len(s) = m + 1
  <2>1. Len(s) - 1 \in Nat /\ Len(s) = (Len(s) - 1) + 1
    BY <1>1
  <2> QED
    BY <2>1
<1>3. Len(s) - 1 = m
  BY <1>2
<1>4. t = [i \in 1 .. m |-> s[i]]
  BY <1>2, <1>3
<1>5. \A i \in 1 .. m : s[i] \in S
  BY <1>2
<1>6. t \in [1 .. m -> S]
  BY <1>4, <1>5
<1>7. t \in Seq(S) /\ Len(t) = m
  BY <1>2, <1>6
<1>8. t = <<>> <=> m = 0
  <2>1. t = <<>> => Len(t) = 0
    OBVIOUS
  <2>2. \A u \in Seq(S) : Len(u) = 0 => u = <<>>
    OBVIOUS
  <2> QED
    BY <1>7, <2>1, <2>2
<1>9. \A i \in 1 .. m : t[i] = s[i]
  BY <1>4
<1> QED
  BY <1>2, <1>3, <1>7, <1>8, <1>9

LEMMA Replaced ==
  ASSUME NEW S, NEW s \in Seq(S), s # <<>>, NEW f \in S, NEW t, t = [s EXCEPT ![Len(s)] = f]
  PROVE /\ t \in Seq(S) /\ Len(t) = Len(s) /\ t # <<>>
        /\ t[Len(s)] = f /\ \A i \in 1 .. Len(s) - 1 : t[i] = s[i]
OBVIOUS

LEMMA FrameTypes ==
  ASSUME HandoffTypeOK, NEW c \in Callers, NEW h, Registered(h.to), Frame(c, h).chained \in BOOLEAN
  PROVE Frame(c, h) \in OpenHandoff
<1>1. Get(h.to) \in Agents
  BY RegisteredAgent DEF HandoffTypeOK
<1>2. (IF h.preserve /\ Registered(h.from) THEN turns[Get(h.from)] ELSE <<>>) \in Seq(Utterance)
  <2>1. CASE Registered(h.from)
    <3>1. Get(h.from) \in Agents
      BY <2>1, RegisteredAgent DEF HandoffTypeOK
    <3>2. turns[Get(h.from)] \in Seq(Utterance) /\ <<>> \in Seq(Utterance)
      BY <3>1 DEF HandoffTypeOK
    <3> QED
      BY <3>2
  <2>2. CASE ~Registered(h.from)
    BY <2>2
  <2> QED
    BY <2>1, <2>2
<1>3. caller[c].made + 1 \in Nat \ {0}
  BY DEF HandoffTypeOK, CallerState
<1> QED
  BY <1>1, <1>2, <1>3 DEF Frame, OpenHandoff, Idle

-----------------------------------------------------------------------------
(* What a step does to the handoffs of its caller: it opens one, changes the *)
(* innermost, or closes it.                                                *)
Open(c, f) ==
  /\ f \in OpenHandoff /\ f.placed = <<>> /\ f.chained = Idle(c)
  /\ stack' = [stack EXCEPT ![c] = Append(@, f)]

Change(c, f) ==
  /\ ~Idle(c) /\ f \in OpenHandoff
  /\ f.to = Top(c).to /\ f.chained = Top(c).chained /\ f.quiet = Top(c).quiet
  /\ stack' = [stack EXCEPT ![c][Depth(c)] = f]

LEMMA TopTypes ==
  ASSUME HandoffTypeOK, NEW c \in Callers, ~Idle(c)
  PROVE Depth(c) \in Nat \ {0} /\ Top(c) \in OpenHandoff /\ Top(c).to \in Agents
<1>1. stack[c] \in Seq(OpenHandoff) /\ stack[c] # <<>>
  BY DEF HandoffTypeOK, Idle
<1>2. Len(stack[c]) \in Nat /\ Len(stack[c]) # 0
  BY <1>1
<1>3. stack[c][Len(stack[c])] \in OpenHandoff
  <2>1. \A n \in 1 .. Len(stack[c]) : stack[c][n] \in OpenHandoff
    BY <1>1
  <2> QED
    BY <1>2, <2>1
<1>4. Top(c) \in OpenHandoff
  BY <1>3 DEF Top, Depth
<1> QED
  BY <1>2, <1>4 DEF Depth, OpenHandoff

LEMMA OpensOne ==
  ASSUME HandoffTypeOK, NEW c \in Callers, NEW h, Opens(c, h)
  PROVE /\ Open(c, Frame(c, h)) /\ Frame(c, h).at = "preserving" /\ ~Frame(c, h).quiet
        /\ told' = [told EXCEPT ![c].start = @ + 1]
<1>1. Idle(c) \in BOOLEAN
  BY DEF Idle
<1>2. /\ Frame(c, h).chained = Idle(c) /\ Frame(c, h).placed = <<>>
      /\ Frame(c, h).at = "preserving" /\ ~Frame(c, h).quiet
  BY DEF Frame
<1>3. Frame(c, h) \in OpenHandoff
  BY <1>1, <1>2, FrameTypes DEF Opens
<1> QED
  BY <1>2, <1>3 DEF Opens, Open, Told

LEMMA StackTypes ==
  ASSUME HandoffTypeOK, NEW c \in Callers, NEW f, Open(c, f) \/ Change(c, f)
  PROVE stack' \in [Callers -> Seq(OpenHandoff)]
<1>1. stack[c] \in Seq(OpenHandoff) /\ f \in OpenHandoff
  BY DEF HandoffTypeOK, Open, Change
<1>2. CASE Open(c, f)
  <2>1. Append(stack[c], f) \in Seq(OpenHandoff)
    BY <1>1
  <2> QED
    BY <1>2, <2>1 DEF HandoffTypeOK, Open
<1>3. CASE Change(c, f)
  <2>1. [stack[c] EXCEPT ![Len(stack[c])] = f] \in Seq(OpenHandoff)
    BY <1>1, <1>3, Replaced DEF Change, Idle
  <2>2. stack' = [stack EXCEPT ![c] = [stack[c] EXCEPT ![Len(stack[c])] = f]]
    BY <1>3 DEF Change, Depth
  <2> QED
    BY <2>1, <2>2 DEF HandoffTypeOK
<1> QED
  BY <1>2, <1>3

LEMMA CloseTypes ==
  ASSUME HandoffTypeOK, NEW c \in Callers, ~Idle(c), Closes(c)
  PROVE stack' \in [Callers -> Seq(OpenHandoff)]
<1>1. stack[c] \in Seq(OpenHandoff) /\ stack[c] # <<>>
  BY DEF HandoffTypeOK, Idle
<1>2. SubSeq(stack[c], 1, Len(stack[c]) - 1) \in Seq(OpenHandoff)
  BY <1>1, Popped
<1> QED
  BY <1>2 DEF HandoffTypeOK, Closes

LEMMA CopyChange ==
  ASSUME HandoffTypeOK, NEW c \in Callers, CopyMessage(c)
  PROVE LET f == [Top(c) EXCEPT !.placed = Append(@, Len(turns[Top(c).to]) + 1)]
        IN /\ Change(c, f) /\ f.at = "preserving" /\ f.source = Top(c).source
           /\ f.placed = Append(Top(c).placed, Len(turns[Top(c).to]) + 1)
<1> DEFINE p == Append(Top(c).placed, Len(turns[Top(c).to]) + 1)
<1>1. ~Idle(c) /\ Top(c).at = "preserving"
  BY DEF CopyMessage
<1>2. Top(c) \in OpenHandoff /\ Top(c).to \in Agents
  BY <1>1, TopTypes
<1>3. p \in Seq(Nat)
  <2>1. turns[Top(c).to] \in Seq(Utterance) /\ Top(c).placed \in Seq(Nat)
    BY <1>2 DEF HandoffTypeOK, OpenHandoff
  <2> QED
    BY <2>1
<1>4. [Top(c) EXCEPT !.placed = p] \in OpenHandoff
  BY <1>2, <1>3 DEF OpenHandoff
<1>5. stack' = [stack EXCEPT ![c][Depth(c)] = [Top(c) EXCEPT !.placed = p]]
  BY DEF CopyMessage, SetTop
<1>6. /\ [Top(c) EXCEPT !.placed = p].to = Top(c).to
      /\ [Top(c) EXCEPT !.placed = p].chained = Top(c).chained
      /\ [Top(c) EXCEPT !.placed = p].quiet = Top(c).quiet
      /\ [Top(c) EXCEPT !.placed = p].at = Top(c).at
      /\ [Top(c) EXCEPT !.placed = p].source = Top(c).source
      /\ [Top(c) EXCEPT !.placed = p].placed = p
  BY <1>2 DEF OpenHandoff
<1> QED
  BY <1>1, <1>4, <1>5, <1>6 DEF Change

LEMMA StateDataChange ==
  ASSUME HandoffTypeOK, NEW c \in Callers, SetStateData(c)
  PROVE LET f == [Top(c) EXCEPT !.at = "ready"]
        IN /\ Change(c, f) /\ f.at = "ready" /\ f.source = Top(c).source
           /\ f.placed = Top(c).placed
<1>1. ~Idle(c)
  BY DEF SetStateData
<1>2. Top(c) \in OpenHandoff
  BY <1>1, TopTypes
<1>3. [Top(c) EXCEPT !.at = "ready"] \in OpenHandoff
  BY <1>2 DEF OpenHandoff
<1>4. stack' = [stack EXCEPT ![c][Depth(c)] = [Top(c) EXCEPT !.at = "ready"]]
  BY DEF SetStateData, SetTop
<1> QED
  BY <1>1, <1>2, <1>3, <1>4 DEF Change, OpenHandoff

LEMMA BeginChange ==
  ASSUME HandoffTypeOK, NEW c \in Callers, BeginTask(c)
  PROVE LET f == [Top(c) EXCEPT !.at = "executing", !.source = <<>>, !.placed = <<>>]
        IN /\ Change(c, f) /\ f.at = "executing" /\ f.source = <<>> /\ f.placed = <<>>
<1>1. ~Idle(c)
  BY DEF BeginTask
<1>2. Top(c) \in OpenHandoff /\ <<>> \in Seq(Nat) /\ <<>> \in Seq(Utterance)
  BY <1>1, TopTypes
<1>3. [Top(c) EXCEPT !.at = "executing", !.source = <<>>, !.placed = <<>>] \in OpenHandoff
  BY <1>2 DEF OpenHandoff
<1>4. stack' = [stack EXCEPT ![c][Depth(c)] =
                 [Top(c) EXCEPT !.at = "executing", !.source = <<>>, !.placed = <<>>]]
  BY DEF BeginTask, SetTop
<1> QED
  BY <1>1, <1>2, <1>3, <1>4 DEF Change, OpenHandoff

-----------------------------------------------------------------------------
Counts == [start : Nat, complete : Nat, error : Nat]

LEMMA TellTypes ==
  ASSUME HandoffTypeOK, NEW c \in Callers
  PROVE /\ [told EXCEPT ![c].start = @ + 1] \in [Callers -> Counts]
        /\ [told EXCEPT ![c].complete = @ + 1] \in [Callers -> Counts]
        /\ [told EXCEPT ![c].error = @ + 1] \in [Callers -> Counts]
<1>1. told \in [Callers -> Counts] /\ told[c] \in Counts
  BY DEF HandoffTypeOK, Counts
<1>2. told[c].start + 1 \in Nat /\ told[c].complete + 1 \in Nat /\ told[c].error + 1 \in Nat
  BY <1>1 DEF Counts
<1>3. /\ [told[c] EXCEPT !.start = @ + 1] \in Counts
      /\ [told[c] EXCEPT !.complete = @ + 1] \in Counts
      /\ [told[c] EXCEPT !.error = @ + 1] \in Counts
  BY <1>1, <1>2 DEF Counts
<1> QED
  BY <1>1, <1>3

LEMMA TellBothTypes ==
  ASSUME HandoffTypeOK, NEW c \in Callers
  PROVE [told EXCEPT ![c].start = @ + 1, ![c].error = @ + 1] \in [Callers -> Counts]
<1>1. told \in [Callers -> Counts] /\ told[c] \in Counts
  BY DEF HandoffTypeOK, Counts
<1>2. told[c].start + 1 \in Nat /\ told[c].error + 1 \in Nat
  BY <1>1 DEF Counts
<1>3. [told[c] EXCEPT !.start = @ + 1, !.error = @ + 1] \in Counts
  BY <1>1, <1>2 DEF Counts
<1>4. [told EXCEPT ![c].start = @ + 1, ![c].error = @ + 1] =
      [told EXCEPT ![c] = [told[c] EXCEPT !.start = @ + 1, !.error = @ + 1]]
  BY <1>1
<1> QED
  BY <1>1, <1>3, <1>4

LEMMA HandOffTypes ==
  ASSUME HandoffTypeOK, NEW c \in Callers, HandOff(c)
  PROVE HandoffTypeOK'
<1> DEFINE h == Chain(c)[caller[c].at + 1]
<1>1. caller[c] \in CallerState /\ caller[c].at + 1 \in Nat /\ caller[c].made + 1 \in Nat
  BY DEF HandoffTypeOK, CallerState
<1>3. UNCHANGED <<agents, aliases, turns, previous, naming>>
  BY DEF HandOff
<1>4. CASE /\ Opens(c, h)
           /\ caller' = [caller EXCEPT ![c].at = @ + 1, ![c].made = @ + 1]
           /\ touched' = [touched EXCEPT ![c] = {}]
  <2>1. stack' \in [Callers -> Seq(OpenHandoff)] /\ told' = [told EXCEPT ![c].start = @ + 1]
    BY <1>4, OpensOne, StackTypes
  <2>2. caller' \in [Callers -> CallerState]
    BY <1>1, <1>4 DEF HandoffTypeOK, CallerState
  <2>3. told' \in [Callers -> [start : Nat, complete : Nat, error : Nat]]
    BY <2>1, TellTypes DEF HandoffTypeOK, Counts
  <2>4. touched' \in [Callers -> SUBSET Agents]
    BY <1>4 DEF HandoffTypeOK
  <2> QED
    BY <1>3, <2>1, <2>2, <2>3, <2>4 DEF HandoffTypeOK
<1>5. CASE /\ NotFound(c)
           /\ caller' = [caller EXCEPT ![c].outcome = "failed"]
           /\ UNCHANGED <<stack, touched>>
  <2>1. caller' \in [Callers -> CallerState]
    BY <1>1, <1>5 DEF HandoffTypeOK, CallerState
  <2>2. told' \in [Callers -> [start : Nat, complete : Nat, error : Nat]]
    BY <1>5, TellBothTypes DEF NotFound, Counts
  <2> QED
    BY <1>3, <1>5, <2>1, <2>2 DEF HandoffTypeOK
<1> QED
  BY <1>4, <1>5 DEF HandOff

LEMMA ByToolTypes ==
  ASSUME HandoffTypeOK, NEW c \in Callers, NEW to, NEW preserve, HandOffByTool(c, to, preserve)
  PROVE HandoffTypeOK'
<1> DEFINE h == [to |-> to, from |-> Top(c).to, preserve |-> preserve]
<1>1. caller[c] \in CallerState /\ caller[c].tools + 1 \in Nat /\ caller[c].made + 1 \in Nat
  BY DEF HandoffTypeOK, CallerState
<1>3. UNCHANGED <<agents, aliases, turns, previous, naming, touched>>
  BY DEF HandOffByTool
<1>4. CASE /\ Opens(c, h)
           /\ caller' = [caller EXCEPT ![c].tools = @ + 1, ![c].made = @ + 1]
  <2>1. stack' \in [Callers -> Seq(OpenHandoff)] /\ told' = [told EXCEPT ![c].start = @ + 1]
    BY <1>4, OpensOne, StackTypes
  <2>2. caller' \in [Callers -> CallerState]
    BY <1>1, <1>4 DEF HandoffTypeOK, CallerState
  <2>3. told' \in [Callers -> [start : Nat, complete : Nat, error : Nat]]
    BY <2>1, TellTypes DEF HandoffTypeOK, Counts
  <2> QED
    BY <1>3, <2>1, <2>2, <2>3 DEF HandoffTypeOK
<1>5. CASE /\ NotFound(c)
           /\ caller' = [caller EXCEPT ![c].tools = @ + 1]
           /\ UNCHANGED stack
  <2>1. caller' \in [Callers -> CallerState]
    BY <1>1, <1>5 DEF HandoffTypeOK, CallerState
  <2>2. told' \in [Callers -> [start : Nat, complete : Nat, error : Nat]]
    BY <1>5, TellBothTypes DEF NotFound, Counts
  <2> QED
    BY <1>3, <1>5, <2>1, <2>2 DEF HandoffTypeOK
<1> QED
  BY <1>4, <1>5 DEF HandOffByTool

LEMMA RouteOpens ==
  ASSUME HandoffTypeOK, NEW c \in Callers, AutoRoute(c)
  PROVE \E f : Open(c, f) /\ f.at = "ready" /\ f.source = <<>> /\ f.quiet
<1>1. PICK a \in agents :
        stack' = [stack EXCEPT ![c] = <<[to |-> a, at |-> "ready", n |-> 1, source |-> <<>>,
                                         placed |-> <<>>, chained |-> TRUE, quiet |-> TRUE]>>]
  BY DEF AutoRoute
<1> DEFINE f == [to |-> a, at |-> "ready", n |-> 1, source |-> <<>>,
                 placed |-> <<>>, chained |-> TRUE, quiet |-> TRUE]
<1>2. f \in OpenHandoff
  <2>1. a \in Agents /\ <<>> \in Seq(Utterance) /\ <<>> \in Seq(Nat) /\ 1 \in Nat \ {0}
    BY DEF HandoffTypeOK
  <2> QED
    BY <2>1 DEF OpenHandoff
<1>3. stack[c] = <<>> /\ Append(stack[c], f) = <<f>>
  BY DEF AutoRoute, Idle
<1>4. stack' = [stack EXCEPT ![c] = Append(@, f)]
  BY <1>1, <1>3 DEF HandoffTypeOK
<1>5. f.chained = Idle(c)
  BY <1>3 DEF Idle
<1>6. Open(c, f)
  BY <1>2, <1>4, <1>5 DEF Open
<1> QED
  BY <1>6

LEMMA AutoRouteTypes ==
  ASSUME HandoffTypeOK, NEW c \in Callers, AutoRoute(c)
  PROVE HandoffTypeOK'
<1>1. stack' \in [Callers -> Seq(OpenHandoff)]
  BY RouteOpens, StackTypes
<1>2. caller' \in [Callers -> CallerState]
  <2>1. caller[c] \in CallerState /\ 1 \in Nat
    BY DEF HandoffTypeOK
  <2>2. [caller[c] EXCEPT !.made = 1] \in CallerState
    BY <2>1 DEF CallerState
  <2>3. caller' = [caller EXCEPT ![c].made = 1]
    BY DEF AutoRoute
  <2> QED
    BY <2>2, <2>3 DEF HandoffTypeOK
<1> QED
  BY <1>1, <1>2 DEF AutoRoute, HandoffTypeOK

(* A message of c at the end of the history of the agent that executes.     *)
LEMMA TurnTypes ==
  ASSUME HandoffTypeOK, NEW a \in Agents, NEW m \in Utterance,
         turns' = [turns EXCEPT ![a] = Append(@, m)]
  PROVE turns' \in [Agents -> Seq(Utterance)]
<1>1. Append(turns[a], m) \in Seq(Utterance)
  BY DEF HandoffTypeOK
<1> QED
  BY <1>1 DEF HandoffTypeOK

LEMMA CopyTypes ==
  ASSUME HandoffTypeOK, NEW c \in Callers, CopyMessage(c)
  PROVE HandoffTypeOK'
<1>1. ~Idle(c) /\ Top(c) \in OpenHandoff /\ Top(c).to \in Agents
  BY TopTypes DEF CopyMessage
<1>2. Top(c).source \in Seq(Utterance) /\ Top(c).placed \in Seq(Nat)
  BY <1>1 DEF OpenHandoff
<1>3. Len(Top(c).placed) + 1 \in 1 .. Len(Top(c).source)
  BY <1>2 DEF CopyMessage
<1>4. Top(c).source[Len(Top(c).placed) + 1] \in Utterance
  BY <1>2, <1>3
<1>5. turns' = [turns EXCEPT ![Top(c).to] = Append(@, Top(c).source[Len(Top(c).placed) + 1])]
  BY DEF CopyMessage
<1>6. turns' \in [Agents -> Seq(Utterance)]
  BY <1>1, <1>4, <1>5, TurnTypes
<1>7. stack' \in [Callers -> Seq(OpenHandoff)]
  BY CopyChange, StackTypes
<1> QED
  BY <1>6, <1>7 DEF HandoffTypeOK, CopyMessage

LEMMA SetStateDataTypes ==
  ASSUME HandoffTypeOK, NEW c \in Callers, SetStateData(c)
  PROVE HandoffTypeOK'
<1>1. Top(c).to \in Agents /\ caller[c].last \in Response
  BY TopTypes DEF SetStateData, HandoffTypeOK, CallerState
<1>2. stack' \in [Callers -> Seq(OpenHandoff)]
  BY StateDataChange, StackTypes
<1>3. \/ UNCHANGED <<previous, touched>>
      \/ /\ previous' = [previous EXCEPT ![Top(c).to] = caller[c].last]
         /\ touched' = [d \in Callers |-> IF d = c THEN touched[d] ELSE touched[d] \cup {Top(c).to}]
  BY DEF SetStateData
<1>4. previous' \in [Agents -> Response]
  BY <1>1, <1>3 DEF HandoffTypeOK
<1>5. touched' \in [Callers -> SUBSET Agents]
  <2>1. \A d \in Callers : touched[d] \cup {Top(c).to} \in SUBSET Agents
    BY <1>1 DEF HandoffTypeOK
  <2>2. CASE UNCHANGED touched
    BY <2>2 DEF HandoffTypeOK
  <2>3. CASE touched' = [d \in Callers |-> IF d = c THEN touched[d] ELSE touched[d] \cup {Top(c).to}]
    <3>1. \A d \in Callers : (IF d = c THEN touched[d] ELSE touched[d] \cup {Top(c).to}) \in SUBSET Agents
      BY <2>1 DEF HandoffTypeOK
    <3> QED
      BY <2>3, <3>1
  <2> QED
    BY <1>3, <2>2, <2>3
<1> QED
  BY <1>2, <1>4, <1>5 DEF HandoffTypeOK, SetStateData

LEMMA BeginTypes ==
  ASSUME HandoffTypeOK, NEW c \in Callers, BeginTask(c)
  PROVE HandoffTypeOK'
<1>1. Top(c) \in OpenHandoff /\ Top(c).to \in Agents
  BY TopTypes DEF BeginTask
<1>2. <<c, Top(c).n, "user">> \in Utterance
  BY <1>1 DEF OpenHandoff, Utterance
<1>3. turns' \in [Agents -> Seq(Utterance)]
  BY <1>1, <1>2, TurnTypes DEF BeginTask
<1>4. stack' \in [Callers -> Seq(OpenHandoff)]
  BY BeginChange, StackTypes
<1> QED
  BY <1>3, <1>4 DEF HandoffTypeOK, BeginTask

LEMMA AnswerTypes ==
  ASSUME HandoffTypeOK, NEW c \in Callers, AnswerTask(c)
  PROVE HandoffTypeOK'
<1>1. ~Idle(c) /\ Top(c) \in OpenHandoff /\ Top(c).to \in Agents
  BY TopTypes DEF AnswerTask
<1>2. <<c, Top(c).n, "assistant">> \in Utterance /\ <<c, Top(c).n>> \in Response
  BY <1>1 DEF OpenHandoff, Utterance, Response
<1>3. turns' \in [Agents -> Seq(Utterance)]
  BY <1>1, <1>2, TurnTypes DEF AnswerTask
<1>4. stack' \in [Callers -> Seq(OpenHandoff)]
  BY <1>1, CloseTypes DEF AnswerTask
<1>6. told' \in [Callers -> [start : Nat, complete : Nat, error : Nat]]
  <2>1. UNCHANGED told \/ told' = [told EXCEPT ![c].complete = @ + 1]
    BY DEF AnswerTask, Told
  <2>2. told \in [Callers -> Counts] /\ [told EXCEPT ![c].complete = @ + 1] \in [Callers -> Counts]
    BY TellTypes DEF HandoffTypeOK, Counts
  <2>3. told' \in [Callers -> Counts]
    BY <2>1, <2>2
  <2> QED
    BY <2>3 DEF Counts
<1>7. caller' \in [Callers -> CallerState]
  <2>1. \/ caller' = caller
        \/ \E o \in {"none", "ok", "failed"} :
             caller' = [caller EXCEPT ![c].last = <<c, Top(c).n>>, ![c].outcome = o]
    <3>1. caller[c].outcome \in {"none", "ok", "failed"}
      BY DEF HandoffTypeOK, CallerState
    <3>2. (IF caller[c].at = Len(Chain(c)) THEN "ok" ELSE caller[c].outcome) \in {"none", "ok", "failed"}
      BY <3>1
    <3> QED
      BY <3>2 DEF AnswerTask
  <2>2. caller[c] \in CallerState
    BY DEF HandoffTypeOK
  <2>3. \A o \in {"none", "ok", "failed"} :
          [caller[c] EXCEPT !.last = <<c, Top(c).n>>, !.outcome = o] \in CallerState
    BY <1>2, <2>2 DEF CallerState
  <2>4. \A o : [caller EXCEPT ![c].last = <<c, Top(c).n>>, ![c].outcome = o] =
                [caller EXCEPT ![c] = [caller[c] EXCEPT !.last = <<c, Top(c).n>>, !.outcome = o]]
    BY DEF HandoffTypeOK
  <2>5. \A r \in CallerState : [caller EXCEPT ![c] = r] \in [Callers -> CallerState]
    BY DEF HandoffTypeOK
  <2>6. CASE caller' = caller
    BY <2>6 DEF HandoffTypeOK
  <2>7. CASE \E o \in {"none", "ok", "failed"} :
               caller' = [caller EXCEPT ![c].last = <<c, Top(c).n>>, ![c].outcome = o]
    <3>1. PICK o \in {"none", "ok", "failed"} :
            caller' = [caller EXCEPT ![c].last = <<c, Top(c).n>>, ![c].outcome = o]
      BY <2>7
    <3>2. caller' = [caller EXCEPT ![c] = [caller[c] EXCEPT !.last = <<c, Top(c).n>>, !.outcome = o]]
      BY <2>4, <3>1
    <3> QED
      BY <2>3, <2>5, <3>2
  <2> QED
    BY <2>1, <2>6, <2>7
<1> QED
  BY <1>3, <1>4, <1>6, <1>7 DEF HandoffTypeOK, AnswerTask

LEMMA FailTypes ==
  ASSUME HandoffTypeOK, NEW c \in Callers, Fail(c)
  PROVE HandoffTypeOK'
<1>1. stack' \in [Callers -> Seq(OpenHandoff)]
  BY CloseTypes DEF Fail
<1>3. told' \in [Callers -> [start : Nat, complete : Nat, error : Nat]]
  <2>1. UNCHANGED told \/ told' = [told EXCEPT ![c].error = @ + 1]
    BY DEF Fail, Told
  <2>2. told \in [Callers -> Counts] /\ [told EXCEPT ![c].error = @ + 1] \in [Callers -> Counts]
    BY TellTypes DEF HandoffTypeOK, Counts
  <2>3. told' \in [Callers -> Counts]
    BY <2>1, <2>2
  <2> QED
    BY <2>3 DEF Counts
<1>4. caller' \in [Callers -> CallerState]
  BY DEF HandoffTypeOK, CallerState, Fail
<1> QED
  BY <1>1, <1>3, <1>4 DEF HandoffTypeOK, Fail

LEMMA RegistryTypes ==
  ASSUME HandoffTypeOK, NEW a \in Agents, Register(a) \/ Unregister(a) \/ SetAlias
  PROVE HandoffTypeOK'
<1>1. CASE Register(a)
  BY <1>1 DEF HandoffTypeOK, Register
<1>2. CASE Unregister(a)
  BY <1>2 DEF HandoffTypeOK, Unregister
<1>3. CASE SetAlias
  BY <1>3 DEF HandoffTypeOK, SetAlias
<1> QED
  BY <1>1, <1>2, <1>3

LEMMA HandoffTypeStep == HandoffTypeOK /\ [HandoffNext]_handoffVars => HandoffTypeOK'
<1> SUFFICES ASSUME HandoffTypeOK, [HandoffNext]_handoffVars PROVE HandoffTypeOK'
  OBVIOUS
<1>1. ASSUME NEW c \in Callers, HandoffStep(c) PROVE HandoffTypeOK'
  BY <1>1, HandOffTypes, ByToolTypes, AutoRouteTypes, CopyTypes, SetStateDataTypes, BeginTypes,
     AnswerTypes, FailTypes DEF HandoffStep
<1>2. CASE SetAlias
  <2>1. naming \in Agents \X Aliases
    BY <1>2 DEF SetAlias, HandoffTypeOK
  <2>2. naming[1] \in Agents
    BY <2>1
  <2> QED
    BY <1>2, <2>2, RegistryTypes
<1>3. ASSUME NEW a \in Agents, Register(a) \/ Unregister(a) PROVE HandoffTypeOK'
  BY <1>3, RegistryTypes
<1>4. CASE UNCHANGED handoffVars
  BY <1>4 DEF HandoffTypeOK, handoffVars
<1> QED
  BY <1>1, <1>2, <1>3, <1>4 DEF HandoffNext

-----------------------------------------------------------------------------
LEMMA OpenShape ==
  ASSUME HandoffTypeOK, NEW c \in Callers, NEW f, Open(c, f)
  PROVE /\ \A d \in Callers : d # c => stack'[d] = stack[d]
        /\ Depth(c)' = Depth(c) + 1 /\ ~Idle(c)' /\ Top(c)' = f
        /\ stack'[c][Depth(c) + 1] = f
        /\ \A i \in 1 .. Depth(c) : stack'[c][i] = stack[c][i]
<1>1. stack[c] \in Seq(OpenHandoff) /\ f \in OpenHandoff
  BY DEF HandoffTypeOK, Open
<1>2. stack'[c] = Append(stack[c], f) /\ \A d \in Callers : d # c => stack'[d] = stack[d]
  BY DEF HandoffTypeOK, Open
<1>3. /\ Len(stack'[c]) = Len(stack[c]) + 1 /\ stack'[c][Len(stack[c]) + 1] = f
      /\ \A i \in 1 .. Len(stack[c]) : stack'[c][i] = stack[c][i]
      /\ stack'[c] # <<>>
  BY <1>1, <1>2, Pushed
<1> QED
  BY <1>2, <1>3 DEF Depth, Idle, Top

LEMMA ChangeShape ==
  ASSUME HandoffTypeOK, NEW c \in Callers, NEW f, Change(c, f)
  PROVE /\ \A d \in Callers : d # c => stack'[d] = stack[d]
        /\ Depth(c)' = Depth(c) /\ ~Idle(c)' /\ Top(c)' = f
        /\ stack'[c][Depth(c)] = f
        /\ \A i \in 1 .. Depth(c) - 1 : stack'[c][i] = stack[c][i]
<1>1. stack[c] \in Seq(OpenHandoff) /\ stack[c] # <<>> /\ f \in OpenHandoff
  BY DEF HandoffTypeOK, Change, Idle
<1>2. /\ stack'[c] = [stack[c] EXCEPT ![Len(stack[c])] = f]
      /\ \A d \in Callers : d # c => stack'[d] = stack[d]
  BY DEF HandoffTypeOK, Change, Depth
<1>3. /\ Len(stack'[c]) = Len(stack[c]) /\ stack'[c] # <<>> /\ stack'[c][Len(stack[c])] = f
      /\ \A i \in 1 .. Len(stack[c]) - 1 : stack'[c][i] = stack[c][i]
  BY <1>1, <1>2, Replaced
<1> QED
  BY <1>2, <1>3 DEF Depth, Idle, Top

LEMMA CloseShape ==
  ASSUME HandoffTypeOK, NEW c \in Callers, ~Idle(c), Closes(c)
  PROVE /\ \A d \in Callers : d # c => stack'[d] = stack[d]
        /\ Depth(c)' = Depth(c) - 1
        /\ Idle(c)' <=> Depth(c) = 1
        /\ \A i \in 1 .. Depth(c) - 1 : stack'[c][i] = stack[c][i]
<1>1. stack[c] \in Seq(OpenHandoff) /\ stack[c] # <<>>
  BY DEF HandoffTypeOK, Idle
<1>2. /\ stack'[c] = SubSeq(stack[c], 1, Len(stack[c]) - 1)
      /\ \A d \in Callers : d # c => stack'[d] = stack[d]
  BY DEF HandoffTypeOK, Closes
<1>3. /\ Len(stack'[c]) = Len(stack[c]) - 1
      /\ stack'[c] = <<>> <=> Len(stack[c]) = 1
      /\ \A i \in 1 .. Len(stack[c]) - 1 : stack'[c][i] = stack[c][i]
  BY <1>1, <1>2, Popped
<1> QED
  BY <1>2, <1>3 DEF Depth, Idle

LEMMA DepthTypes ==
  ASSUME HandoffTypeOK, NEW c \in Callers
  PROVE Depth(c) \in Nat /\ (Idle(c) <=> Depth(c) = 0)
<1>1. stack[c] \in Seq(OpenHandoff)
  BY DEF HandoffTypeOK
<1>2. \A u \in Seq(OpenHandoff) : Len(u) \in Nat /\ (u = <<>> <=> Len(u) = 0)
  OBVIOUS
<1> QED
  BY <1>1, <1>2 DEF Depth, Idle

-----------------------------------------------------------------------------
(* All but the innermost execute. *)
LEMMA NestKept ==
  ASSUME NestInv, NEW d \in Callers, stack'[d] = stack[d], NEW i \in (1 .. Depth(d))'
  PROVE Nested(stack[d][i], i, Depth(d))'
BY DEF NestInv, Depth, Nested

LEMMA OpenNest ==
  ASSUME HandoffTypeOK, NestInv, NEW c \in Callers, NEW f, Open(c, f),
         Idle(c) \/ Top(c).at = "executing", f.at = "ready" => f.source = <<>>
  PROVE NestInv'
<1>1. Depth(c) \in Nat /\ (Idle(c) <=> Depth(c) = 0)
  BY DepthTypes
<1>2. \A d \in Callers : d # c => stack'[d] = stack[d]
  BY OpenShape
<1>3. ASSUME NEW i \in (1 .. Depth(c))' PROVE Nested(stack'[c][i], i, Depth(c)')
  <2>1. Depth(c)' = Depth(c) + 1 /\ i \in 1 .. Depth(c) + 1
    BY OpenShape
  <2>2. CASE i = Depth(c) + 1
    <3>1. stack'[c][i] = f
      BY <2>2, OpenShape
    <3>2. f.placed = <<>> /\ f.source \in Seq(Utterance) /\ (f.chained <=> Idle(c))
      BY DEF Open, OpenHandoff, Idle
    <3>3. Len(f.placed) = 0 /\ Len(f.source) \in Nat /\ (f.at = "ready" => Len(f.source) = 0)
      BY <3>2
    <3>4. Nested(f, i, Depth(c)')
      BY <1>1, <2>1, <2>2, <3>2, <3>3 DEF Nested
    <3> QED
      BY <3>1, <3>4
  <2>3. CASE i \in 1 .. Depth(c)
    <3>1. stack'[c][i] = stack[c][i] /\ Nested(stack[c][i], i, Depth(c))
      BY <2>3, OpenShape DEF NestInv
    <3>2. i = Depth(c) => stack[c][i].at = "executing"
      BY <1>1, <2>3 DEF Top
    <3> QED
      BY <1>1, <2>1, <2>3, <3>1, <3>2 DEF Nested
  <2> QED
    BY <1>1, <2>1, <2>2, <2>3
<1> QED
  BY <1>2, <1>3, NestKept DEF NestInv

LEMMA ChangeNest ==
  ASSUME HandoffTypeOK, NestInv, NEW c \in Callers, NEW f, Change(c, f),
         f.at = "ready" => Len(f.placed) = Len(f.source), Len(f.placed) <= Len(f.source)
  PROVE NestInv'
<1>1. Depth(c) \in Nat \ {0}
  BY TopTypes DEF Change
<1>2. \A d \in Callers : d # c => stack'[d] = stack[d]
  BY ChangeShape
<1>3. ASSUME NEW i \in (1 .. Depth(c))' PROVE Nested(stack'[c][i], i, Depth(c)')
  <2>1. Depth(c)' = Depth(c) /\ i \in 1 .. Depth(c)
    BY ChangeShape
  <2>2. Nested(stack[c][i], i, Depth(c))
    BY <2>1 DEF NestInv
  <2>3. CASE i = Depth(c)
    <3>1. stack'[c][i] = f /\ f.chained = stack[c][i].chained
      BY <2>3, ChangeShape DEF Change, Top
    <3> QED
      BY <2>1, <2>2, <2>3, <3>1, <1>1 DEF Nested
  <2>4. CASE i \in 1 .. Depth(c) - 1
    BY <2>1, <2>2, <2>4, ChangeShape
  <2> QED
    BY <1>1, <2>1, <2>3, <2>4
<1> QED
  BY <1>2, <1>3, NestKept DEF NestInv

LEMMA CloseNest ==
  ASSUME HandoffTypeOK, NestInv, NEW c \in Callers, ~Idle(c), Closes(c)
  PROVE NestInv'
<1>1. Depth(c) \in Nat \ {0}
  BY TopTypes
<1>2. \A d \in Callers : d # c => stack'[d] = stack[d]
  BY CloseShape
<1>3. ASSUME NEW i \in (1 .. Depth(c))' PROVE Nested(stack'[c][i], i, Depth(c)')
  <2>1. Depth(c)' = Depth(c) - 1 /\ i \in 1 .. Depth(c) - 1
    BY CloseShape
  <2>2. stack'[c][i] = stack[c][i] /\ Nested(stack[c][i], i, Depth(c))
    BY <1>1, <2>1, CloseShape DEF NestInv
  <2> QED
    BY <1>1, <2>1, <2>2 DEF Nested
<1> QED
  BY <1>2, <1>3, NestKept DEF NestInv

LEMMA OpenStep ==
  ASSUME HandoffTypeOK, NEW c \in Callers,
         HandOff(c) \/ AutoRoute(c) \/ \E to \in Agents \cup Aliases, p \in BOOLEAN : HandOffByTool(c, to, p)
  PROVE \/ /\ UNCHANGED stack
           /\ ~AutoRoute(c)
           /\ told' = [told EXCEPT ![c].start = @ + 1, ![c].error = @ + 1]
        \/ \E f : /\ Open(c, f)
                  /\ Idle(c) \/ Top(c).at = "executing"
                  /\ f.at = "ready" => f.source = <<>> /\ AutoRoute(c)
                  /\ \/ AutoRoute(c) /\ f.quiet /\ UNCHANGED told
                     \/ ~f.quiet /\ told' = [told EXCEPT ![c].start = @ + 1]
<1>1. CASE HandOff(c)
  <2>1. \/ \E h : Opens(c, h)
        \/ NotFound(c) /\ UNCHANGED stack
    BY <1>1 DEF HandOff
  <2>2. Idle(c) /\ ~AutoRoute(c)
    <3>1. Len(Chain(c)) > caller[c].at /\ caller[c].at \in Nat
      BY <1>1 DEF HandOff, HandoffTypeOK, CallerState
    <3>2. Len(<<>>) = 0
      OBVIOUS
    <3>3. Chain(c) # <<>>
      BY <3>1, <3>2
    <3> QED
      BY <1>1, <3>3 DEF HandOff, AutoRoute, Chain
  <2>3. ASSUME NEW h, Opens(c, h)
        PROVE \E f : Open(c, f) /\ f.at = "preserving" /\ ~f.quiet
                     /\ told' = [told EXCEPT ![c].start = @ + 1]
    BY <2>3, OpensOne
  <2> QED
    BY <2>1, <2>2, <2>3 DEF NotFound
<1>2. CASE AutoRoute(c)
  <2>1. UNCHANGED told /\ Idle(c)
    BY <1>2 DEF AutoRoute
  <2> QED
    BY <1>2, <2>1, RouteOpens
<1>3. ASSUME NEW to \in Agents \cup Aliases, NEW p \in BOOLEAN, HandOffByTool(c, to, p)
      PROVE \/ UNCHANGED stack /\ NotFound(c) /\ ~Idle(c)
            \/ /\ Top(c).at = "executing" /\ ~Idle(c)
               /\ \E f : /\ Open(c, f) /\ f.at = "preserving" /\ ~f.quiet
                         /\ told' = [told EXCEPT ![c].start = @ + 1]
  <2>1. \/ \E h : Opens(c, h)
        \/ NotFound(c) /\ UNCHANGED stack
    BY <1>3 DEF HandOffByTool
  <2>2. ~Idle(c) /\ Top(c).at = "executing"
    BY <1>3 DEF HandOffByTool
  <2>3. ASSUME NEW h, Opens(c, h)
        PROVE \E f : Open(c, f) /\ f.at = "preserving" /\ ~f.quiet
                     /\ told' = [told EXCEPT ![c].start = @ + 1]
    BY <2>3, OpensOne
  <2> QED
    BY <2>1, <2>2, <2>3
<1>4. ~Idle(c) => ~AutoRoute(c)
  BY DEF AutoRoute
<1> QED
  BY <1>1, <1>2, <1>3, <1>4 DEF NotFound

LEMMA NestStep ==
  ASSUME HandoffTypeOK, NestInv, NEW c \in Callers, HandoffStep(c)
  PROVE NestInv'
<1>1. CASE HandOff(c) \/ AutoRoute(c)
           \/ \E to \in Agents \cup Aliases, p \in BOOLEAN : HandOffByTool(c, to, p)
  <2>1. CASE UNCHANGED stack
    BY <2>1 DEF NestInv, Depth, Nested
  <2>2. ASSUME NEW f, Open(c, f), Idle(c) \/ Top(c).at = "executing",
               f.at = "ready" => f.source = <<>>
        PROVE NestInv'
    BY <2>2, OpenNest
  <2> QED
    BY <1>1, <2>1, <2>2, OpenStep
<1>2. CASE CopyMessage(c)
  <2> DEFINE f == [Top(c) EXCEPT !.placed = Append(@, Len(turns[Top(c).to]) + 1)]
  <2>1. /\ Change(c, f) /\ f.at = "preserving" /\ f.source = Top(c).source
        /\ f.placed = Append(Top(c).placed, Len(turns[Top(c).to]) + 1)
    BY <1>2, CopyChange
  <2>2. Top(c).placed \in Seq(Nat) /\ Top(c).source \in Seq(Utterance)
    BY <1>2, TopTypes DEF CopyMessage, OpenHandoff
  <2>3. Len(Top(c).placed) < Len(Top(c).source)
    BY <1>2 DEF CopyMessage
  <2>4. Len(f.placed) = Len(Top(c).placed) + 1
    BY <2>1, <2>2
  <2>5. Len(f.placed) <= Len(f.source)
    BY <2>1, <2>2, <2>3, <2>4
  <2> HIDE DEF f
  <2> QED
    BY <2>1, <2>5, ChangeNest
<1>3. CASE SetStateData(c)
  <2> DEFINE f == [Top(c) EXCEPT !.at = "ready"]
  <2>1. Change(c, f) /\ f.source = Top(c).source /\ f.placed = Top(c).placed
    BY <1>3, StateDataChange
  <2>2. Len(Top(c).placed) = Len(Top(c).source) /\ Len(Top(c).source) \in Nat
    BY <1>3, TopTypes DEF SetStateData, OpenHandoff
  <2> HIDE DEF f
  <2> QED
    BY <2>1, <2>2, ChangeNest
<1>4. CASE BeginTask(c)
  <2> DEFINE f == [Top(c) EXCEPT !.at = "executing", !.source = <<>>, !.placed = <<>>]
  <2>1. Change(c, f) /\ f.source = <<>> /\ f.placed = <<>>
    BY <1>4, BeginChange
  <2>2. Len(f.placed) <= Len(f.source) /\ Len(f.placed) = Len(f.source)
    BY <2>1
  <2> HIDE DEF f
  <2> QED
    BY <2>1, <2>2, ChangeNest
<1>5. CASE AnswerTask(c) \/ Fail(c)
  BY <1>5, CloseNest DEF AnswerTask, Fail
<1> QED
  BY <1>1, <1>2, <1>3, <1>4, <1>5 DEF HandoffStep

-----------------------------------------------------------------------------
(* What was copied stays. *)
Grows(t, u) ==
  \A a \in Agents : Len(t[a]) <= Len(u[a]) /\ \A i \in 1 .. Len(t[a]) : u[a][i] = t[a][i]

LEMMA CopiedGrows ==
  ASSUME NEW f \in OpenHandoff, NEW t \in [Agents -> Seq(Utterance)],
         NEW u \in [Agents -> Seq(Utterance)], Grows(t, u), CopiedIn(f, t)
  PROVE CopiedIn(f, u)
<1>1. f.to \in Agents /\ f.placed \in Seq(Nat)
  BY DEF OpenHandoff
<1>2. t[f.to] \in Seq(Utterance) /\ u[f.to] \in Seq(Utterance)
  BY <1>1
<1>3. /\ DOMAIN t[f.to] = 1 .. Len(t[f.to]) /\ DOMAIN u[f.to] = 1 .. Len(u[f.to])
      /\ Len(t[f.to]) \in Nat /\ Len(u[f.to]) \in Nat
  BY <1>2
<1>4. Len(t[f.to]) <= Len(u[f.to]) /\ \A i \in 1 .. Len(t[f.to]) : u[f.to][i] = t[f.to][i]
  BY <1>1 DEF Grows
<1>5. ASSUME NEW i \in DOMAIN f.placed
      PROVE f.placed[i] \in DOMAIN u[f.to] /\ u[f.to][f.placed[i]] = f.source[i]
  <2>1. f.placed[i] \in 1 .. Len(t[f.to]) /\ t[f.to][f.placed[i]] = f.source[i]
    BY <1>3, <1>5 DEF CopiedIn
  <2>2. f.placed[i] \in 1 .. Len(u[f.to])
    BY <1>3, <1>4, <2>1
  <2> QED
    BY <1>3, <1>4, <2>1, <2>2
<1> QED
  BY <1>5 DEF CopiedIn

LEMMA TurnGrows ==
  ASSUME HandoffTypeOK, NEW a \in Agents, NEW m, turns' = [turns EXCEPT ![a] = Append(@, m)]
  PROVE /\ Grows(turns, turns')
        /\ Len(turns'[a]) = Len(turns[a]) + 1 /\ turns'[a][Len(turns[a]) + 1] = m
<1>1. turns[a] \in Seq(Utterance) /\ turns'[a] = Append(turns[a], m)
  BY DEF HandoffTypeOK
<1>2. /\ Len(turns'[a]) = Len(turns[a]) + 1 /\ turns'[a][Len(turns[a]) + 1] = m
      /\ \A i \in 1 .. Len(turns[a]) : turns'[a][i] = turns[a][i]
      /\ Len(turns[a]) \in Nat
  BY <1>1
<1>3. \A b \in Agents : b # a => turns'[b] = turns[b]
  BY DEF HandoffTypeOK
<1>4. \A b \in Agents : Len(turns[b]) \in Nat
  BY DEF HandoffTypeOK
<1> QED
  BY <1>2, <1>3, <1>4 DEF Grows

LEMMA TurnsGrow ==
  ASSUME HandoffTypeOK, [HandoffNext]_handoffVars PROVE Grows(turns, turns')
<1>1. UNCHANGED turns => Grows(turns, turns')
  BY DEF Grows, HandoffTypeOK
<1>2. ASSUME NEW c \in Callers, HandoffStep(c) PROVE Grows(turns, turns')
  <2>1. CASE CopyMessage(c) \/ BeginTask(c) \/ AnswerTask(c)
    <3>1. Top(c).to \in Agents
      BY <2>1, TopTypes DEF CopyMessage, BeginTask, AnswerTask
    <3>2. \E m : turns' = [turns EXCEPT ![Top(c).to] = Append(@, m)]
      BY <2>1 DEF CopyMessage, BeginTask, AnswerTask
    <3> QED
      BY <3>1, <3>2, TurnGrows
  <2> QED
    BY <1>1, <1>2, <2>1 DEF HandoffStep, HandOff, AutoRoute, SetStateData, Fail, HandOffByTool
<1> QED
  BY <1>1, <1>2 DEF HandoffNext, SetAlias, Register, Unregister, handoffVars

LEMMA OldCopies ==
  ASSUME HandoffTypeOK, HandoffTypeOK', CopyInv, Grows(turns, turns'),
         NEW d \in Callers, NEW i \in 1 .. Depth(d)
  PROVE CopiedIn(stack[d][i], turns')
<1>1. stack[d] \in Seq(OpenHandoff) /\ i \in 1 .. Len(stack[d])
  BY DEF HandoffTypeOK, Depth
<1>2. stack[d][i] \in OpenHandoff
  BY <1>1
<1>3. turns \in [Agents -> Seq(Utterance)] /\ turns' \in [Agents -> Seq(Utterance)]
  BY DEF HandoffTypeOK
<1>4. CopiedIn(stack[d][i], turns)
  BY DEF CopyInv
<1> QED
  BY <1>2, <1>3, <1>4, CopiedGrows

LEMMA NewCopies ==
  ASSUME HandoffTypeOK, HandoffTypeOK', CopyInv, Grows(turns, turns'), NEW c \in Callers, NEW f,
         Open(c, f) \/ Change(c, f), CopiedIn(f, turns')
  PROVE CopyInv'
<1>1. Depth(c) \in Nat
  BY DepthTypes
<1>2. ASSUME NEW d \in Callers, d # c, NEW i \in (1 .. Depth(d))'
      PROVE CopiedIn(stack'[d][i], turns')
  <2>1. stack'[d] = stack[d]
    BY <1>2, OpenShape, ChangeShape
  <2>2. i \in 1 .. Depth(d)
    BY <2>1 DEF Depth
  <2> QED
    BY <2>1, <2>2, OldCopies
<1>3. CASE Open(c, f)
  <2>1. ASSUME NEW i \in (1 .. Depth(c))' PROVE CopiedIn(stack'[c][i], turns')
    <3>1. Depth(c)' = Depth(c) + 1 /\ i \in 1 .. Depth(c) + 1
      BY <1>3, OpenShape
    <3>2. CASE i = Depth(c) + 1
      BY <1>3, <3>2, OpenShape
    <3>3. CASE i \in 1 .. Depth(c)
      <4>1. stack'[c][i] = stack[c][i]
        BY <1>3, <3>3, OpenShape
      <4> QED
        BY <3>3, <4>1, OldCopies
    <3> QED
      BY <1>1, <3>1, <3>2, <3>3
  <2> QED
    BY <1>2, <2>1 DEF CopyInv
<1>4. CASE Change(c, f)
  <2>1. ASSUME NEW i \in (1 .. Depth(c))' PROVE CopiedIn(stack'[c][i], turns')
    <3>1. Depth(c)' = Depth(c) /\ i \in 1 .. Depth(c)
      BY <1>4, ChangeShape
    <3>2. CASE i = Depth(c)
      BY <1>4, <3>2, ChangeShape
    <3>3. CASE i \in 1 .. Depth(c) - 1
      <4>1. stack'[c][i] = stack[c][i]
        BY <1>4, <3>3, ChangeShape
      <4> QED
        BY <3>1, <4>1, OldCopies
    <3> QED
      BY <1>1, <3>1, <3>2, <3>3
  <2> QED
    BY <1>2, <2>1 DEF CopyInv
<1> QED
  BY <1>3, <1>4

LEMMA CloseCopies ==
  ASSUME HandoffTypeOK, HandoffTypeOK', CopyInv, Grows(turns, turns'), NEW c \in Callers,
         ~Idle(c), Closes(c)
  PROVE CopyInv'
<1>1. Depth(c) \in Nat
  BY DepthTypes
<1>2. ASSUME NEW d \in Callers, NEW i \in (1 .. Depth(d))' PROVE CopiedIn(stack'[d][i], turns')
  <2>1. i \in 1 .. Depth(d) /\ stack'[d][i] = stack[d][i]
    <3>1. CASE d # c
      BY <1>2, <3>1, CloseShape DEF Depth
    <3>2. CASE d = c
      <4>1. Depth(c)' = Depth(c) - 1 /\ i \in 1 .. Depth(c) - 1
        BY <1>2, <3>2, CloseShape
      <4> QED
        BY <1>1, <3>2, <4>1, CloseShape
    <3> QED
      BY <3>1, <3>2
  <2> QED
    BY <2>1, OldCopies
<1> QED
  BY <1>2 DEF CopyInv

LEMMA LastOrBefore == \A l \in Nat : \A i \in 1 .. l + 1 : i = l + 1 \/ i \in 1 .. l
OBVIOUS

Below(p, n) ==
  \A i \in 1 .. Len(p) : p[i] \in 1 .. n /\ \A j \in 1 .. i - 1 : p[j] < p[i]

LEMMA RisingAppend ==
  ASSUME NEW p \in Seq(Nat), NEW n \in Nat, Below(p, n)
  PROVE Below(Append(p, n + 1), n + 1)
<1> DEFINE q == Append(p, n + 1)
<1>1. Len(p) \in Nat
  OBVIOUS
<1>2. PICK l \in Nat : Len(p) = l
  BY <1>1
<1>3. Len(q) = l + 1 /\ q[l + 1] = n + 1 /\ \A i \in 1 .. l : q[i] = p[i]
  BY <1>2
<1> HIDE DEF q
<1>4. \A i \in 1 .. l : p[i] \in 1 .. n /\ \A j \in 1 .. i - 1 : p[j] < p[i]
  BY <1>2 DEF Below
<1>5. ASSUME NEW i \in 1 .. l PROVE q[i] \in 1 .. n /\ \A j \in 1 .. i - 1 : q[j] < q[i]
  <2>1. \A j \in 1 .. i - 1 : j \in 1 .. l
    BY <1>2
  <2> QED
    BY <1>3, <1>4, <2>1
<1>6. \A m \in 1 .. n : m \in 1 .. n + 1 /\ m < n + 1
  OBVIOUS
<1>7. ASSUME NEW i \in 1 .. l + 1
      PROVE q[i] \in 1 .. n + 1 /\ \A j \in 1 .. i - 1 : q[j] < q[i]
  <2>1. CASE i = l + 1
    <3>1. i - 1 = l
      BY <1>2, <2>1
    <3>2. \A j \in 1 .. l : q[j] < n + 1
      BY <1>5, <1>6
    <3>3. n + 1 \in 1 .. n + 1
      OBVIOUS
    <3> QED
      BY <1>3, <2>1, <3>1, <3>2, <3>3
  <2>2. CASE i \in 1 .. l
    BY <1>5, <1>6, <2>2
  <2> QED
    BY <1>2, <1>7, <2>1, <2>2, LastOrBefore
<1> QED
  BY <1>3, <1>7 DEF Below, q

(* The message that is copied now lies behind those copied before. *)
LEMMA CopiedMore ==
  ASSUME HandoffTypeOK, HandoffTypeOK', NEW c \in Callers, CopyMessage(c), CopiedIn(Top(c), turns),
         NEW f, f.to = Top(c).to, f.source = Top(c).source,
         f.placed = Append(Top(c).placed, Len(turns[Top(c).to]) + 1)
  PROVE CopiedIn(f, turns')
<1> DEFINE a == Top(c).to
           p == Top(c).placed
           n == Len(turns[a])
<1>1. a \in Agents /\ p \in Seq(Nat) /\ Top(c) \in OpenHandoff
  BY TopTypes DEF CopyMessage, OpenHandoff
<1>2. turns[a] \in Seq(Utterance) /\ turns'[a] \in Seq(Utterance) /\ n \in Nat /\ Len(p) \in Nat
  BY <1>1 DEF HandoffTypeOK
<1>3. turns' = [turns EXCEPT ![a] = Append(@, Top(c).source[Len(p) + 1])]
  BY DEF CopyMessage
<1>4. /\ Len(turns'[a]) = n + 1 /\ turns'[a][n + 1] = Top(c).source[Len(p) + 1]
      /\ Grows(turns, turns')
  BY <1>1, <1>3, TurnGrows
<1>5. /\ DOMAIN f.placed = 1 .. Len(p) + 1 /\ f.placed[Len(p) + 1] = n + 1
      /\ \A i \in 1 .. Len(p) : f.placed[i] = p[i]
  BY <1>1, <1>2
<1>6. DOMAIN turns'[a] = 1 .. n + 1 /\ DOMAIN turns[a] = 1 .. n /\ DOMAIN p = 1 .. Len(p)
  BY <1>1, <1>2, <1>4
<1>7. \A i \in 1 .. n : turns'[a][i] = turns[a][i]
  BY <1>1, <1>4 DEF Grows
<1>8. \A i \in 1 .. Len(p) : /\ p[i] \in 1 .. n /\ turns[a][p[i]] = Top(c).source[i]
                             /\ \A j \in 1 .. i - 1 : p[j] < p[i]
  BY <1>6 DEF CopiedIn
<1> HIDE DEF a, p, n
<1>9. \A i \in 1 .. Len(p) + 1 :
        f.placed[i] \in 1 .. n + 1 /\ \A j \in 1 .. i - 1 : f.placed[j] < f.placed[i]
  <2>1. f.placed = Append(p, n + 1)
    BY DEF a, p, n
  <2>2. Len(Append(p, n + 1)) = Len(p) + 1
    BY <1>1
  <2>3. Below(p, n)
    BY <1>8 DEF Below
  <2> QED
    BY <1>1, <1>2, <2>1, <2>2, <2>3, RisingAppend DEF Below
<1>10. ASSUME NEW i \in 1 .. Len(p) + 1 PROVE turns'[a][f.placed[i]] = Top(c).source[i]
  <2>1. CASE i = Len(p) + 1
    BY <1>4, <1>5, <2>1
  <2>2. CASE i \in 1 .. Len(p)
    BY <1>5, <1>7, <1>8, <2>2
  <2> QED
    BY <1>2, <1>10, <2>1, <2>2, LastOrBefore
<1>11. f.to = a /\ f.source = Top(c).source
  BY DEF a
<1> QED
  BY <1>5, <1>6, <1>9, <1>10, <1>11 DEF CopiedIn

LEMMA CopyStep ==
  ASSUME HandoffTypeOK, HandoffTypeOK', CopyInv, Grows(turns, turns'), NEW c \in Callers, HandoffStep(c)
  PROVE CopyInv'
<1>1. \A f : f.placed = <<>> => CopiedIn(f, turns')
  BY DEF CopiedIn
<1>2. ~Idle(c) => CopiedIn(Top(c), turns)
  BY TopTypes DEF CopyInv, Top
<1>3. CASE HandOff(c) \/ AutoRoute(c)
           \/ \E to \in Agents \cup Aliases, p \in BOOLEAN : HandOffByTool(c, to, p)
  <2>1. CASE UNCHANGED stack
    BY <2>1, OldCopies DEF CopyInv, Depth
  <2>2. ASSUME NEW f, Open(c, f) PROVE CopyInv'
    BY <1>1, <2>2, NewCopies DEF Open
  <2> QED
    BY <1>3, <2>1, <2>2, OpenStep
<1>4. CASE CopyMessage(c)
  <2> DEFINE f == [Top(c) EXCEPT !.placed = Append(@, Len(turns[Top(c).to]) + 1)]
  <2>1. /\ Change(c, f) /\ f.source = Top(c).source
        /\ f.placed = Append(Top(c).placed, Len(turns[Top(c).to]) + 1)
    BY <1>4, CopyChange
  <2> HIDE DEF f
  <2>2. f.to = Top(c).to /\ ~Idle(c)
    BY <2>1 DEF Change
  <2>3. CopiedIn(f, turns')
    BY <1>2, <1>4, <2>1, <2>2, CopiedMore
  <2> QED
    BY <2>1, <2>3, NewCopies
<1>5. CASE SetStateData(c)
  <2> DEFINE f == [Top(c) EXCEPT !.at = "ready"]
  <2>1. Change(c, f) /\ f.source = Top(c).source /\ f.placed = Top(c).placed
    BY <1>5, StateDataChange
  <2> HIDE DEF f
  <2>2. f.to = Top(c).to /\ ~Idle(c)
    BY <2>1 DEF Change
  <2>3. UNCHANGED turns
    BY <1>5 DEF SetStateData
  <2>4. CopiedIn(f, turns')
    BY <1>2, <2>1, <2>2, <2>3 DEF CopiedIn
  <2> QED
    BY <2>1, <2>4, NewCopies
<1>6. CASE BeginTask(c)
  <2> DEFINE f == [Top(c) EXCEPT !.at = "executing", !.source = <<>>, !.placed = <<>>]
  <2>1. Change(c, f) /\ f.placed = <<>>
    BY <1>6, BeginChange
  <2> HIDE DEF f
  <2> QED
    BY <1>1, <2>1, NewCopies
<1>7. CASE AnswerTask(c) \/ Fail(c)
  BY <1>7, CloseCopies DEF AnswerTask, Fail
<1> QED
  BY <1>3, <1>4, <1>5, <1>6, <1>7 DEF HandoffStep

-----------------------------------------------------------------------------
(* A chain past its first handoff has a response. *)
LEMMA StepIsOwn ==
  ASSUME HandoffTypeOK, NEW c \in Callers, HandoffStep(c), NEW d \in Callers, d # c
  PROVE stack'[d] = stack[d] /\ caller'[d] = caller[d] /\ told'[d] = told[d]
<1>1. stack'[d] = stack[d]
  <2>1. CASE HandOff(c) \/ AutoRoute(c)
             \/ \E to \in Agents \cup Aliases, p \in BOOLEAN : HandOffByTool(c, to, p)
    BY <2>1, OpenStep, OpenShape
  <2>2. CASE CopyMessage(c) \/ SetStateData(c) \/ BeginTask(c)
    BY <2>2, CopyChange, StateDataChange, BeginChange, ChangeShape
  <2>3. CASE AnswerTask(c) \/ Fail(c)
    BY <2>3, CloseShape DEF AnswerTask, Fail
  <2> QED
    BY <2>1, <2>2, <2>3 DEF HandoffStep
<1>2. caller'[d] = caller[d]
  BY DEF HandoffTypeOK, HandoffStep, HandOff, AutoRoute, HandOffByTool, CopyMessage, SetStateData,
         BeginTask, AnswerTask, Fail
<1>3. told'[d] = told[d]
  <2>1. CASE HandOff(c) \/ AutoRoute(c)
             \/ \E to \in Agents \cup Aliases, p \in BOOLEAN : HandOffByTool(c, to, p)
    BY <2>1, OpenStep DEF HandoffTypeOK
  <2>2. CASE AnswerTask(c) \/ Fail(c)
    BY <2>2 DEF HandoffTypeOK, AnswerTask, Fail, Told
  <2> QED
    BY <2>1, <2>2 DEF HandoffStep, CopyMessage, SetStateData, BeginTask
<1> QED
  BY <1>1, <1>2, <1>3

Answered(c) ==
  /\ Idle(c) /\ caller[c].outcome = "none" /\ caller[c].at > 0 => caller[c].last # NoResponse
  /\ ~Idle(c) /\ caller[c].at > 1 => caller[c].last # NoResponse
  /\ caller[c].chain = <<>> => caller[c].at = 0

LEMMA AnsweredStep ==
  ASSUME HandoffTypeOK, NestInv, AnsweredInv, NEW c \in Callers, HandoffStep(c)
  PROVE AnsweredInv'
<1>1. \A d \in Callers : d # c => Answered(d)'
  BY StepIsOwn DEF AnsweredInv, Answered, Idle
<1> SUFFICES Answered(c)'
  BY <1>1 DEF AnsweredInv, Answered
<1>2. caller[c] \in CallerState /\ caller[c].at \in Nat /\ Answered(c)
  BY DEF HandoffTypeOK, CallerState, AnsweredInv, Answered
<1>3. CASE HandOff(c)
  <2>1. Idle(c) /\ caller[c].outcome = "none" /\ caller[c].chain # <<>>
    <3>1. caller[c].at < Len(caller[c].chain)
      BY <1>3 DEF HandOff, Chain
    <3>2. Len(<<>>) = 0
      OBVIOUS
    <3> QED
      BY <1>2, <1>3, <3>1, <3>2 DEF HandOff
  <2>2. CASE UNCHANGED stack
    <3>1. caller'[c].outcome = "failed" /\ caller'[c].chain = caller[c].chain
      <4>1. \A h : Opens(c, h) => ~Idle(c)'
        BY OpensOne, OpenShape
      <4>2. Idle(c)'
        BY <2>1, <2>2 DEF Idle
      <4>3. caller' = [caller EXCEPT ![c].outcome = "failed"]
        BY <1>3, <4>1, <4>2 DEF HandOff
      <4> QED
        BY <1>2, <4>3 DEF HandoffTypeOK, CallerState
    <3>2. Idle(c)'
      BY <2>1, <2>2 DEF Idle
    <3> QED
      BY <2>1, <3>1, <3>2 DEF Answered
  <2>3. CASE \E f : Open(c, f)
    <3>1. ~Idle(c)'
      BY <2>3, OpenShape
    <3>2. caller' = [caller EXCEPT ![c].at = @ + 1, ![c].made = @ + 1]
      <4>1. stack' # stack
        BY <2>1, <3>1 DEF Idle
      <4> QED
        BY <1>3, <4>1 DEF HandOff
    <3>3. /\ caller'[c].at = caller[c].at + 1 /\ caller'[c].last = caller[c].last
          /\ caller'[c].chain = caller[c].chain
      BY <1>2, <3>2 DEF HandoffTypeOK, CallerState
    <3> QED
      BY <1>2, <2>1, <3>1, <3>3 DEF Answered
  <2> QED
    BY <1>3, <2>2, <2>3, OpenStep
<1>4. CASE AutoRoute(c)
  <2>1. /\ Idle(c) /\ caller[c].outcome = "none"
        /\ caller' = [caller EXCEPT ![c].made = 1]
    BY <1>4 DEF AutoRoute
  <2>2. /\ caller'[c].at = caller[c].at /\ caller'[c].last = caller[c].last
        /\ caller'[c].chain = caller[c].chain
    BY <1>2, <2>1 DEF HandoffTypeOK, CallerState
  <2>3. ~Idle(c)'
    BY <1>4, RouteOpens, OpenShape
  <2> QED
    BY <1>2, <2>1, <2>2, <2>3 DEF Answered
<1>5. ASSUME NEW to \in Agents \cup Aliases, NEW p \in BOOLEAN, HandOffByTool(c, to, p)
      PROVE Answered(c)'
  <2>1. ~Idle(c)
    BY <1>5 DEF HandOffByTool
  <2>2. /\ caller'[c].at = caller[c].at /\ caller'[c].last = caller[c].last
        /\ caller'[c].chain = caller[c].chain
    BY <1>2, <1>5 DEF HandOffByTool, HandoffTypeOK, CallerState
  <2>3. ~Idle(c)'
    BY <1>5, <2>1, OpensOne, OpenShape DEF HandOffByTool, Idle
  <2> QED
    BY <1>2, <2>1, <2>2, <2>3 DEF Answered
<1>6. CASE CopyMessage(c) \/ SetStateData(c) \/ BeginTask(c)
  <2>1. ~Idle(c) /\ caller' = caller
    BY <1>6 DEF CopyMessage, SetStateData, BeginTask
  <2>2. ~Idle(c)'
    BY <1>6, CopyChange, StateDataChange, BeginChange, ChangeShape
  <2> QED
    BY <1>2, <2>1, <2>2 DEF Answered
<1>7. CASE AnswerTask(c) \/ Fail(c)
  <2>1. ~Idle(c) /\ Closes(c) /\ Depth(c) \in Nat \ {0} /\ Top(c) \in OpenHandoff
    BY <1>7, TopTypes DEF AnswerTask, Fail
  <2>2. Nested(Top(c), Depth(c), Depth(c)) /\ (Idle(c)' <=> Depth(c) = 1)
    BY <2>1, CloseShape DEF NestInv, Top
  <2>3. Top(c).chained <=> Idle(c)'
    BY <2>2 DEF Nested
  <2>4. CASE ~Top(c).chained
    <3>1. caller' = caller
      BY <1>7, <2>4 DEF AnswerTask, Fail
    <3> QED
      BY <1>2, <2>1, <2>3, <2>4, <3>1 DEF Answered
  <2>5. CASE Top(c).chained /\ AnswerTask(c)
    <3>1. \E o : caller' = [caller EXCEPT ![c].last = <<c, Top(c).n>>, ![c].outcome = o]
      BY <2>5 DEF AnswerTask
    <3>2. /\ caller'[c].last = <<c, Top(c).n>> /\ caller'[c].at = caller[c].at
          /\ caller'[c].chain = caller[c].chain
      BY <1>2, <3>1 DEF HandoffTypeOK, CallerState
    <3>3. Top(c).n # 0
      BY <2>1 DEF OpenHandoff
    <3>4. caller'[c].last # NoResponse
      BY <3>2, <3>3 DEF NoResponse
    <3> QED
      BY <1>2, <3>2, <3>4 DEF Answered
  <2>6. CASE Top(c).chained /\ Fail(c)
    <3>1. /\ caller'[c].outcome = "failed" /\ caller'[c].at = caller[c].at
          /\ caller'[c].chain = caller[c].chain
      BY <1>2, <2>6 DEF Fail, HandoffTypeOK, CallerState
    <3> QED
      BY <1>2, <2>3, <2>6, <3>1 DEF Answered
  <2> QED
    BY <1>7, <2>4, <2>5, <2>6
<1> QED
  BY <1>1, <1>3, <1>4, <1>5, <1>6, <1>7 DEF HandoffStep, AnsweredInv, Answered

-----------------------------------------------------------------------------
(* It passes on its response. *)
Passes(c) ==
  ~Idle(c) /\ Depth(c) = 1 /\ Top(c).at = "ready" /\ caller[c].at > 1 =>
    previous[Top(c).to] = caller[c].last \/ Top(c).to \in touched[c]

LEMMA PassesKept ==
  ASSUME HandoffTypeOK, PassedOn, NEW d \in Callers, stack'[d] = stack[d],
         caller'[d] = caller[d], touched[d] \subseteq touched'[d],
         \A a \in Agents : previous'[a] = previous[a] \/ a \in touched'[d]
  PROVE Passes(d)'
<1>1. /\ (Idle(d)' <=> Idle(d)) /\ Depth(d)' = Depth(d) /\ Top(d)' = Top(d)
  BY DEF Idle, Depth, Top
<1>2. Passes(d) /\ (~Idle(d) => Top(d).to \in Agents)
  BY TopTypes DEF PassedOn, Passes
<1> QED
  BY <1>1, <1>2 DEF Passes

LEMMA PassedStep ==
  ASSUME HandoffTypeOK, NestInv, AnsweredInv, PassedOn, NEW c \in Callers, HandoffStep(c)
  PROVE PassedOn'
<1>1. Depth(c) \in Nat /\ (Idle(c) <=> Depth(c) = 0) /\ Passes(c)
  BY DepthTypes DEF PassedOn, Passes
<1>2. \/ UNCHANGED previous /\ \A d \in Callers : d # c => touched'[d] = touched[d]
      \/ /\ ~Idle(c)
         /\ previous' = [previous EXCEPT ![Top(c).to] = caller[c].last]
         /\ \A d \in Callers : d # c => touched'[d] = touched[d] \cup {Top(c).to}
  <2>1. CASE SetStateData(c)
    BY <2>1 DEF SetStateData
  <2>2. CASE ~SetStateData(c)
    BY <2>2 DEF HandoffStep, HandOff, AutoRoute, HandOffByTool, HandoffTypeOK, CopyMessage, BeginTask,
                AnswerTask, Fail
  <2> QED
    BY <2>1, <2>2
<1>3. ASSUME NEW d \in Callers, d # c PROVE Passes(d)'
  <2>1. touched[d] \subseteq touched'[d]
    BY <1>2, <1>3
  <2>2. \A a \in Agents : previous'[a] = previous[a] \/ a \in touched'[d]
    BY <1>2, <1>3 DEF HandoffTypeOK
  <2> QED
    BY <1>3, <2>1, <2>2, StepIsOwn, PassesKept
<1> SUFFICES Passes(c)'
  BY <1>3 DEF PassedOn, Passes
<1>4. CASE HandOff(c) \/ AutoRoute(c)
           \/ \E to \in Agents \cup Aliases, p \in BOOLEAN : HandOffByTool(c, to, p)
  <2>1. CASE UNCHANGED stack /\ ~Idle(c)
    <3>1. ~HandOff(c) /\ ~AutoRoute(c)
      BY <2>1 DEF HandOff, AutoRoute
    <3>2. PICK to \in Agents \cup Aliases, p \in BOOLEAN : HandOffByTool(c, to, p)
      BY <1>4, <3>1
    <3>3. UNCHANGED <<touched, previous>>
      BY <3>2 DEF HandOffByTool
    <3>4. caller'[c].at = caller[c].at /\ caller'[c].last = caller[c].last
      <4>1. \/ caller' = [caller EXCEPT ![c].tools = @ + 1, ![c].made = @ + 1]
            \/ caller' = [caller EXCEPT ![c].tools = @ + 1]
        BY <3>2 DEF HandOffByTool
      <4>2. caller[c] \in CallerState
        BY DEF HandoffTypeOK
      <4> QED
        BY <4>1, <4>2 DEF HandoffTypeOK, CallerState
    <3> QED
      BY <1>1, <2>1, <3>3, <3>4 DEF Passes, Idle, Depth, Top
  <2>2. CASE UNCHANGED stack /\ Idle(c)
    BY <2>2 DEF Passes, Idle
  <2>3. ASSUME NEW f, Open(c, f), f.at = "ready" => AutoRoute(c) PROVE Passes(c)'
    <3>1. Top(c)' = f
      BY <2>3, OpenShape
    <3>2. CASE AutoRoute(c)
      <4>1. caller' = [caller EXCEPT ![c].made = 1] /\ caller[c].chain = <<>>
        BY <3>2 DEF AutoRoute
      <4>2. caller[c].at = 0
        BY <4>1 DEF AnsweredInv
      <4>3. caller'[c].at = 0
        BY <4>1, <4>2 DEF HandoffTypeOK, CallerState
      <4> QED
        BY <4>3 DEF Passes
    <3>3. CASE ~AutoRoute(c)
      BY <2>3, <3>1, <3>3 DEF Passes
    <3> QED
      BY <3>2, <3>3
  <2> QED
    BY <1>4, <2>1, <2>2, <2>3, OpenStep
<1>5. CASE CopyMessage(c)
  <2> DEFINE f == [Top(c) EXCEPT !.placed = Append(@, Len(turns[Top(c).to]) + 1)]
  <2>1. Change(c, f) /\ f.at = "preserving"
    BY <1>5, CopyChange
  <2> HIDE DEF f
  <2>2. Top(c)' = f
    BY <2>1, ChangeShape
  <2> QED
    BY <2>1, <2>2 DEF Passes
<1>6. CASE SetStateData(c)
  <2> DEFINE f == [Top(c) EXCEPT !.at = "ready"]
  <2>1. Change(c, f) /\ Depth(c) \in Nat \ {0} /\ ~Idle(c)
    BY <1>6, StateDataChange, TopTypes DEF SetStateData
  <2> HIDE DEF f
  <2>2. Top(c)' = f /\ f.to = Top(c).to /\ Depth(c)' = Depth(c)
    BY <2>1, ChangeShape DEF Change
  <2>3. caller' = caller
    BY <1>6 DEF SetStateData
  <2>4. SUFFICES ASSUME Depth(c) = 1, caller[c].at > 1
                 PROVE previous'[Top(c).to] = caller[c].last
    BY <2>2, <2>3 DEF Passes
  <2>5. Top(c).chained
    BY <2>1, <2>4 DEF NestInv, Nested, Top
  <2>6. caller[c].last # NoResponse
    BY <2>1, <2>4 DEF AnsweredInv
  <2>7. previous' = [previous EXCEPT ![Top(c).to] = caller[c].last]
    BY <1>6, <2>5, <2>6 DEF SetStateData
  <2>8. Top(c).to \in Agents
    BY <2>1, TopTypes
  <2> QED
    BY <2>7, <2>8 DEF HandoffTypeOK
<1>7. CASE BeginTask(c)
  <2>1. Top(c)'.at = "executing"
    BY <1>7, BeginChange, ChangeShape
  <2> QED
    BY <2>1 DEF Passes
<1>8. CASE AnswerTask(c) \/ Fail(c)
  <2>1. ~Idle(c) /\ Closes(c)
    BY <1>8 DEF AnswerTask, Fail
  <2>2. Depth(c)' = Depth(c) - 1 /\ Depth(c) \in Nat \ {0}
    BY <2>1, CloseShape, TopTypes
  <2>3. CASE Depth(c) = 2
    <3>1. stack'[c][1] = stack[c][1] /\ stack[c][1].at = "executing"
      <4>1. 1 \in 1 .. Depth(c) - 1 /\ 1 \in 1 .. Depth(c) /\ 1 < Depth(c)
        BY <2>3
      <4>2. stack'[c][1] = stack[c][1]
        BY <2>1, <4>1, CloseShape
      <4>3. Nested(stack[c][1], 1, Depth(c))
        BY <4>1 DEF NestInv
      <4> QED
        BY <4>1, <4>2, <4>3 DEF Nested
    <3>2. Top(c)'.at = "executing"
      BY <2>2, <2>3, <3>1 DEF Top
    <3> QED
      BY <3>2 DEF Passes
  <2>4. CASE Depth(c) # 2
    BY <2>2, <2>4 DEF Passes
  <2> QED
    BY <2>3, <2>4
<1> QED
  BY <1>4, <1>5, <1>6, <1>7, <1>8 DEF HandoffStep

-----------------------------------------------------------------------------
(* Every start has its end, or a handoff that is open. *)
LEMMA LoudTypes ==
  ASSUME HandoffTypeOK, NEW c \in Callers
  PROVE IsFiniteSet(Loud(c)) /\ Cardinality(Loud(c)) \in Nat
<1>1. Depth(c) \in Nat
  BY DepthTypes
<1>2. IsFiniteSet(1 .. Depth(c))
  BY <1>1, FS_Interval
<1>3. Loud(c) \subseteq 1 .. Depth(c)
  BY DEF Loud
<1>4. IsFiniteSet(Loud(c))
  BY <1>2, <1>3, FS_Subset
<1> QED
  BY <1>4, FS_CardinalityType

LEMMA OpenLoud ==
  ASSUME HandoffTypeOK, NEW c \in Callers, NEW f, Open(c, f)
  PROVE Cardinality(Loud(c))' = Cardinality(Loud(c)) + IF f.quiet THEN 0 ELSE 1
<1>1. /\ Depth(c) \in Nat /\ Depth(c)' = Depth(c) + 1 /\ stack'[c][Depth(c) + 1] = f
      /\ \A i \in 1 .. Depth(c) : stack'[c][i] = stack[c][i]
  BY DepthTypes, OpenShape
<1>2. PICK k \in Nat : Depth(c) = k
  BY <1>1
<1>3. /\ Loud(c) = {i \in 1 .. k : ~stack[c][i].quiet}
      /\ Loud(c)' = {i \in 1 .. k + 1 : ~stack'[c][i].quiet}
  BY <1>1, <1>2 DEF Loud
<1>4. 1 .. k + 1 = (1 .. k) \union {k + 1} /\ k + 1 \notin 1 .. k
  BY <1>2
<1>5. CASE f.quiet
  <2>1. Loud(c)' = Loud(c)
    BY <1>1, <1>2, <1>3, <1>4, <1>5
  <2> QED
    BY <1>5, <2>1, LoudTypes
<1>6. CASE ~f.quiet
  <2>1. Loud(c)' = Loud(c) \union {k + 1} /\ k + 1 \notin Loud(c)
    BY <1>1, <1>2, <1>3, <1>4, <1>6
  <2> QED
    BY <1>6, <2>1, LoudTypes, FS_AddElement
<1> QED
  BY <1>5, <1>6

LEMMA ChangeLoud ==
  ASSUME HandoffTypeOK, NEW c \in Callers, NEW f, Change(c, f)
  PROVE Loud(c)' = Loud(c)
<1>1. /\ Depth(c) \in Nat /\ Depth(c)' = Depth(c) /\ stack'[c][Depth(c)] = f
      /\ \A i \in 1 .. Depth(c) - 1 : stack'[c][i] = stack[c][i]
  BY DepthTypes, ChangeShape
<1>2. f.quiet = stack[c][Depth(c)].quiet
  BY DEF Change, Top
<1>3. \A i \in 1 .. Depth(c) : stack'[c][i].quiet = stack[c][i].quiet
  <2> SUFFICES ASSUME NEW i \in 1 .. Depth(c) PROVE stack'[c][i].quiet = stack[c][i].quiet
    OBVIOUS
  <2>1. i = Depth(c) \/ i \in 1 .. Depth(c) - 1
    BY <1>1
  <2> QED
    BY <1>1, <1>2, <2>1
<1> QED
  BY <1>1, <1>3 DEF Loud

LEMMA CloseLoud ==
  ASSUME HandoffTypeOK, NEW c \in Callers, ~Idle(c), Closes(c)
  PROVE Cardinality(Loud(c))' = Cardinality(Loud(c)) - IF Top(c).quiet THEN 0 ELSE 1
<1>1. /\ Depth(c) \in Nat \ {0} /\ Depth(c)' = Depth(c) - 1
      /\ \A i \in 1 .. Depth(c) - 1 : stack'[c][i] = stack[c][i]
  BY TopTypes, CloseShape
<1>2. PICK k \in Nat : Depth(c) = k + 1
  <2>1. Depth(c) - 1 \in Nat /\ Depth(c) = (Depth(c) - 1) + 1
    BY <1>1
  <2> QED
    BY <2>1
<1>3. Depth(c) - 1 = k
  BY <1>2
<1>4. /\ Loud(c) = {i \in 1 .. k + 1 : ~stack[c][i].quiet}
      /\ Loud(c)' = {i \in 1 .. k : ~stack'[c][i].quiet}
  BY <1>1, <1>2, <1>3 DEF Loud
<1>5. 1 .. k + 1 = (1 .. k) \union {k + 1} /\ k + 1 \notin 1 .. k
  BY <1>2
<1>6. Loud(c)' = {i \in 1 .. k : ~stack[c][i].quiet}
  BY <1>1, <1>3, <1>4
<1>7. Top(c) = stack[c][k + 1]
  BY <1>2 DEF Top
<1>8. CASE Top(c).quiet
  <2>1. Loud(c)' = Loud(c)
    BY <1>4, <1>5, <1>6, <1>7, <1>8
  <2> QED
    BY <1>8, <2>1, LoudTypes
<1>9. CASE ~Top(c).quiet
  <2>1. Loud(c)' = Loud(c) \ {k + 1} /\ k + 1 \in Loud(c)
    BY <1>4, <1>5, <1>6, <1>7, <1>9
  <2> QED
    BY <1>9, <2>1, LoudTypes, FS_RemoveElement
<1> QED
  BY <1>8, <1>9

LEMMA ToldStep ==
  ASSUME HandoffTypeOK, ToldInv, NEW c \in Callers, HandoffStep(c)
  PROVE ToldInv'
<1>1. \A d \in Callers : d # c => Loud(d)' = Loud(d) /\ told'[d] = told[d]
  BY StepIsOwn DEF Loud, Depth
<1>2. PICK n \in Nat : Cardinality(Loud(c)) = n
  BY LoudTypes
<1>3. told[c] \in Counts
  BY DEF HandoffTypeOK, Counts
<1>4. PICK s \in Nat, m \in Nat, e \in Nat : told[c].start = s /\ told[c].complete = m /\ told[c].error = e
  BY <1>3 DEF Counts
<1>5. s = m + e + n
  BY <1>2, <1>4 DEF ToldInv
<1> SUFFICES told'[c].start = told'[c].complete + told'[c].error + Cardinality(Loud(c)')
  BY <1>1 DEF ToldInv
<1>6. ASSUME told' = [told EXCEPT ![c].start = @ + 1]
      PROVE told'[c].start = s + 1 /\ told'[c].complete = m /\ told'[c].error = e
  BY <1>3, <1>4, <1>6 DEF HandoffTypeOK, Counts
<1>7. CASE HandOff(c) \/ AutoRoute(c)
           \/ \E to \in Agents \cup Aliases, p \in BOOLEAN : HandOffByTool(c, to, p)
  <2>1. CASE UNCHANGED stack /\ told' = [told EXCEPT ![c].start = @ + 1, ![c].error = @ + 1]
    <3>1. told'[c].start = s + 1 /\ told'[c].complete = m /\ told'[c].error = e + 1
      BY <1>3, <1>4, <2>1 DEF HandoffTypeOK, Counts
    <3>2. Loud(c)' = Loud(c)
      BY <2>1 DEF Loud, Depth
    <3> QED
      BY <1>2, <1>4, <1>5, <3>1, <3>2
  <2>2. ASSUME NEW f, Open(c, f), f.quiet, UNCHANGED told
        PROVE told'[c].start = told'[c].complete + told'[c].error + Cardinality(Loud(c)')
    <3>1. Cardinality(Loud(c)') = n + 0
      BY <1>2, <2>2, OpenLoud
    <3> QED
      BY <1>2, <1>4, <1>5, <2>2, <3>1
  <2>3. ASSUME NEW f, Open(c, f), ~f.quiet, told' = [told EXCEPT ![c].start = @ + 1]
        PROVE told'[c].start = told'[c].complete + told'[c].error + Cardinality(Loud(c)')
    <3>1. Cardinality(Loud(c)') = n + 1
      BY <1>2, <2>3, OpenLoud
    <3>2. told'[c].start = s + 1 /\ told'[c].complete = m /\ told'[c].error = e
      BY <1>6, <2>3
    <3> QED
      BY <1>2, <1>4, <1>5, <3>1, <3>2
  <2> QED
    BY <1>7, <2>1, <2>2, <2>3, OpenStep
<1>8. CASE CopyMessage(c) \/ SetStateData(c) \/ BeginTask(c)
  <2>1. Loud(c)' = Loud(c)
    BY <1>8, CopyChange, StateDataChange, BeginChange, ChangeLoud
  <2>2. UNCHANGED told
    BY <1>8 DEF CopyMessage, SetStateData, BeginTask
  <2> QED
    BY <1>2, <1>4, <1>5, <2>1, <2>2
<1>9. CASE AnswerTask(c) \/ Fail(c)
  <2>1. ~Idle(c) /\ Closes(c)
    BY <1>9 DEF AnswerTask, Fail
  <2>2. CASE Top(c).quiet
    <3>1. UNCHANGED told
      BY <1>9, <2>2 DEF AnswerTask, Fail
    <3>2. Cardinality(Loud(c)') = n - 0
      BY <1>2, <2>1, <2>2, CloseLoud
    <3> QED
      BY <1>2, <1>4, <1>5, <3>1, <3>2
  <2>3. CASE ~Top(c).quiet
    <3>1. \/ told' = [told EXCEPT ![c].complete = @ + 1]
          \/ told' = [told EXCEPT ![c].error = @ + 1]
      BY <1>9, <2>3 DEF AnswerTask, Fail, Told
    <3>2. Cardinality(Loud(c)') = n - 1
      BY <1>2, <2>1, <2>3, CloseLoud
    <3>3. /\ told'[c].start = s
          /\ \/ told'[c].complete = m + 1 /\ told'[c].error = e
             \/ told'[c].complete = m /\ told'[c].error = e + 1
      BY <1>3, <1>4, <3>1 DEF HandoffTypeOK, Counts
    <3> QED
      BY <1>2, <1>4, <1>5, <3>2, <3>3
  <2> QED
    BY <2>2, <2>3
<1> QED
  BY <1>7, <1>8, <1>9 DEF HandoffStep

-----------------------------------------------------------------------------
LEMMA AliasStep ==
  ASSUME HandoffTypeOK, AliasesResolve, [HandoffNext]_handoffVars PROVE AliasesResolve'
<1>1. ASSUME NEW c \in Callers, HandoffStep(c) PROVE AliasesResolve'
  <2>1. UNCHANGED <<agents, aliases, overlap>>
    BY <1>1 DEF HandoffStep, HandOff, AutoRoute, HandOffByTool, CopyMessage, SetStateData, BeginTask,
                AnswerTask, Fail
  <2> QED
    BY <2>1 DEF AliasesResolve
<1>2. CASE SetAlias
  <2>1. naming \in Agents \X Aliases
    BY <1>2 DEF SetAlias, HandoffTypeOK
  <2>2. PICK a \in Agents, x \in Aliases : naming[1] = a /\ naming[2] = x
    BY <2>1
  <2>3. /\ aliases' = [aliases EXCEPT ![x] = a] /\ UNCHANGED agents
        /\ overlap' = IF a \in agents THEN overlap \ {x} ELSE overlap \cup {x}
    BY <1>2, <2>2 DEF SetAlias
  <2>4. aliases'[x] = a /\ \A y \in Aliases : y # x => aliases'[y] = aliases[y]
    BY <2>3 DEF HandoffTypeOK
  <2>5. /\ aliases'[x] \in agents' \/ x \in overlap'
        /\ \A y : y # x /\ y \in overlap => y \in overlap'
    BY <2>3, <2>4
  <2> QED
    BY <2>3, <2>4, <2>5 DEF AliasesResolve
<1>3. ASSUME NEW a \in Agents, Register(a) PROVE AliasesResolve'
  BY <1>3 DEF AliasesResolve, Register
<1>4. ASSUME NEW a \in Agents, Unregister(a) PROVE AliasesResolve'
  BY <1>4 DEF AliasesResolve, Unregister, HandoffTypeOK
<1>5. CASE UNCHANGED handoffVars
  BY <1>5 DEF AliasesResolve, handoffVars
<1> QED
  BY <1>1, <1>2, <1>3, <1>4, <1>5 DEF HandoffNext

LEMMA HandoffInvStep == HandoffInv /\ [HandoffNext]_handoffVars => HandoffInv'
<1> SUFFICES ASSUME HandoffInv, [HandoffNext]_handoffVars PROVE HandoffInv'
  OBVIOUS
<1>1. HandoffTypeOK /\ HandoffTypeOK' /\ Grows(turns, turns') /\ AliasesResolve'
  BY HandoffTypeStep, TurnsGrow, AliasStep DEF HandoffInv
<1>2. ASSUME NEW c \in Callers, HandoffStep(c)
      PROVE NestInv' /\ CopyInv' /\ AnsweredInv' /\ PassedOn' /\ ToldInv'
  BY <1>1, <1>2, NestStep, CopyStep, AnsweredStep, PassedStep, ToldStep DEF HandoffInv
<1>3. CASE UNCHANGED <<turns, previous, caller, stack, told, touched>>
  <2>1. NestInv'
    BY <1>3 DEF HandoffInv, NestInv, Nested, Depth
  <2>2. CopyInv'
    BY <1>3 DEF HandoffInv, CopyInv, Depth
  <2>3. AnsweredInv'
    BY <1>3 DEF HandoffInv, AnsweredInv, Idle
  <2>4. PassedOn'
    BY <1>3 DEF HandoffInv, PassedOn, Idle, Depth, Top
  <2>5. ToldInv'
    BY <1>3 DEF HandoffInv, ToldInv, Loud, Depth
  <2> QED
    BY <1>1, <2>1, <2>2, <2>3, <2>4, <2>5 DEF HandoffInv
<1> QED
  BY <1>1, <1>2, <1>3 DEF HandoffInv, HandoffNext, SetAlias, Register, Unregister, handoffVars

(* For any agents, aliases and lists of handoffs: a history that is handed  *)
(* over arrives whole and in order while others execute the same agents, a  *)
(* chain's step has the response before it unless another chain wrote over  *)
(* it, every start is told with its end, and an alias outlives its agent   *)
(* only if that was unregistered within RegisterWithAlias.                 *)
THEOREM HandoffsCorrect == HandoffSpec => []HandoffsHold
<1>1. HandoffInv => HandoffsHold
  <2> SUFFICES ASSUME HandoffInv PROVE HandoffsHold
    OBVIOUS
  <2>1. ASSUME NEW c \in Callers, NEW f \in Frames(c), f.at = "ready"
        PROVE Copied(f) /\ DOMAIN f.placed = DOMAIN f.source
    <3>1. PICK i \in 1 .. Depth(c) : f = stack[c][i]
      BY DEF Frames
    <3>2. CopiedIn(f, turns) /\ Len(f.placed) = Len(f.source)
      BY <2>1, <3>1 DEF HandoffInv, CopyInv, NestInv, Nested
    <3>3. stack[c] \in Seq(OpenHandoff) /\ i \in 1 .. Len(stack[c])
      BY <3>1 DEF HandoffInv, HandoffTypeOK, Depth
    <3>4. f \in OpenHandoff
      BY <3>1, <3>3
    <3>5. f.placed \in Seq(Nat) /\ f.source \in Seq(Utterance)
      BY <3>4 DEF OpenHandoff
    <3> QED
      BY <3>2, <3>5 DEF CopiedIn, Copied
  <2>2. HandoffsAreFaithful
    BY <2>1 DEF HandoffInv, PassedOn, ToldInv, HandoffsAreFaithful
  <2> QED
    BY <2>2 DEF HandoffInv, HandoffsHold
<1> QED
  BY <1>1, InitHandoffInv, HandoffInvStep, PTL DEF HandoffSpec
=============================================================================
