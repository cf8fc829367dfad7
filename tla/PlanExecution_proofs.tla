------------------------ MODULE PlanExecution_proofs ------------------------
(***************************************************************************)
(* Safety of the plan strategy, of its store, of the reasoning strategy    *)
(* and of the review of a plan, for any number of calls, users, steps and  *)
(* plans.                                                                  *)
(*                                                                         *)
(* The store: as long as the last write of a plan began alone, whoever is  *)
(* between store and cache carries what the store holds, so that the order *)
(* in which they reach the cache does not matter.                          *)
(* The strategy: the goroutines of a round keep to it (wg.Wait), one that  *)
(* asks has not completed its step, and who appends alone has read the     *)
(* slice as it still is.                                                   *)
(* Reasoning (ReactStrategy): whoever works and has met nobody works alone *)
(* and has appended as many traces as its place in its iterations says.    *)
(* Review (PlanReview): what the search has left behind without a cycle    *)
(* can be put in order, and a step it finds on its stack waits for itself. *)
(***************************************************************************)
EXTENDS PlanExecution, ReactStrategy, PlanReview, SequenceTheorems, FiniteSetTheorems,
        TLAPS

(* Whoever is on the way to the cache carries what the store holds. *)
CarryInv == \A p \in Plans : p \notin overlapped =>
              \A k \in Between(p) : op[k].content = stored[p]

(* A step whose goroutine asks is neither complete nor pending. *)
AskInv == \A c \in Calls, i \in Steps : worker[c][i] = "asking" => status[c][i] = "running"

(* Without overlaps, one goroutine appends at a time, to what is there. *)
AppendInv == \A c \in Calls \ lost : \A i \in Steps : worker[c][i] = "appending" =>
               /\ seen[c][i] = steps[c]
               /\ \A j \in Steps : worker[c][j] = "appending" => j = i

HistoryInv == ~missed => \A c \in Calls : pc[c] = "recording" =>
                /\ read[c] = history
                /\ \A d \in Calls : pc[d] = "recording" => d = c

(* A call that plans anew has an attempt left. *)
BudgetInv == \A c \in Calls : pc[c] = "replanning" => attempts[c] < MaxReplan

StoreInv == PlanStoreTypeOK /\ CarryInv /\ CacheAgrees
WorkInv  == RoundsAreClosed /\ AskInv /\ AppendInv
IInv     == /\ TypeOK /\ StoreInv /\ WorkInv /\ HistoryInv /\ BudgetInv
            /\ CompletedIsDone /\ NothingForgotten

-----------------------------------------------------------------------------
(* The store on its own. *)
LEMMA StoreSaveInv ==
  ASSUME StoreInv, NEW k \in Clients, NEW p \in Plans, NEW r \in Revisions, StoreSave(k, p, r)
  PROVE  StoreInv'
<1>1. PlanStoreTypeOK'
  BY DEF StoreInv, PlanStoreTypeOK, StoreSave, Content, Ops, Overlaps
<1>2. ASSUME NEW q \in Plans, q \notin overlapped'
      PROVE  /\ \A j \in Between(q)' : op'[j].content = stored'[q]
             /\ Writing(q)' = {} => cache'[q] \in {None, stored'[q]}
  <2>1. CASE q = p
    <3>1. Between(p) = {}
      BY <1>2, <2>1 DEF StoreSave, Overlaps
    <3>2. \A j \in Between(p)' : j = k
      BY <3>1 DEF Between, StoreSave, StoreInv, PlanStoreTypeOK
    <3>3. k \in Writing(p)'
      BY DEF Writing, Between, StoreSave, StoreInv, PlanStoreTypeOK
    <3>4. op'[k].content = stored'[p]
      BY DEF StoreSave, StoreInv, PlanStoreTypeOK
    <3>5. QED
      BY <2>1, <3>2, <3>3, <3>4
  <2>2. CASE q # p
    <3>1. q \notin overlapped /\ stored'[q] = stored[q] /\ cache' = cache
      BY <1>2, <2>2 DEF StoreSave, Overlaps, StoreInv, PlanStoreTypeOK
    <3>2. Between(q)' = Between(q) /\ Writing(q)' = Writing(q)
      BY <2>2 DEF Between, Writing, StoreSave, StoreInv, PlanStoreTypeOK, Idle
    <3>3. \A j \in Between(q) : op'[j] = op[j]
      BY DEF Between, StoreSave, StoreInv, PlanStoreTypeOK, Idle
    <3>4. QED
      BY <3>1, <3>2, <3>3 DEF StoreInv, CarryInv, CacheAgrees
  <2>3. QED
    BY <2>1, <2>2
<1>3. QED
  BY <1>1, <1>2 DEF StoreInv, CarryInv, CacheAgrees

LEMMA StoreDeleteInv ==
  ASSUME StoreInv, NEW k \in Clients, NEW p \in Plans, StoreDelete(k, p)
  PROVE  StoreInv'
<1>1. PlanStoreTypeOK'
  BY DEF StoreInv, PlanStoreTypeOK, StoreDelete, Content, Ops, Overlaps
<1>2. ASSUME NEW q \in Plans, q \notin overlapped'
      PROVE  /\ \A j \in Between(q)' : op'[j].content = stored'[q]
             /\ Writing(q)' = {} => cache'[q] \in {None, stored'[q]}
  <2>1. CASE q = p
    <3>1. Between(p) = {}
      BY <1>2, <2>1 DEF StoreDelete, Overlaps
    <3>2. \A j \in Between(p)' : j = k
      BY <3>1 DEF Between, StoreDelete, StoreInv, PlanStoreTypeOK
    <3>3. k \in Writing(p)'
      BY DEF Writing, Between, StoreDelete, StoreInv, PlanStoreTypeOK
    <3>4. op'[k].content = stored'[p]
      BY DEF StoreDelete, StoreInv, PlanStoreTypeOK
    <3>5. QED
      BY <2>1, <3>2, <3>3, <3>4
  <2>2. CASE q # p
    <3>1. q \notin overlapped /\ stored'[q] = stored[q] /\ cache' = cache
      BY <1>2, <2>2 DEF StoreDelete, Overlaps, StoreInv, PlanStoreTypeOK
    <3>2. Between(q)' = Between(q) /\ Writing(q)' = Writing(q)
      BY <2>2 DEF Between, Writing, StoreDelete, StoreInv, PlanStoreTypeOK, Idle
    <3>3. \A j \in Between(q) : op'[j] = op[j]
      BY DEF Between, StoreDelete, StoreInv, PlanStoreTypeOK, Idle
    <3>4. QED
      BY <3>1, <3>2, <3>3 DEF StoreInv, CarryInv, CacheAgrees
  <2>3. QED
    BY <2>1, <2>2
<1>3. QED
  BY <1>1, <1>2 DEF StoreInv, CarryInv, CacheAgrees

(* The cache's part of an operation: the plan's entry becomes what the     *)
(* operation carries, or an entry goes.                                    *)
LEMMA CacheStepInv ==
  ASSUME StoreInv, NEW k \in Clients, CacheStep(k)
  PROVE  StoreInv'
<1> DEFINE p == op[k].plan
<1>1. /\ op[k].kind \in {"save", "load", "delete"}
      /\ k \in Between(p)
      /\ p \in Plans /\ op[k].content \in Content
      /\ op' = [op EXCEPT ![k] = Idle]
      /\ stored' = stored /\ overlapped' = overlapped
  <2>1. op[k].kind \in {"save", "load", "delete"}
    BY DEF CacheStep, CacheSave, CacheLoad, CacheDelete
  <2>2. op[k] \in Ops
    BY DEF StoreInv, PlanStoreTypeOK
  <2>3. p \in Plans /\ op[k].content \in Content
    BY <2>1, <2>2 DEF Ops, Idle, Content
  <2>4. k \in Between(p)
    BY <2>1 DEF Between
  <2>5. op' = [op EXCEPT ![k] = Idle] /\ stored' = stored /\ overlapped' = overlapped
    BY DEF CacheStep, CacheSave, CacheLoad, CacheDelete
  <2>6. QED
    BY <2>1, <2>3, <2>4, <2>5
<1>2. \A q \in Plans : cache'[q] \in {cache[q], None} \/ (q = p /\ cache'[q] = op[k].content)
  <2> SUFFICES ASSUME NEW q \in Plans
               PROVE  cache'[q] \in {cache[q], None} \/ (q = p /\ cache'[q] = op[k].content)
    OBVIOUS
  <2>0. cache \in [Plans -> Content]
    BY DEF StoreInv, PlanStoreTypeOK
  <2>1. CASE CacheSave(k)
    <3> DEFINE full == [cache EXCEPT ![p] = op[k].content]
    <3>1. full[q] = cache[q] \/ (q = p /\ full[q] = op[k].content)
      BY <1>1, <2>0
    <3>2. cache' = full \/ \E oldest \in Plans \ {p} : cache' = [full EXCEPT ![oldest] = None]
      BY <2>1 DEF CacheSave, Cached
    <3>3. QED
      BY <1>1, <2>0, <3>1, <3>2
  <2>2. CASE CacheLoad(k)
    BY <1>1, <2>0, <2>2 DEF CacheLoad
  <2>3. CASE CacheDelete(k)
    BY <1>1, <2>0, <2>3 DEF CacheDelete
  <2>4. QED
    BY <2>1, <2>2, <2>3 DEF CacheStep
<1>3. cache' \in [Plans -> Content]
  <2>1. CASE CacheSave(k)
    BY <1>1, <2>1 DEF CacheSave, StoreInv, PlanStoreTypeOK, Content
  <2>2. CASE CacheLoad(k) \/ CacheDelete(k)
    BY <1>1, <2>2 DEF CacheLoad, CacheDelete, StoreInv, PlanStoreTypeOK, Content
  <2>3. QED
    BY <2>1, <2>2 DEF CacheStep
<1>4. PlanStoreTypeOK'
  BY <1>1, <1>3 DEF StoreInv, PlanStoreTypeOK, Ops
<1>5. ASSUME NEW q \in Plans, q \notin overlapped
      PROVE  /\ \A j \in Between(q)' : op'[j].content = stored[q]
             /\ Writing(q)' = {} => cache'[q] \in {None, stored[q]}
  <2>1. \A j \in Between(q)' : j \in Between(q) /\ op'[j] = op[j]
    BY <1>1 DEF Between, StoreInv, PlanStoreTypeOK, Idle
  <2>2. CASE q = p
    <3>1. op[k].content = stored[q]
      BY <1>1, <1>5, <2>2 DEF StoreInv, CarryInv
    <3>2. cache'[q] \in {None, stored[q]}
      <4>1. CASE CacheSave(k)
        <5> DEFINE full == [cache EXCEPT ![p] = op[k].content]
        <5>1. cache' = full \/ \E oldest \in Plans \ {p} : cache' = [full EXCEPT ![oldest] = None]
          BY <4>1 DEF CacheSave, Cached
        <5>2. full[q] = stored[q]
          BY <1>1, <2>2, <3>1 DEF StoreInv, PlanStoreTypeOK
        <5>3. DOMAIN full = Plans
          BY DEF StoreInv, PlanStoreTypeOK
        <5> HIDE DEF full
        <5>4. QED
          BY <5>1, <5>2, <5>3, <2>2
      <4>2. CASE CacheLoad(k)
        BY <1>1, <2>2, <3>1, <4>2 DEF CacheLoad, StoreInv, PlanStoreTypeOK
      <4>3. CASE CacheDelete(k)
        BY <1>1, <2>2, <3>1, <4>3 DEF CacheDelete, StoreInv, PlanStoreTypeOK
      <4>4. QED
        BY <4>1, <4>2, <4>3 DEF CacheStep
    <3>3. QED
      BY <1>5, <2>1, <3>2 DEF StoreInv, CarryInv
  <2>3. CASE q # p
    <3>1. Writing(q)' = Writing(q)
      BY <1>1, <2>3 DEF Writing, Between, StoreInv, PlanStoreTypeOK, Idle
    <3>2. QED
      BY <1>2, <1>5, <2>1, <2>3, <3>1 DEF StoreInv, CarryInv, CacheAgrees
  <2>4. QED
    BY <2>2, <2>3
<1>6. QED
  BY <1>1, <1>4, <1>5 DEF StoreInv, CarryInv, CacheAgrees

LEMMA LoadInv ==
  ASSUME StoreInv, NEW k \in Clients, StoreLoad(k) \/ \E p \in Plans : Miss(k, p)
  PROVE  StoreInv'
<1>1. stored' = stored /\ cache' = cache /\ overlapped' = overlapped
  BY DEF StoreLoad, Miss
<1>2. PlanStoreTypeOK'
  BY <1>1 DEF StoreInv, PlanStoreTypeOK, StoreLoad, Miss, Ops, Content, Idle
<1>3. ASSUME NEW q \in Plans
      PROVE  /\ \A j \in Between(q)' : (j \in Between(q) /\ op'[j] = op[j]) \/ op'[j].content = stored[q]
             /\ Writing(q)' = Writing(q)
  BY DEF Between, Writing, StoreLoad, Miss, StoreInv, PlanStoreTypeOK, Ops, Idle
<1>4. QED
  BY <1>1, <1>2, <1>3 DEF StoreInv, CarryInv, CacheAgrees

LEMMA ClearInv == ASSUME StoreInv, ClearCache PROVE StoreInv'
BY DEF StoreInv, PlanStoreTypeOK, CarryInv, CacheAgrees, ClearCache, Between, Writing, Content

LEMMA StoreUnchanged == ASSUME StoreInv, UNCHANGED planStore PROVE StoreInv'
BY DEF StoreInv, PlanStoreTypeOK, CarryInv, CacheAgrees, planStore, Between, Writing

-----------------------------------------------------------------------------
(* The strategy. *)
LEMMA InitInv == PEAssumption /\ Init => IInv
<1> SUFFICES ASSUME PEAssumption, Init PROVE IInv
  OBVIOUS
<1>1. PlanStoreTypeOK /\ CarryInv /\ CacheAgrees
  BY DEF Init, PlanStoreInit, PlanStoreTypeOK, Content, Ops, CarryInv, CacheAgrees, Between, Idle
<1>2. attempts \in [Calls -> 0 .. MaxReplan]
  BY DEF Init, PEAssumption
<1>3. /\ pc \in [Calls -> Stages]
      /\ deps \in [Calls -> Shapes \union {<<>>}]
      /\ current \in Plans \union {NoPlan}
      /\ saves \in BOOLEAN
  BY DEF Init, Stages, NoPlan
<1>4. /\ status \in [Calls -> [Steps -> {"pending", "running", "completed", "failed"}]]
      /\ planStatus \in [Calls -> {"pending", "in_progress", "completed", "failed"}]
      /\ worker \in [Calls -> [Steps -> {"off", "asking", "appending", "marking", "ok", "failed"}]]
  BY DEF Init
<1>5. /\ seen \in [Calls -> [Steps -> SUBSET (Versions \X Steps)]]
      /\ steps \in [Calls -> SUBSET (Versions \X Steps)]
      /\ history \in SUBSET Plans /\ read \in [Calls -> SUBSET Plans]
      /\ expired \in SUBSET Calls /\ lost \in SUBSET Calls
      /\ crashed \in BOOLEAN /\ missed \in BOOLEAN
  BY DEF Init
<1>6. TypeOK
  BY <1>1, <1>2, <1>3, <1>4, <1>5 DEF TypeOK
<1>7. QED
  BY <1>1, <1>6 DEF Init, IInv, StoreInv, WorkInv, RoundsAreClosed, AskInv, AppendInv, HistoryInv,
     BudgetInv, CompletedIsDone, NothingForgotten, Completed, StepsOf

LEMMA PlanInStore ==
  ASSUME PEAssumption, TypeOK, NEW c \in Calls
  PROVE  PlanOf(c) \in Plans
BY DEF PEAssumption, TypeOK, PlanOf, Versions

(* One lemma for each action of a call. *)
LEMMA BeginInv == ASSUME PEAssumption, IInv, NEW c \in Calls, Begin(c) PROVE IInv'
<1>1. StoreInv'
  BY StoreUnchanged DEF IInv, Begin, Goto, plan, record, shared
<1>2. TypeOK'
  BY <1>1 DEF IInv, StoreInv, TypeOK, Begin, Goto, plan, record, shared, Stages
<1>3. WorkInv'
  BY DEF IInv, TypeOK, Begin, Goto, plan, record, shared, WorkInv, RoundsAreClosed, AskInv, AppendInv,
     Completed, StepsOf
<1>4. HistoryInv'
  BY DEF IInv, TypeOK, Begin, Goto, plan, record, shared, HistoryInv
<1>5. BudgetInv'
  BY DEF IInv, TypeOK, Begin, Goto, plan, record, shared, BudgetInv
<1>6. CompletedIsDone'
  BY DEF IInv, TypeOK, Begin, Goto, plan, record, shared, CompletedIsDone, Completed, StepsOf
<1>7. NothingForgotten'
  BY DEF IInv, TypeOK, Begin, Goto, plan, record, shared, NothingForgotten, Completed, StepsOf, PlanOf
<1>8. QED
  BY <1>1, <1>2, <1>3, <1>4, <1>5, <1>6, <1>7 DEF IInv

LEMMA CreatePlanInv == ASSUME PEAssumption, IInv, NEW c \in Calls, CreatePlan(c) PROVE IInv'
<1>0. \A i \in Steps : worker[c][i] = "off"
  BY DEF IInv, WorkInv, RoundsAreClosed, CreatePlan
<1>1. StoreInv'
  BY StoreUnchanged DEF IInv, CreatePlan, NewPlan
<1>2. TypeOK'
  <2>0. PICK sh \in Shapes : deps' = [deps EXCEPT ![c] = sh]
    BY DEF CreatePlan, NewPlan
  <2>1. deps' \in [Calls -> Shapes \union {<<>>}] /\ pc' \in [Calls -> Stages]
    BY <2>0 DEF IInv, TypeOK, Stages, CreatePlan, NewPlan, Goto
  <2>2. attempts' \in [Calls -> 0 .. MaxReplan]
    BY DEF IInv, TypeOK, BudgetInv, PEAssumption, CreatePlan
  <2>3. PlanOf(c) \in Plans
    BY DEF IInv, TypeOK, BudgetInv, PEAssumption, Versions, PlanOf, CreatePlan
  <2>4. current' \in Plans \union {NoPlan} /\ history' \in SUBSET Plans /\ read' \in [Calls -> SUBSET Plans]
        /\ missed' \in BOOLEAN
    BY <2>3 DEF IInv, TypeOK, CreatePlan, Publish
  <2>5. /\ status' \in [Calls -> [Steps -> {"pending", "running", "completed", "failed"}]]
        /\ planStatus' \in [Calls -> {"pending", "in_progress", "completed", "failed"}]
    BY DEF IInv, TypeOK, CreatePlan, NewPlan
  <2>6. worker' = worker /\ record' = record /\ expired' = expired /\ saves' = saves /\ crashed' = crashed
    BY DEF CreatePlan, NewPlan, record
  <2>7. QED
    BY <1>1, <2>1, <2>2, <2>4, <2>5, <2>6 DEF IInv, TypeOK, StoreInv, record
<1>3. WorkInv'
  BY <1>0 DEF IInv, TypeOK, CreatePlan, NewPlan, Goto, record, WorkInv, RoundsAreClosed, AskInv, AppendInv,
     Completed, StepsOf
<1>4. HistoryInv'
  BY DEF IInv, TypeOK, CreatePlan, NewPlan, Goto, Publish, HistoryInv
<1>5. BudgetInv'
  BY DEF IInv, TypeOK, CreatePlan, NewPlan, Goto, Publish, BudgetInv
<1>6. CompletedIsDone'
  BY DEF IInv, TypeOK, CreatePlan, NewPlan, Goto, Publish, CompletedIsDone, Completed, StepsOf
<1>7. NothingForgotten'
  <2>1. \A d \in Calls : Completed(d)' = (IF d = c THEN {} ELSE Completed(d))
    BY DEF IInv, TypeOK, Completed, StepsOf, CreatePlan, NewPlan
  <2>2. \A d \in Calls : d # c => PlanOf(d)' = PlanOf(d) /\ attempts'[d] = attempts[d] /\ pc'[d] = pc[d]
    BY DEF IInv, TypeOK, PlanOf, CreatePlan, NewPlan, Goto
  <2>3. pc'[c] = "recording" /\ history' = history /\ (missed => missed')
    BY DEF IInv, TypeOK, CreatePlan, NewPlan, Goto, Publish
  <2>4. QED
    BY <2>1, <2>2, <2>3 DEF IInv, NothingForgotten, CreatePlan, NewPlan, record
<1>8. QED
  BY <1>1, <1>2, <1>3, <1>4, <1>5, <1>6, <1>7 DEF IInv

LEMMA ReplanInv == ASSUME PEAssumption, IInv, NEW c \in Calls, Replan(c) PROVE IInv'
<1>0. \A i \in Steps : worker[c][i] = "off"
  BY DEF IInv, WorkInv, RoundsAreClosed, Replan
<1>1. StoreInv'
  BY StoreUnchanged DEF IInv, Replan, NewPlan
<1>2. TypeOK'
  <2>0. PICK sh \in Shapes : deps' = [deps EXCEPT ![c] = sh]
    BY DEF Replan, NewPlan
  <2>1. deps' \in [Calls -> Shapes \union {<<>>}] /\ pc' \in [Calls -> Stages]
    BY <2>0 DEF IInv, TypeOK, Stages, Replan, NewPlan, Goto
  <2>2. attempts' \in [Calls -> 0 .. MaxReplan]
    BY DEF IInv, TypeOK, BudgetInv, PEAssumption, Replan
  <2>3. <<c, attempts[c] + 2>> \in Plans
    BY DEF IInv, TypeOK, BudgetInv, PEAssumption, Versions, Replan
  <2>4. current' \in Plans \union {NoPlan} /\ history' \in SUBSET Plans /\ read' \in [Calls -> SUBSET Plans]
        /\ missed' \in BOOLEAN
    BY <2>3 DEF IInv, TypeOK, Replan, Publish
  <2>5. /\ status' \in [Calls -> [Steps -> {"pending", "running", "completed", "failed"}]]
        /\ planStatus' \in [Calls -> {"pending", "in_progress", "completed", "failed"}]
    BY DEF IInv, TypeOK, Replan, NewPlan
  <2>6. worker' = worker /\ record' = record /\ expired' = expired /\ saves' = saves /\ crashed' = crashed
    BY DEF Replan, NewPlan, record
  <2>7. QED
    BY <1>1, <2>1, <2>2, <2>4, <2>5, <2>6 DEF IInv, TypeOK, StoreInv, record
<1>3. WorkInv'
  BY <1>0 DEF IInv, TypeOK, Replan, NewPlan, Goto, record, WorkInv, RoundsAreClosed, AskInv, AppendInv,
     Completed, StepsOf
<1>4. HistoryInv'
  BY DEF IInv, TypeOK, Replan, NewPlan, Goto, Publish, HistoryInv
<1>5. BudgetInv'
  BY DEF IInv, TypeOK, Replan, NewPlan, Goto, Publish, BudgetInv
<1>6. CompletedIsDone'
  BY DEF IInv, TypeOK, Replan, NewPlan, Goto, Publish, CompletedIsDone, Completed, StepsOf
<1>7. NothingForgotten'
  <2>1. \A d \in Calls : Completed(d)' = (IF d = c THEN {} ELSE Completed(d))
    BY DEF IInv, TypeOK, Completed, StepsOf, Replan, NewPlan
  <2>2. \A d \in Calls : d # c => PlanOf(d)' = PlanOf(d) /\ attempts'[d] = attempts[d] /\ pc'[d] = pc[d]
    BY DEF IInv, TypeOK, PlanOf, Replan, NewPlan, Goto
  <2>3. pc'[c] = "recording" /\ history' = history /\ (missed => missed')
    BY DEF IInv, TypeOK, Replan, NewPlan, Goto, Publish
  <2>4. QED
    BY <2>1, <2>2, <2>3 DEF IInv, NothingForgotten, Replan, NewPlan, record
<1>8. QED
  BY <1>1, <1>2, <1>3, <1>4, <1>5, <1>6, <1>7 DEF IInv

LEMMA PlanningFailsInv == ASSUME PEAssumption, IInv, NEW c \in Calls, PlanningFails(c) PROVE IInv'
<1>1. StoreInv'
  BY StoreUnchanged DEF IInv, PlanningFails, Goto, plan, record, shared
<1>2. TypeOK'
  BY <1>1 DEF IInv, StoreInv, TypeOK, PlanningFails, Goto, plan, record, shared, Stages
<1>3. WorkInv'
  BY DEF IInv, TypeOK, PlanningFails, Goto, plan, record, shared, WorkInv, RoundsAreClosed, AskInv, AppendInv,
     Completed, StepsOf
<1>4. HistoryInv'
  BY DEF IInv, TypeOK, PlanningFails, Goto, plan, record, shared, HistoryInv
<1>5. BudgetInv'
  BY DEF IInv, TypeOK, PlanningFails, Goto, plan, record, shared, BudgetInv
<1>6. CompletedIsDone'
  BY DEF IInv, TypeOK, PlanningFails, Goto, plan, record, shared, CompletedIsDone, Completed, StepsOf
<1>7. NothingForgotten'
  BY DEF IInv, TypeOK, PlanningFails, Goto, plan, record, shared, NothingForgotten, Completed, StepsOf, PlanOf
<1>8. QED
  BY <1>1, <1>2, <1>3, <1>4, <1>5, <1>6, <1>7 DEF IInv

LEMMA RecordInv == ASSUME PEAssumption, IInv, NEW c \in Calls, Record(c) PROVE IInv'
<1>1. StoreInv'
  BY StoreUnchanged DEF IInv, Record, Goto, plan, record
<1>2. TypeOK'
  BY <1>1, PlanInStore DEF IInv, StoreInv, TypeOK, Record, Goto, plan, record, Stages
<1>3. WorkInv'
  BY DEF IInv, TypeOK, Record, Goto, plan, record, WorkInv, RoundsAreClosed, AskInv, AppendInv,
     Completed, StepsOf
<1>4. HistoryInv'
  BY DEF IInv, TypeOK, Record, Goto, HistoryInv
<1>5. BudgetInv'
  BY DEF IInv, TypeOK, Record, Goto, plan, record, BudgetInv
<1>6. CompletedIsDone'
  BY DEF IInv, TypeOK, Record, Goto, plan, record, CompletedIsDone, Completed, StepsOf
<1>7. NothingForgotten'
  <2>0. \A d \in Calls : d # c => pc'[d] = pc[d]
    BY DEF IInv, TypeOK, Record, Goto
  <2>1. \A d \in Calls : Completed(d)' = Completed(d) /\ PlanOf(d)' = PlanOf(d)
    BY DEF Record, plan, Completed, StepsOf, PlanOf
  <2>2. missed' = missed /\ (~missed => history \subseteq history')
    BY DEF IInv, HistoryInv, Record
  <2>3. PlanOf(c) \in history'
    BY DEF Record
  <2>4. /\ attempts' = attempts /\ worker' = worker /\ steps' = steps /\ lost' = lost
        /\ pc[c] = "recording"
    BY DEF Record, plan, record
  <2>5. ASSUME NEW d \in Calls \ lost, NEW i \in Steps, i \in Completed(d), worker[d][i] # "appending"
        PROVE  <<attempts[d] + 1, i>> \in steps[d]
    BY <2>5 DEF IInv, NothingForgotten
  <2>6. ASSUME ~missed, NEW d \in Calls,
               pc'[d] \in {"saving", "deciding", "executing", "incomplete", "completed"}
        PROVE  PlanOf(d) \in history'
    <3>1. CASE d = c
      BY <2>3, <3>1
    <3>2. CASE d # c
      <4>1. pc'[d] = pc[d] /\ history \subseteq history'
        BY <2>0, <2>2, <2>6, <3>2
      <4>2. PlanOf(d) \in history
        BY <2>6, <4>1 DEF IInv, NothingForgotten
      <4>3. QED
        BY <4>1, <4>2
    <3>3. QED
      BY <3>1, <3>2
  <2>7. \A d \in Calls \ lost', i \in Steps : i \in Completed(d)' /\ worker'[d][i] # "appending"
          => <<attempts'[d] + 1, i>> \in steps'[d]
    BY <2>1, <2>4, <2>5
  <2>8. ~missed' => \A d \in Calls : pc'[d] \in {"saving", "deciding", "executing", "incomplete", "completed"}
          => PlanOf(d)' \in history'
    BY <2>1, <2>2, <2>6
  <2>9. QED
    BY <2>7, <2>8 DEF NothingForgotten
<1>8. QED
  BY <1>1, <1>2, <1>3, <1>4, <1>5, <1>6, <1>7 DEF IInv

LEMMA SaveFailsInv == ASSUME PEAssumption, IInv, NEW c \in Calls, SaveFails(c) PROVE IInv'
<1>1. StoreInv'
  BY StoreUnchanged DEF IInv, SaveFails, Goto, plan, record, shared
<1>2. TypeOK'
  BY <1>1 DEF IInv, StoreInv, TypeOK, SaveFails, Goto, plan, record, shared, Stages
<1>3. WorkInv'
  BY DEF IInv, TypeOK, SaveFails, Goto, plan, record, shared, WorkInv, RoundsAreClosed, AskInv, AppendInv,
     Completed, StepsOf
<1>4. HistoryInv'
  BY DEF IInv, TypeOK, SaveFails, Goto, plan, record, shared, HistoryInv
<1>5. BudgetInv'
  BY DEF IInv, TypeOK, SaveFails, Goto, plan, record, shared, BudgetInv
<1>6. CompletedIsDone'
  BY DEF IInv, TypeOK, SaveFails, Goto, plan, record, shared, CompletedIsDone, Completed, StepsOf
<1>7. NothingForgotten'
  BY DEF IInv, TypeOK, SaveFails, Goto, plan, record, shared, NothingForgotten, Completed, StepsOf, PlanOf
<1>8. QED
  BY <1>1, <1>2, <1>3, <1>4, <1>5, <1>6, <1>7 DEF IInv

LEMMA DecideInv == ASSUME PEAssumption, IInv, NEW c \in Calls, Decide(c) PROVE IInv'
<1>1. StoreInv'
  BY StoreUnchanged DEF IInv, Decide, Goto, record, shared
<1>2. TypeOK'
  BY <1>1 DEF IInv, StoreInv, TypeOK, Decide, Goto, record, shared, Stages
<1>3. WorkInv'
  BY DEF IInv, TypeOK, Decide, Goto, record, shared, WorkInv, RoundsAreClosed, AskInv, AppendInv,
     Completed, StepsOf
<1>4. HistoryInv'
  BY DEF IInv, TypeOK, Decide, Goto, record, shared, HistoryInv
<1>5. BudgetInv'
  BY DEF IInv, TypeOK, Decide, Goto, record, shared, BudgetInv
<1>6. CompletedIsDone'
  BY DEF IInv, TypeOK, Decide, Goto, record, shared, CompletedIsDone, Completed, StepsOf
<1>7. NothingForgotten'
  BY DEF IInv, TypeOK, Decide, Goto, record, shared, NothingForgotten, Completed, StepsOf, PlanOf
<1>8. QED
  BY <1>1, <1>2, <1>3, <1>4, <1>5, <1>6, <1>7 DEF IInv

LEMMA BeginRoundInv == ASSUME PEAssumption, IInv, NEW c \in Calls, BeginRound(c) PROVE IInv'
<1>1. StoreInv'
  BY StoreUnchanged DEF IInv, BeginRound, record, shared
<1>2. TypeOK'
  BY <1>1 DEF IInv, StoreInv, TypeOK, BeginRound, record, shared, Stages
<1>3. WorkInv'
  <2>1. ASSUME NEW d \in Calls, d # c
        PROVE  deps'[d] = deps[d] /\ status'[d] = status[d] /\ worker'[d] = worker[d]
    <3>1. deps' = deps
      BY DEF BeginRound
    <3>2. status'[d] = status[d]
      BY <2>1 DEF IInv, TypeOK, BeginRound
    <3>3. worker'[d] = worker[d]
      BY <2>1 DEF IInv, TypeOK, BeginRound
    <3>4. QED
      BY <3>1, <3>2, <3>3
  <2>2. Completed(c)' = Completed(c)
    <3>0. DOMAIN <<>> = {}
      OBVIOUS
    <3>1. deps' = deps /\ StepsOf(c) \subseteq Steps
      BY <3>0 DEF IInv, TypeOK, BeginRound, StepsOf, PEAssumption
    <3>2. \A i \in Steps : status'[c][i] = IF i \in Ready(c) THEN "running" ELSE status[c][i]
      BY DEF IInv, TypeOK, BeginRound
    <3>3. \A i \in Ready(c) : status[c][i] = "pending"
      BY DEF Ready
    <3>4. QED
      BY <3>1, <3>2, <3>3 DEF Completed, StepsOf
  <2>3. \A i \in Steps : worker'[c][i] # "off" => i \in Ready(c) /\ worker'[c][i] = "asking" /\ status'[c][i] = "running"
    BY DEF IInv, TypeOK, BeginRound
  <2>4. RoundsAreClosed'
    BY <2>1, <2>2, <2>3 DEF IInv, WorkInv, RoundsAreClosed, BeginRound, Ready, Completed, StepsOf
  <2>5. AskInv' /\ AppendInv'
    BY <2>1, <2>3 DEF IInv, WorkInv, AskInv, AppendInv, BeginRound, record
  <2>6. QED
    BY <2>4, <2>5 DEF WorkInv
<1>4. HistoryInv'
  BY DEF IInv, TypeOK, BeginRound, record, shared, HistoryInv
<1>5. BudgetInv'
  BY DEF IInv, TypeOK, BeginRound, record, shared, BudgetInv
<1>6. CompletedIsDone'
  BY DEF IInv, TypeOK, BeginRound, record, shared, CompletedIsDone, Completed, StepsOf
<1>7. NothingForgotten'
  <2>1. ASSUME NEW d \in Calls, NEW i \in Steps, i \in Completed(d)'
        PROVE  /\ i \in Completed(d)
               /\ worker[d][i] # "appending" \/ (d # c /\ worker'[d][i] = worker[d][i])
    <3>1. CASE d = c
      <4>1. status'[c][i] = IF i \in Ready(c) THEN "running" ELSE status[c][i]
        BY DEF IInv, TypeOK, BeginRound
      <4>2. QED
        BY <2>1, <3>1, <4>1 DEF Completed, StepsOf, BeginRound, Quiet
    <3>2. CASE d # c
      <4>1. status'[d] = status[d]
        BY <3>2 DEF IInv, TypeOK, BeginRound
      <4>2. worker'[d] = worker[d]
        BY <3>2 DEF IInv, TypeOK, BeginRound
      <4>3. QED
        BY <2>1, <3>2, <4>1, <4>2 DEF Completed, StepsOf, BeginRound
    <3>3. QED
      BY <3>1, <3>2
  <2>2. QED
    BY <2>1 DEF IInv, NothingForgotten, BeginRound, record, shared, PlanOf
<1>8. QED
  BY <1>1, <1>2, <1>3, <1>4, <1>5, <1>6, <1>7 DEF IInv

LEMMA EndRoundInv == ASSUME PEAssumption, IInv, NEW c \in Calls, EndRound(c) PROVE IInv'
<1>1. StoreInv'
  BY StoreUnchanged DEF IInv, EndRound, Goto, record, shared
<1>2. TypeOK'
  BY <1>1 DEF IInv, StoreInv, TypeOK, EndRound, Goto, record, shared, Stages
<1>3. WorkInv'
  BY DEF IInv, TypeOK, EndRound, Goto, record, shared, WorkInv, RoundsAreClosed, AskInv, AppendInv,
     Completed, StepsOf
<1>4. HistoryInv'
  BY DEF IInv, TypeOK, EndRound, Goto, record, shared, HistoryInv
<1>5. BudgetInv'
  BY DEF IInv, TypeOK, EndRound, Goto, record, shared, BudgetInv
<1>6. CompletedIsDone'
  BY DEF IInv, TypeOK, EndRound, Goto, record, shared, CompletedIsDone, Completed, StepsOf
<1>7. NothingForgotten'
  <2>1. \A d \in Calls : Completed(d)' = Completed(d) /\ PlanOf(d)' = PlanOf(d)
    BY DEF IInv, TypeOK, EndRound, Completed, StepsOf, PlanOf
  <2>2. \A i \in Steps : worker[c][i] # "appending"
    BY DEF EndRound, Spent
  <2>3. \A d \in Calls : d # c => worker'[d] = worker[d] /\ pc'[d] = pc[d]
    BY DEF IInv, TypeOK, EndRound, Goto
  <2>4. QED
    BY <2>1, <2>2, <2>3 DEF IInv, NothingForgotten, EndRound, record, shared
<1>8. QED
  BY <1>1, <1>2, <1>3, <1>4, <1>5, <1>6, <1>7 DEF IInv

LEMMA PlanEndsInv == ASSUME PEAssumption, IInv, NEW c \in Calls, PlanEnds(c) PROVE IInv'
<1>1. StoreInv'
  BY StoreUnchanged DEF IInv, PlanEnds, Goto, record, shared
<1>2. TypeOK'
  BY <1>1 DEF IInv, StoreInv, TypeOK, PlanEnds, Goto, record, shared, Stages
<1>3. WorkInv'
  BY DEF IInv, TypeOK, PlanEnds, Goto, record, shared, WorkInv, RoundsAreClosed, AskInv, AppendInv,
     Completed, StepsOf, Quiet
<1>4. HistoryInv'
  BY DEF IInv, TypeOK, PlanEnds, Goto, record, shared, HistoryInv
<1>5. BudgetInv'
  BY DEF IInv, TypeOK, PlanEnds, Goto, record, shared, BudgetInv
<1>6. CompletedIsDone'
  <2>1. \A d \in Calls : Completed(d)' = Completed(d) /\ StepsOf(d)' = StepsOf(d)
    BY DEF IInv, TypeOK, PlanEnds, Completed, StepsOf
  <2>2. \A d \in Calls : d # c => pc'[d] = pc[d] /\ planStatus'[d] = planStatus[d]
    BY DEF IInv, TypeOK, PlanEnds, Goto
  <2>3. pc'[c] = "completed" => Completed(c) = StepsOf(c) /\ planStatus'[c] = "completed"
    BY DEF IInv, TypeOK, PlanEnds, Goto
  <2>4. QED
    BY <2>1, <2>2, <2>3 DEF IInv, CompletedIsDone
<1>7. NothingForgotten'
  BY DEF IInv, TypeOK, PlanEnds, Goto, record, shared, NothingForgotten, Completed, StepsOf, PlanOf
<1>8. QED
  BY <1>1, <1>2, <1>3, <1>4, <1>5, <1>6, <1>7 DEF IInv

LEMMA AfterFailureInv == ASSUME PEAssumption, IInv, NEW c \in Calls, AfterFailure(c) PROVE IInv'
<1>1. StoreInv'
  BY StoreUnchanged DEF IInv, AfterFailure, Goto, plan, record, shared
<1>2. TypeOK'
  BY <1>1 DEF IInv, StoreInv, TypeOK, AfterFailure, Goto, plan, record, shared, Stages
<1>3. WorkInv'
  BY DEF IInv, TypeOK, AfterFailure, Goto, plan, record, shared, WorkInv, RoundsAreClosed, AskInv, AppendInv,
     Completed, StepsOf
<1>4. HistoryInv'
  BY DEF IInv, TypeOK, AfterFailure, Goto, plan, record, shared, HistoryInv
<1>5. BudgetInv'
  BY DEF IInv, TypeOK, PEAssumption, AfterFailure, Goto, BudgetInv
<1>6. CompletedIsDone'
  BY DEF IInv, TypeOK, AfterFailure, Goto, plan, record, shared, CompletedIsDone, Completed, StepsOf
<1>7. NothingForgotten'
  BY DEF IInv, TypeOK, AfterFailure, Goto, plan, record, shared, NothingForgotten, Completed, StepsOf, PlanOf
<1>8. QED
  BY <1>1, <1>2, <1>3, <1>4, <1>5, <1>6, <1>7 DEF IInv

LEMMA StepFailsInv == ASSUME PEAssumption, IInv, NEW c \in Calls, NEW i \in Steps, StepFails(c, i) PROVE IInv'
<1>1. StoreInv'
  BY StoreUnchanged DEF IInv, StepFails, Worker, record, shared
<1>2. TypeOK'
  BY <1>1 DEF IInv, StoreInv, TypeOK, StepFails, Worker, record, shared, Stages
<1>3. WorkInv'
  BY DEF IInv, TypeOK, StepFails, Worker, record, shared, WorkInv, RoundsAreClosed, AskInv, AppendInv,
     Completed, StepsOf
<1>4. HistoryInv'
  BY DEF IInv, TypeOK, StepFails, Worker, record, shared, HistoryInv
<1>5. BudgetInv'
  BY DEF IInv, TypeOK, StepFails, Worker, record, shared, BudgetInv
<1>6. CompletedIsDone'
  <2>1. pc[c] # "completed"
    BY DEF IInv, WorkInv, RoundsAreClosed, StepFails, Worker
  <2>2. \A d \in Calls : d # c => Completed(d)' = Completed(d) /\ StepsOf(d)' = StepsOf(d)
    BY DEF IInv, TypeOK, StepFails, Completed, StepsOf
  <2>3. QED
    BY <2>1, <2>2 DEF IInv, CompletedIsDone, StepFails
<1>7. NothingForgotten'
  BY DEF IInv, TypeOK, StepFails, Worker, record, shared, NothingForgotten, Completed, StepsOf, PlanOf
<1>8. QED
  BY <1>1, <1>2, <1>3, <1>4, <1>5, <1>6, <1>7 DEF IInv

LEMMA StepAnswersInv == ASSUME PEAssumption, IInv, NEW c \in Calls, NEW i \in Steps, StepAnswers(c, i) PROVE IInv'
<1>1. StoreInv'
  BY StoreUnchanged DEF IInv, StepAnswers, Worker, shared
<1>2. TypeOK'
  BY <1>1 DEF IInv, StoreInv, TypeOK, StepAnswers, Worker, shared, Stages, Versions
<1>3. WorkInv'
  BY DEF IInv, TypeOK, StepAnswers, Worker, shared, WorkInv, RoundsAreClosed, AskInv, AppendInv,
     Completed, StepsOf
<1>4. HistoryInv'
  BY DEF IInv, TypeOK, StepAnswers, Worker, shared, HistoryInv
<1>5. BudgetInv'
  BY DEF IInv, TypeOK, StepAnswers, Worker, shared, BudgetInv
<1>6. CompletedIsDone'
  <2>1. pc[c] # "completed"
    BY DEF IInv, WorkInv, RoundsAreClosed, StepAnswers, Worker
  <2>2. \A d \in Calls : d # c => Completed(d)' = Completed(d) /\ StepsOf(d)' = StepsOf(d)
    BY DEF IInv, TypeOK, StepAnswers, Completed, StepsOf
  <2>3. QED
    BY <2>1, <2>2 DEF IInv, CompletedIsDone, StepAnswers
<1>7. NothingForgotten'
  BY DEF IInv, TypeOK, StepAnswers, Worker, shared, NothingForgotten, Completed, StepsOf, PlanOf
<1>8. QED
  BY <1>1, <1>2, <1>3, <1>4, <1>5, <1>6, <1>7 DEF IInv

LEMMA AppendStepInv == ASSUME PEAssumption, IInv, NEW c \in Calls, NEW i \in Steps, AppendStep(c, i) PROVE IInv'
<1>1. StoreInv'
  BY StoreUnchanged DEF IInv, AppendStep, Worker, shared
<1>2. TypeOK'
  BY <1>1 DEF IInv, StoreInv, TypeOK, AppendStep, Worker, shared, Stages, Versions, PEAssumption
<1>3. WorkInv'
  BY DEF IInv, TypeOK, AppendStep, Worker, shared, WorkInv, RoundsAreClosed, AskInv, AppendInv,
     Completed, StepsOf
<1>4. HistoryInv'
  BY DEF IInv, TypeOK, AppendStep, Worker, shared, HistoryInv
<1>5. BudgetInv'
  BY DEF IInv, TypeOK, AppendStep, Worker, shared, BudgetInv
<1>6. CompletedIsDone'
  BY DEF IInv, TypeOK, AppendStep, Worker, shared, CompletedIsDone, Completed, StepsOf
<1>7. NothingForgotten'
  BY DEF IInv, TypeOK, AppendStep, Worker, shared, NothingForgotten, Completed, StepsOf, PlanOf, WorkInv, AppendInv
<1>8. QED
  BY <1>1, <1>2, <1>3, <1>4, <1>5, <1>6, <1>7 DEF IInv

LEMMA MarkStepInv == ASSUME PEAssumption, IInv, NEW c \in Calls, NEW i \in Steps, MarkStep(c, i) PROVE IInv'
<1>1. StoreInv'
  BY StoreUnchanged DEF IInv, MarkStep, Worker, record, shared
<1>2. TypeOK'
  BY <1>1 DEF IInv, StoreInv, TypeOK, MarkStep, Worker, record, shared, Stages
<1>3. WorkInv'
  BY DEF IInv, TypeOK, MarkStep, Worker, record, shared, WorkInv, RoundsAreClosed, AskInv, AppendInv,
     Completed, StepsOf
<1>4. HistoryInv'
  BY DEF IInv, TypeOK, MarkStep, Worker, record, shared, HistoryInv
<1>5. BudgetInv'
  BY DEF IInv, TypeOK, MarkStep, Worker, record, shared, BudgetInv
<1>6. CompletedIsDone'
  BY DEF IInv, TypeOK, MarkStep, Worker, record, shared, CompletedIsDone, Completed, StepsOf
<1>7. NothingForgotten'
  BY DEF IInv, TypeOK, MarkStep, Worker, record, shared, NothingForgotten, Completed, StepsOf, PlanOf
<1>8. QED
  BY <1>1, <1>2, <1>3, <1>4, <1>5, <1>6, <1>7 DEF IInv

LEMMA CollideInv == ASSUME PEAssumption, IInv, NEW c \in Calls, MapWritesCollide(c) PROVE IInv'
<1>1. StoreInv'
  BY StoreUnchanged DEF IInv, MapWritesCollide, local, plan, record, shared
<1>2. TypeOK'
  BY <1>1 DEF IInv, StoreInv, TypeOK, MapWritesCollide, local, plan, record, shared, Stages
<1>3. WorkInv'
  BY DEF IInv, TypeOK, MapWritesCollide, local, plan, record, shared, WorkInv, RoundsAreClosed, AskInv, AppendInv,
     Completed, StepsOf
<1>4. HistoryInv'
  BY DEF IInv, TypeOK, MapWritesCollide, local, plan, record, shared, HistoryInv
<1>5. BudgetInv'
  BY DEF IInv, TypeOK, MapWritesCollide, local, plan, record, shared, BudgetInv
<1>6. CompletedIsDone'
  BY DEF IInv, TypeOK, MapWritesCollide, local, plan, record, shared, CompletedIsDone, Completed, StepsOf
<1>7. NothingForgotten'
  BY DEF IInv, TypeOK, MapWritesCollide, local, plan, record, shared, NothingForgotten, Completed, StepsOf, PlanOf
<1>8. QED
  BY <1>1, <1>2, <1>3, <1>4, <1>5, <1>6, <1>7 DEF IInv

LEMMA ExpireInv == ASSUME PEAssumption, IInv, NEW c \in Calls, Expire(c) PROVE IInv'
<1>1. StoreInv'
  BY StoreUnchanged DEF IInv, Expire, plan, record, shared
<1>2. TypeOK'
  BY <1>1 DEF IInv, StoreInv, TypeOK, Expire, plan, record, shared, Stages
<1>3. WorkInv'
  BY DEF IInv, TypeOK, Expire, plan, record, shared, WorkInv, RoundsAreClosed, AskInv, AppendInv,
     Completed, StepsOf
<1>4. HistoryInv'
  BY DEF IInv, TypeOK, Expire, plan, record, shared, HistoryInv
<1>5. BudgetInv'
  BY DEF IInv, TypeOK, Expire, plan, record, shared, BudgetInv
<1>6. CompletedIsDone'
  BY DEF IInv, TypeOK, Expire, plan, record, shared, CompletedIsDone, Completed, StepsOf
<1>7. NothingForgotten'
  BY DEF IInv, TypeOK, Expire, plan, record, shared, NothingForgotten, Completed, StepsOf, PlanOf
<1>8. QED
  BY <1>1, <1>2, <1>3, <1>4, <1>5, <1>6, <1>7 DEF IInv

(* What the store's actions leave to be shown. *)
LEMMA ElsewhereInv ==
  ASSUME IInv, StoreInv', UNCHANGED <<attempts, plan, record, expired, shared, saves, crashed>>,
         \/ pc' = pc
         \/ \E c \in Calls : pc[c] = "saving" /\ pc' = [pc EXCEPT ![c] = "deciding"]
  PROVE  IInv'
<1>1. TypeOK'
  BY DEF IInv, TypeOK, StoreInv, Stages, plan, record, shared
<1>2. WorkInv'
  BY DEF IInv, TypeOK, plan, record, WorkInv, RoundsAreClosed, AskInv, AppendInv, Completed, StepsOf
<1>3. HistoryInv' /\ BudgetInv'
  BY DEF IInv, TypeOK, HistoryInv, BudgetInv, shared
<1>4. CompletedIsDone'
  BY DEF IInv, TypeOK, plan, CompletedIsDone, Completed, StepsOf
<1>5. NothingForgotten'
  BY DEF IInv, TypeOK, plan, record, shared, NothingForgotten, Completed, StepsOf, PlanOf
<1>6. QED
  BY <1>1, <1>2, <1>3, <1>4, <1>5 DEF IInv

LEMMA SavePlanInv == ASSUME PEAssumption, IInv, NEW c \in Calls, SavePlan(c) PROVE IInv'
<1>1. PlanOf(c) \in Plans /\ c \in Clients /\ 0 \in Revisions
  BY PlanInStore DEF IInv, PEAssumption
<1>2. StoreInv'
  BY <1>1, StoreSaveInv DEF IInv, SavePlan
<1>3. QED
  BY <1>2, ElsewhereInv DEF SavePlan, local

LEMMA PlanSavedInv == ASSUME PEAssumption, IInv, NEW c \in Calls, PlanSaved(c) PROVE IInv'
<1>1. c \in Clients
  BY DEF PEAssumption
<1>2. StoreInv'
  BY <1>1, CacheStepInv DEF IInv, PlanSaved, CacheStep
<1>3. QED
  BY <1>2, ElsewhereInv DEF PlanSaved, Goto

LEMMA UseInv == ASSUME PEAssumption, IInv, NEW u \in Users, Use(u) PROVE IInv'
<1>1. u \in Clients /\ history \subseteq Plans
  BY DEF PEAssumption, IInv, TypeOK
<1>2. StoreInv'
  <2>1. CASE \E p \in history, r \in Revisions : StoreSave(u, p, r)
    BY <1>1, <2>1, StoreSaveInv DEF IInv
  <2>2. CASE \E p \in history : Miss(u, p)
    BY <1>1, <2>2, LoadInv DEF IInv
  <2>3. CASE \E p \in history : StoreDelete(u, p)
    BY <1>1, <2>3, StoreDeleteInv DEF IInv
  <2>4. CASE StoreLoad(u)
    BY <1>1, <2>4, LoadInv DEF IInv
  <2>5. CASE CacheStep(u)
    BY <1>1, <2>5, CacheStepInv DEF IInv
  <2>6. QED
    BY <2>1, <2>2, <2>3, <2>4, <2>5 DEF Use
<1>3. QED
  BY <1>2, ElsewhereInv DEF Use, local

LEMMA ClearAllInv == ASSUME PEAssumption, IInv, Clear PROVE IInv'
BY ClearInv, ElsewhereInv DEF IInv, Clear, local

LEMMA StutterInv == ASSUME IInv, UNCHANGED vars PROVE IInv'
BY StoreUnchanged, ElsewhereInv DEF IInv, vars, local

LEMMA NextInv == PEAssumption /\ IInv /\ [Next]_vars => IInv'
<1> SUFFICES ASSUME PEAssumption, IInv, [Next]_vars PROVE IInv'
  OBVIOUS
<1>1. ASSUME NEW c \in Calls, CallStep(c) PROVE IInv'
  BY <1>1, CreatePlanInv, ReplanInv, PlanningFailsInv, RecordInv, SavePlanInv, PlanSavedInv, SaveFailsInv,
     DecideInv, BeginRoundInv, EndRoundInv, PlanEndsInv, AfterFailureInv, StepFailsInv, StepAnswersInv,
     AppendStepInv, MarkStepInv DEF CallStep
<1>2. ASSUME NEW c \in Calls, Begin(c) \/ Expire(c) \/ MapWritesCollide(c) PROVE IInv'
  BY <1>2, BeginInv, ExpireInv, CollideInv
<1>3. CASE UNCHANGED vars
  BY <1>3, StutterInv
<1>4. CASE \E u \in Users : Use(u)
  BY <1>4, UseInv
<1>5. CASE Clear
  BY <1>5, ClearAllInv
<1>6. QED
  BY <1>1, <1>2, <1>3, <1>4, <1>5 DEF Next

LEMMA Invariance == Spec => []IInv
BY InitInv, NextInv, PEAssumption, PTL DEF Spec

-----------------------------------------------------------------------------
(* The state stays in range: in particular no call attempts more than        *)
(* MaxReplan new plans.                                                      *)
THEOREM TypeCorrect == Spec => []TypeOK
BY Invariance, PTL DEF IInv

(* The plan store's cache agrees with the store (plan_store.go). *)
THEOREM StoreCorrect == Spec => []CacheAgrees
<1>1. IInv => CacheAgrees
  BY DEF IInv, StoreInv
<1>2. QED
  BY <1>1, Invariance, PTL

(* No round outlives its plan, and no step runs before its dependencies; who *)
(* reports completed has done all of its plan, and nothing is missing from   *)
(* the record of an execution or from the history unless appends overlapped  *)
(* (Execute, executePlan, executeStep, createPlan, replan).                  *)
THEOREM PlansCorrect == Spec => []PlansAreFollowed
<1>1. IInv => RoundsAreClosed
  BY DEF IInv, WorkInv
<1>2. IInv => RecordsAreTrue
  BY DEF IInv, RecordsAreTrue
<1>3. IInv => PlansAreFollowed
  BY <1>1, <1>2 DEF PlansAreFollowed
<1>4. QED
  BY <1>3, Invariance, PTL
-----------------------------------------------------------------------------
(* The reasoning strategy.  Whoever works and has met nobody works alone,   *)
(* and the traces are then as long as it has come.                          *)
Thought    == [of : Reasoners, step : Nat, observed : BOOLEAN]
Reflection == [by : Reasoners, about : Seq(Thought)]
Places  == {"idle", "head", "thinking", "appending", "acting", "observed",
            "completed", "failed", "cancelled"}
Finals  == {"none", "default", "own", "alien", "empty"}
Records == [at : Places, iteration : Nat, steps : Nat, final : Finals, late : BOOLEAN]

ReactTypeOK ==
  /\ traces \in Seq(Thought)
  /\ reflections \in Seq(Reflection)
  /\ reasoner \in [Reasoners -> Records]
  /\ slice \in [Reasoners -> Seq(Thought)]
  /\ met \in SUBSET Reasoners
  /\ panicked \in BOOLEAN

(* How many traces a call has appended that works alone. *)
Appended(r) == IF r.at \in {"acting", "observed"} THEN r.iteration + 1 ELSE r.iteration

(* The traces are the iterations of c, the last one perhaps unobserved. *)
Closed(c, i) == [of |-> c, step |-> i - 1, observed |-> TRUE]
Open(c, i)   == [of |-> c, step |-> i - 1, observed |-> FALSE]

OwnTraces(c) ==
  \A i \in DOMAIN traces :
    /\ i < Len(traces) \/ reasoner[c].at # "acting" => traces[i] = Closed(c, i)
    /\ ~(i < Len(traces) \/ reasoner[c].at # "acting") => traces[i] = Open(c, i)

OwnReflections(c) ==
  \A i \in DOMAIN reflections : /\ reflections[i].by = c
                                /\ Len(reflections[i].about) % Interval = 0

(* What holds while c works alone. *)
WorksAlone(c) ==
  /\ Len(traces) = Appended(reasoner[c])
  /\ reasoner[c].steps =
       IF reasoner[c].at = "observed" THEN reasoner[c].iteration + 1 ELSE reasoner[c].iteration
  /\ reasoner[c].at = "appending" => slice[c] = traces
  /\ OwnTraces(c)
  /\ OwnReflections(c)

AloneInv ==
  \A c \in Reasoners :
    /\ reasoner[c].at = "idle" => reasoner[c].iteration = 0 /\ reasoner[c].steps = 0
    /\ c \notin met => /\ reasoner[c].final # "alien"
                       /\ c \in Working => Working = {c} /\ WorksAlone(c)

ReactInv == ReactTypeOK /\ AloneInv /\ (panicked => met # {})

LEMMA AloneInit == ReactInit => ReactInv
<1> SUFFICES ASSUME ReactInit PROVE ReactInv
  OBVIOUS
<1>1. ReactTypeOK
  <2>1. NotBegun \in Records
    BY DEF NotBegun, Records, Places, Finals
  <2>2. traces \in Seq(Thought) /\ reflections \in Seq(Reflection)
        /\ slice \in [Reasoners -> Seq(Thought)]
    BY DEF ReactInit
  <2>3. reasoner \in [Reasoners -> Records] /\ met \in SUBSET Reasoners /\ panicked \in BOOLEAN
    BY <2>1 DEF ReactInit
  <2>4. QED
    BY <2>2, <2>3 DEF ReactTypeOK
<1>2. \A c \in Reasoners : /\ reasoner[c].at = "idle" /\ reasoner[c].final = "none"
                            /\ reasoner[c].iteration = 0 /\ reasoner[c].steps = 0
  BY DEF ReactInit, NotBegun
<1>3. Working = {} /\ panicked = FALSE
  BY <1>2 DEF Working, Resting, ReactInit
<1>4. AloneInv
  BY <1>2, <1>3 DEF AloneInv
<1>5. QED
  BY <1>1, <1>3, <1>4, Zenon DEF ReactInv

(* What the step of a call does to the calls: those of the others it leaves alone. *)
LEMMA OthersRest ==
  ASSUME reasoner \in [Reasoners -> Records], NEW c \in Reasoners, ReasonerStep(c)
  PROVE  \A d \in Reasoners \ {c} : reasoner'[d] = reasoner[d]
  BY DEF ReasonerStep, Reason, NextIteration, ThinkFails, Think, AppendTrace, Observe,
     ObserveNothing, Reflect, Late, Moves

LEMMA ReasonerType ==
  ASSUME reasoner \in [Reasoners -> Records], NEW c \in Reasoners, ReasonerStep(c)
  PROVE  reasoner' \in [Reasoners -> Records]
<1>1. CASE Reason(c) \/ ThinkFails(c) \/ Think(c)
  BY <1>1 DEF Reason, ThinkFails, Think, Moves, Places, Records
<1>3. CASE NextIteration(c)
  <2>1. FinalOutput(c) \in Finals
    BY DEF FinalOutput, Finals
  <2> QED BY <1>3, <2>1 DEF NextIteration, Moves, Places, Records
<1>4. CASE AppendTrace(c)
  <2>1. CASE Moves(c, "acting")
    BY <2>1 DEF Moves, Places, Records
  <2>2. CASE reasoner' = [reasoner EXCEPT ![c].at = "completed", ![c].steps = @ + 1,
                                     ![c].final = "empty"]
    BY <2>2 DEF Places, Records, Finals
  <2> QED BY <1>4, <2>1, <2>2 DEF AppendTrace
<1>5. CASE Observe(c)
  BY <1>5 DEF Observe, Places, Records
<1>6. CASE Reflect(c)
  BY <1>6 DEF Reflect, Places, Records
<1>7. CASE Late(c)
  BY <1>7 DEF Late, Places, Records
<1>8. CASE ObserveNothing(c)
  BY <1>8 DEF ObserveNothing
<1> QED  BY <1>1, <1>3, <1>4, <1>5, <1>6, <1>7, <1>8 DEF ReasonerStep

(* A call that works on is as alone as it was. *)
LEMMA StaysAlone ==
  ASSUME ReactInv, NEW c \in Reasoners, ReasonerStep(c), UNCHANGED met, ~Resting(c),
         reasoner'[c].at # "idle",
         c \notin met /\ WorksAlone(c) =>
           reasoner'[c].final # "alien" /\ (~Resting(c)' => WorksAlone(c)')
  PROVE  AloneInv'
<1>1. \A d \in Reasoners \ {c} : reasoner'[d] = reasoner[d]
  BY OthersRest DEF ReactInv, ReactTypeOK
<1>2. c \in Working
  BY DEF Working
<1>3. ASSUME NEW d \in Reasoners \ met, d # c PROVE reasoner'[d].final # "alien" /\ d \notin Working'
  <2>1. d \notin Working /\ reasoner[d].final # "alien"
    BY <1>2, <1>3 DEF ReactInv, AloneInv
  <2>2. QED
    BY <1>1, <1>3, <2>1 DEF Working, Resting
<1>4. ASSUME c \notin met
      PROVE  reasoner'[c].final # "alien" /\ (c \in Working' => Working' = {c} /\ WorksAlone(c)')
  <2>1. Working = {c} /\ WorksAlone(c)
    BY <1>2, <1>4 DEF ReactInv, AloneInv
  <2>2. c \in Working' => Working' = {c} /\ ~Resting(c)'
    BY <1>1, <2>1 DEF Working, Resting
  <2>3. QED
    BY <1>4, <2>1, <2>2
<1>5. \A d \in Reasoners : reasoner'[d].at = "idle" =>
                           reasoner'[d].iteration = 0 /\ reasoner'[d].steps = 0
  BY <1>1 DEF ReactInv, AloneInv
<1>6. QED
  BY <1>3, <1>4, <1>5 DEF AloneInv

(* What an append and an overwrite of the last element leave. *)
LEMMA Appends ==
  ASSUME NEW S, NEW s \in Seq(S), NEW t \in S, NEW u, u = Append(s, t)
  PROVE  /\ u \in Seq(S) /\ Len(u) = Len(s) + 1 /\ u[Len(s) + 1] = t
         /\ \A i \in 1 .. Len(s) : u[i] = s[i]
  BY AppendProperties

LEMMA Overwrite ==
  ASSUME NEW S, NEW s \in Seq(S), NEW t \in S, s # <<>>, NEW u, u = [s EXCEPT ![Len(s)] = t]
  PROVE  /\ u \in Seq(S) /\ Len(u) = Len(s) /\ u[Len(s)] = t
         /\ \A i \in 1 .. Len(s) : i # Len(s) => u[i] = s[i]
<1>1. Len(s) \in 1 .. Len(s)
  BY EmptySeq
<1>2. QED
  BY <1>1, ExceptSeq

LEMMA TracesType ==
  ASSUME ReactTypeOK, NEW c \in Reasoners, ReasonerStep(c)
  PROVE  ReactTypeOK'
<1> USE DEF ReactTypeOK
<1>1. Trace(c, FALSE) \in Thought /\ Trace(c, TRUE) \in Thought
  BY DEF Trace, Thought, Records
<1>2. reasoner' \in [Reasoners -> Records]
  BY ReasonerType
<1>3. CASE Reason(c)
  BY <1>2, <1>3 DEF Reason, Working
<1>4. CASE NextIteration(c) \/ ThinkFails(c) \/ Late(c)
  BY <1>2, <1>4 DEF NextIteration, ThinkFails, Late
<1>5. CASE Think(c)
  BY <1>2, <1>5 DEF Think
<1>6. CASE AppendTrace(c)
  <2>1. PICK t \in Thought : traces' = Append(slice[c], t)
    BY <1>1, <1>6 DEF AppendTrace
  <2>2. traces' \in Seq(Thought)
    BY <2>1
  <2>3. QED
    <3>1. slice' = [slice EXCEPT ![c] = <<>>] /\ UNCHANGED <<reflections, met, panicked>>
      BY <1>6 DEF AppendTrace
    <3>2. QED
      BY <1>2, <2>2, <3>1
<1>7. CASE Observe(c)
  <2>1. PICK t \in Thought : traces # <<>> /\ traces' = [traces EXCEPT ![Len(traces)] = t]
    BY <1>1, <1>7 DEF Observe
  <2>2. traces' \in Seq(Thought)
    BY <2>1, Overwrite
  <2>3. QED
    BY <1>2, <1>7, <2>2 DEF Observe
<1>8. CASE ObserveNothing(c)
  BY <1>2, <1>8 DEF ObserveNothing
<1>9. CASE Reflect(c)
  <2>1. reflections' \in Seq(Reflection)
    <3>1. [by |-> c, about |-> traces] \in Reflection
      BY DEF Reflection
    <3>2. PICK e \in Reflection : e = [by |-> c, about |-> traces]
      BY <3>1
    <3>3. UNCHANGED reflections \/ reflections' = Append(reflections, e)
      BY <1>9, <3>2, Zenon DEF Reflect
    <3>4. CASE reflections' = Append(reflections, e)
      BY <3>4
    <3>5. QED
      BY <3>3, <3>4
  <2>2. QED
    BY <1>2, <1>9, <2>1 DEF Reflect
<1>10. QED
  BY <1>3, <1>4, <1>5, <1>6, <1>7, <1>8, <1>9 DEF ReasonerStep

LEMMA AloneStep ==
  ASSUME ReactInv, NEW c \in Reasoners, ReasonerStep(c)
  PROVE  ReactInv'
<1> USE DEF ReactInv, ReactTypeOK
<1>1. ReactTypeOK' /\ \A d \in Reasoners \ {c} : reasoner'[d] = reasoner[d]
  BY TracesType, OthersRest
<1>2. reasoner[c] \in Records /\ reasoner'[c] \in Records
  BY <1>1
<1>3. ASSUME AloneInv', panicked' => met' # {} PROVE ReactInv'
  BY <1>1, <1>3
<1>4. CASE Reason(c)
  <2>1. /\ traces' = <<>> /\ reflections' = <<>> /\ reasoner[c].at = "idle"
        /\ met' = IF Working = {} THEN met ELSE met \cup Working \cup {c}
        /\ UNCHANGED <<slice, panicked>>
    BY <1>4 DEF Reason, At
  <2>2. reasoner'[c].at = "head" /\ reasoner'[c].iteration = 0
        /\ reasoner'[c].final = reasoner[c].final /\ reasoner'[c].steps = 0
    <3>1. reasoner[c].iteration = 0 /\ reasoner[c].steps = 0
      BY <2>1 DEF AloneInv
    <3>2. QED
      BY <1>4, <3>1 DEF Reason, Records
  <2>3. WorksAlone(c)'
    BY <2>1, <2>2 DEF WorksAlone, Appended, OwnTraces, OwnReflections
  <2>4. CASE Working = {}
    <3>1. Working' = {c}
      BY <1>1, <2>2, <2>4 DEF Working, Resting
    <3>2. QED
      BY <1>1, <1>3, <2>1, <2>2, <2>3, <2>4, <3>1 DEF AloneInv
  <2>5. CASE Working # {}
    <3>1. Working' = Working \cup {c} /\ met' = met \cup Working'
      BY <1>1, <2>1, <2>2, <2>5 DEF Working, Resting
    <3>2. QED
      BY <1>1, <1>3, <2>1, <2>2, <2>5, <3>1 DEF AloneInv
  <2>6. QED
    BY <2>4, <2>5
<1>5. ASSUME ~Resting(c), UNCHANGED <<met, panicked>>, reasoner'[c].at # "idle",
             c \notin met /\ WorksAlone(c) =>
               reasoner'[c].final # "alien" /\ (~Resting(c)' => WorksAlone(c)')
      PROVE  ReactInv'
  BY <1>3, <1>5, StaysAlone
<1>6. c \notin met => reasoner[c].final # "alien"
  BY DEF AloneInv
<1>7. CASE NextIteration(c)
  <2>1. ~Resting(c) /\ UNCHANGED <<traces, reflections, slice, met, panicked>> /\ At(c, "head")
    BY <1>7 DEF NextIteration, At, Resting
  <2>2. CASE reasoner[c].iteration = MaxIterations
    <3>1. reasoner'[c].at = "completed" /\ reasoner'[c].final = FinalOutput(c)
      BY <1>7, <2>2 DEF NextIteration, Records
    <3>2. ASSUME WorksAlone(c) PROVE FinalOutput(c) # "alien"
      <4>1. Len(traces) = MaxIterations /\ MaxIterations > 0
        BY <2>1, <2>2, <3>2, RSAssumption DEF WorksAlone, Appended, At
      <4>2. traces[Len(traces)].of = c
        <5>1. Len(traces) \in DOMAIN traces /\ OwnTraces(c) /\ reasoner[c].at # "acting"
          BY <2>1, <3>2, <4>1, RSAssumption DEF WorksAlone, At
        <5>2. traces[Len(traces)] = Closed(c, Len(traces))
          BY <5>1 DEF OwnTraces
        <5>3. QED
          BY <5>2 DEF Closed
      <4>3. QED
        BY <4>2 DEF FinalOutput
    <3>3. QED
      BY <1>5, <2>1, <3>1, <3>2 DEF Resting
  <2>3. CASE reasoner[c].iteration # MaxIterations
    <3>1. /\ reasoner'[c].at \in {"cancelled", "thinking"}
          /\ reasoner'[c].iteration = reasoner[c].iteration
          /\ reasoner'[c].steps = reasoner[c].steps
          /\ reasoner'[c].final = reasoner[c].final
      BY <1>7, <2>3 DEF NextIteration, Moves, Records
    <3>2. WorksAlone(c) => WorksAlone(c)'
      BY <2>1, <3>1 DEF WorksAlone, Appended, OwnTraces, OwnReflections, At
    <3>3. QED
      BY <1>5, <1>6, <2>1, <3>1, <3>2
  <2>4. QED
    BY <2>2, <2>3
<1>8. CASE ThinkFails(c)
  <2>1. /\ ~Resting(c) /\ UNCHANGED <<met, panicked>> /\ reasoner'[c].at = "failed"
        /\ reasoner'[c].final = reasoner[c].final
    BY <1>8 DEF ThinkFails, Moves, At, Resting, Records
  <2>2. QED
    BY <1>5, <1>6, <2>1 DEF Resting
<1>9. CASE Think(c)
  <2>1. /\ ~Resting(c) /\ UNCHANGED <<traces, reflections, met, panicked>>
        /\ reasoner[c].at = "thinking" /\ reasoner'[c].at = "appending"
        /\ reasoner'[c].final = reasoner[c].final /\ reasoner'[c].steps = reasoner[c].steps
        /\ reasoner'[c].iteration = reasoner[c].iteration /\ slice'[c] = traces
    BY <1>9 DEF Think, Moves, At, Resting, Records
  <2>2. WorksAlone(c) => WorksAlone(c)'
    BY <2>1 DEF WorksAlone, Appended, OwnTraces, OwnReflections, At
  <2>3. QED
    BY <1>5, <1>6, <2>1, <2>2
<1>10. CASE AppendTrace(c)
  <2>1. /\ ~Resting(c) /\ UNCHANGED <<reflections, met, panicked>> /\ reasoner[c].at = "appending"
        /\ traces' = Append(slice[c], Trace(c, FALSE))
    BY <1>10 DEF AppendTrace, At, Resting
  <2>2. CASE Moves(c, "acting")
    <3>1. /\ reasoner'[c].at = "acting" /\ reasoner'[c].final = reasoner[c].final
          /\ reasoner'[c].steps = reasoner[c].steps
          /\ reasoner'[c].iteration = reasoner[c].iteration
      BY <2>2 DEF Moves, Records
    <3>2. ASSUME WorksAlone(c) PROVE WorksAlone(c)'
      <4>1. Len(traces) = reasoner[c].iteration /\ slice[c] = traces /\ OwnTraces(c)
        BY <2>1, <3>2 DEF WorksAlone, Appended
      <4>2. PICK t : t = Trace(c, FALSE)
        OBVIOUS
      <4>3. t = Open(c, Len(traces) + 1) /\ t \in Thought
        <5>1. reasoner[c].iteration = Len(traces) + 1 - 1
          BY <4>1
        <5>2. t = [of |-> c, step |-> Len(traces) + 1 - 1, observed |-> FALSE]
          BY <4>2, <5>1, Zenon DEF Trace
        <5>3. Len(traces) + 1 - 1 \in Nat
          OBVIOUS
        <5>4. t \in Thought
          BY <5>2, <5>3 DEF Thought
        <5>5. QED
          BY <5>2, <5>4 DEF Open
      <4>4. traces' = Append(traces, t)
        BY <2>1, <4>1, <4>2
      <4>5. /\ Len(traces') = Len(traces) + 1 /\ traces'[Len(traces) + 1] = t
            /\ \A i \in 1 .. Len(traces) : traces'[i] = traces[i]
        BY <4>3, <4>4, Appends
      <4>6. OwnTraces(c)'
        <5>1. \A i \in 1 .. Len(traces) : traces[i] = Closed(c, i)
          BY <2>1, <4>1 DEF OwnTraces
        <5>2. ASSUME NEW i \in DOMAIN traces'
              PROVE  /\ i < Len(traces') => traces'[i] = Closed(c, i)
                     /\ ~(i < Len(traces')) => traces'[i] = Open(c, i)
          <6>1. i \in 1 .. Len(traces) + 1
            BY <1>1, <4>5, <5>2
          <6>2. CASE i \in 1 .. Len(traces)
            BY <4>5, <5>1, <6>2
          <6>3. CASE i = Len(traces) + 1
            BY <4>3, <4>5, <6>3
          <6>4. QED
            BY <6>1, <6>2, <6>3
        <5>3. QED
          BY <3>1, <5>2 DEF OwnTraces
      <4>7. QED
        BY <2>1, <3>1, <3>2, <4>1, <4>5, <4>6 DEF WorksAlone, Appended, OwnReflections
    <3>3. QED
      BY <1>5, <1>6, <2>1, <3>1, <3>2
  <2>3. CASE reasoner' = [reasoner EXCEPT ![c].at = "completed", ![c].steps = @ + 1,
                                          ![c].final = "empty"]
    <3>1. reasoner'[c].at = "completed"
      BY <2>3 DEF Records
    <3>2. reasoner'[c].final = "empty"
      BY <2>3 DEF Records
    <3>3. QED
      BY <1>5, <2>1, <3>1, <3>2 DEF Resting
  <2>4. QED
    BY <1>10, <2>2, <2>3 DEF AppendTrace
<1>11. CASE Observe(c)
  <2>1. /\ ~Resting(c) /\ UNCHANGED <<reflections, met, panicked>> /\ reasoner[c].at = "acting"
        /\ traces # <<>> /\ traces' = [traces EXCEPT ![Len(traces)] = Trace(c, TRUE)]
    BY <1>11 DEF Observe, At, Resting
  <2>2. /\ reasoner'[c].at = "observed" /\ reasoner'[c].final = reasoner[c].final
        /\ reasoner'[c].steps = reasoner[c].steps + 1
        /\ reasoner'[c].iteration = reasoner[c].iteration
    BY <1>11 DEF Observe, Records
  <2>3. ASSUME WorksAlone(c) PROVE WorksAlone(c)'
    <3>1. Len(traces) = reasoner[c].iteration + 1 /\ reasoner[c].steps = reasoner[c].iteration
          /\ OwnTraces(c)
      BY <2>1, <2>3 DEF WorksAlone, Appended
    <3>2. PICK t : t = Trace(c, TRUE)
      OBVIOUS
    <3>3. t = Closed(c, Len(traces)) /\ t \in Thought
      <4>1. reasoner[c].iteration = Len(traces) - 1 /\ reasoner[c].iteration \in Nat
        BY <1>2, <3>1 DEF Records
      <4>2. t = [of |-> c, step |-> Len(traces) - 1, observed |-> TRUE]
        BY <3>2, <4>1, Zenon DEF Trace
      <4>3. t \in Thought
        BY <4>1, <4>2 DEF Thought
      <4>4. QED
        BY <4>2, <4>3 DEF Closed
    <3>4. traces' = [traces EXCEPT ![Len(traces)] = t]
      BY <2>1, <3>2
    <3>5. /\ Len(traces') = Len(traces) /\ traces'[Len(traces)] = t
          /\ \A i \in 1 .. Len(traces) : i # Len(traces) => traces'[i] = traces[i]
      <4>1. PICK u : u = traces'
        OBVIOUS
      <4>2. traces \in Seq(Thought) /\ traces # <<>> /\ u = [traces EXCEPT ![Len(traces)] = t]
        BY <2>1, <3>4, <4>1
      <4>3. QED
        BY <3>3, <4>1, <4>2, Overwrite
    <3>6. OwnTraces(c)'
      <4>1. \A i \in 1 .. Len(traces) : i # Len(traces) => traces[i] = Closed(c, i)
        BY <3>1 DEF OwnTraces
      <4>2. ASSUME NEW i \in DOMAIN traces' PROVE traces'[i] = Closed(c, i)
        <5>1. i \in 1 .. Len(traces)
          BY <1>1, <3>5, <4>2
        <5>2. QED
          BY <3>3, <3>5, <4>1, <5>1
      <4>3. QED
        BY <2>2, <4>2 DEF OwnTraces
    <3>7. QED
      BY <2>1, <2>2, <2>3, <3>1, <3>5, <3>6 DEF WorksAlone, Appended, OwnReflections
  <2>4. QED
    BY <1>5, <1>6, <2>1, <2>2, <2>3
<1>12. CASE ObserveNothing(c)
  <2>1. /\ ~Resting(c) /\ UNCHANGED <<traces, reflections, reasoner, slice, met>>
        /\ reasoner[c].at = "acting" /\ traces = <<>>
    BY <1>12 DEF ObserveNothing, At, Resting
  <2>2. c \in met
    <3>1. ~WorksAlone(c)
      BY <1>2, <2>1 DEF WorksAlone, Appended, Records
    <3>2. QED
      BY <2>1, <3>1 DEF AloneInv, Working
  <2>3. AloneInv'
    BY <2>1, <2>2, StaysAlone
  <2>4. QED
    BY <1>3, <2>1, <2>2, <2>3
<1>13. CASE Reflect(c)
  <2>1. /\ ~Resting(c) /\ UNCHANGED <<traces, met, panicked>> /\ reasoner[c].at = "observed"
        /\ UNCHANGED reflections \/
             (/\ (reasoner[c].iteration + 1) % Interval = 0
              /\ reflections' = Append(reflections, [by |-> c, about |-> traces]))
    BY <1>13 DEF Reflect, At, Resting
  <2>2. /\ reasoner'[c].at = "head" /\ reasoner'[c].final = reasoner[c].final
        /\ reasoner'[c].steps = reasoner[c].steps
        /\ reasoner'[c].iteration = reasoner[c].iteration + 1
    BY <1>13 DEF Reflect, Records
  <2>3. ASSUME WorksAlone(c) PROVE WorksAlone(c)'
    <3>1. Len(traces) = reasoner[c].iteration + 1 /\ OwnTraces(c)'
      BY <2>1, <2>2, <2>3 DEF WorksAlone, Appended, OwnTraces, At
    <3>2. OwnReflections(c)
      BY <2>3 DEF WorksAlone
    <3>a. OwnReflections(c)'
      <4>1. CASE UNCHANGED reflections
        BY <3>2, <4>1 DEF OwnReflections
      <4>2. PICK e : e = [by |-> c, about |-> traces]
        OBVIOUS
      <4>3. CASE (reasoner[c].iteration + 1) % Interval = 0 /\ reflections' = Append(reflections, e)
        <5>1. e.by = c /\ Len(e.about) % Interval = 0
          BY <3>1, <4>2, <4>3
        <5>2. QED
          BY <3>2, <4>3, <5>1 DEF OwnReflections
      <4>4. QED
        BY <2>1, <4>1, <4>2, <4>3
    <3>3. QED
      BY <2>1, <2>2, <2>3, <3>1, <3>a DEF WorksAlone, Appended
  <2>4. QED
    BY <1>5, <1>6, <2>1, <2>2, <2>3
<1>14. CASE Late(c)
  <2>1. /\ ~Resting(c) /\ UNCHANGED <<traces, reflections, slice, met, panicked>>
        /\ reasoner'[c].at = reasoner[c].at /\ reasoner'[c].final = reasoner[c].final
        /\ reasoner'[c].steps = reasoner[c].steps
        /\ reasoner'[c].iteration = reasoner[c].iteration
    BY <1>14 DEF Late, Records
  <2>2. WorksAlone(c) => WorksAlone(c)'
    BY <2>1 DEF WorksAlone, Appended, OwnTraces, OwnReflections, At
  <2>3. QED
    BY <1>5, <1>6, <2>1, <2>2 DEF Resting
<1>15. QED
  BY <1>4, <1>7, <1>8, <1>9, <1>10, <1>11, <1>12, <1>13, <1>14 DEF ReasonerStep

(* Whoever reasons alone reasons about its own thoughts. *)
THEOREM AloneCorrect == ReactSpec => []AloneIsFaithful
<1>1. ReactInv /\ [ReactNext]_reactVars => ReactInv'
  <2>1. CASE ReactNext
    BY <2>1, AloneStep DEF ReactNext
  <2>2. CASE UNCHANGED reactVars
    BY <2>2 DEF reactVars, ReactInv, ReactTypeOK, AloneInv, WorksAlone, OwnTraces, OwnReflections,
       Appended, Working, Resting, At
  <2>3. QED
    BY <2>1, <2>2
<1>2. ReactInv => AloneIsFaithful
  <2> SUFFICES ASSUME ReactInv PROVE AloneIsFaithful
    OBVIOUS
  <2>1. ASSUME NEW c \in Reasoners \ met, ~Resting(c) PROVE WorksAlone(c)
    BY <2>1 DEF ReactInv, AloneInv, Working
  <2>2. \A c \in Reasoners \ met : reasoner[c].final # "alien"
    BY DEF ReactInv, AloneInv
  <2>3. \A c \in Reasoners \ met :
          /\ At(c, "head") => Len(traces) = reasoner[c].iteration
          /\ At(c, "observed") => Len(traces) = reasoner[c].steps
    BY <2>1 DEF WorksAlone, Appended, At, Resting
  <2>4. \A c \in Reasoners \ met : ~Resting(c) => OwnTraces(c) /\ OwnReflections(c)
    BY <2>1 DEF WorksAlone
  <2>5. ASSUME NEW c \in Reasoners \ met, ~Resting(c), NEW i \in DOMAIN traces
        PROVE  traces[i] = [of |-> c, step |-> i - 1,
                            observed |-> i < Len(traces) \/ ~At(c, "acting")]
    <3>1. CASE i < Len(traces) \/ ~At(c, "acting")
      <4>1. (i < Len(traces) \/ ~At(c, "acting")) = TRUE
        BY <3>1, Zenon DEF At
      <4>2. traces[i] = Closed(c, i)
        BY <2>4, <2>5, <3>1 DEF OwnTraces, At
      <4>3. QED
        BY <4>1, <4>2, Zenon DEF Closed, Open
    <3>2. CASE ~(i < Len(traces) \/ ~At(c, "acting"))
      <4>1. (i < Len(traces) \/ ~At(c, "acting")) = FALSE
        BY <3>2, Zenon DEF At
      <4>2. traces[i] = Open(c, i)
        BY <2>4, <2>5, <3>2 DEF OwnTraces, At
      <4>3. QED
        BY <4>1, <4>2, Zenon DEF Closed, Open
    <3>3. QED
      BY <3>1, <3>2
  <2>6. panicked => met # {}
    BY DEF ReactInv
  <2>7. \A c \in Reasoners \ met : ~Resting(c) => \A i \in DOMAIN reflections :
          /\ reflections[i].by = c
          /\ Len(reflections[i].about) % Interval = 0
    BY <2>4, Zenon DEF OwnReflections
  <2>8. \A c \in Reasoners \ met : ~Resting(c) => \A i \in DOMAIN traces :
          traces[i] = [of |-> c, step |-> i - 1,
                       observed |-> i < Len(traces) \/ ~At(c, "acting")]
    BY <2>5, Zenon
  <2>9. QED
    <3>1. ASSUME NEW c \in Reasoners \ met
          PROVE  /\ ~Resting(c) => \A i \in DOMAIN traces :
                      traces[i] = [of |-> c, step |-> i - 1,
                                   observed |-> i < Len(traces) \/ ~At(c, "acting")]
                 /\ At(c, "head") => Len(traces) = reasoner[c].iteration
                 /\ At(c, "observed") => Len(traces) = reasoner[c].steps
                 /\ reasoner[c].final # "alien"
                 /\ ~Resting(c) => \A i \in DOMAIN reflections :
                      /\ reflections[i].by = c
                      /\ Len(reflections[i].about) % Interval = 0
      <4>1. ~Resting(c) => \A i \in DOMAIN traces :
               traces[i] = [of |-> c, step |-> i - 1,
                            observed |-> i < Len(traces) \/ ~At(c, "acting")]
        BY <2>8, Zenon
      <4>2. /\ At(c, "head") => Len(traces) = reasoner[c].iteration
            /\ At(c, "observed") => Len(traces) = reasoner[c].steps
            /\ reasoner[c].final # "alien"
        BY <2>2, <2>3, Zenon
      <4>3. ~Resting(c) => \A i \in DOMAIN reflections :
               /\ reflections[i].by = c
               /\ Len(reflections[i].about) % Interval = 0
        BY <2>7, Zenon
      <4>4. QED
        BY <4>1, <4>2, <4>3
    <3>2. QED
      BY <2>6, <3>1, Zenon DEF AloneIsFaithful
<1>3. QED
  BY <1>1, <1>2, AloneInit, PTL DEF ReactSpec

-----------------------------------------------------------------------------
(* The review of a plan.  Of the steps that the search has left, none waits *)
(* for one it has not left, and in any set of them there is one that waits   *)
(* for none of the set; each step on its stack is a dependency of the one    *)
(* before.                                                                 *)
Left == visited \ OnStack

ReviewStages == {"written", "searching", "searched", "structured", "verified", "ran", "evaluated",
           "replanning", "kept"}

ReviewTypeOK ==
  /\ draft \in Drafts
  /\ visited \subseteq StepNumbers \union {Unknown}
  /\ path \in Seq(StepNumbers \union {Unknown})
  /\ issues \subseteq {"empty", "cycle", "dangling"}
  /\ stage \in ReviewStages

StageInv ==
  /\ path # <<>> => stage = "searching"
  /\ stage = "written" => visited = {} /\ issues = {}
  /\ stage = "searching" => issues = {} /\ StepNumbers # {}
  /\ stage = "searched" => /\ issues \subseteq {"cycle"} /\ StepNumbers # {}
                           /\ issues = {} => StepNumbers \subseteq visited

Chain == \A k \in 1 .. Len(path) - 1 : path[k + 1] \in Deps(path[k])

SearchInv ==
  "cycle" \notin issues =>
    /\ OnStack \subseteq visited
    /\ Chain
    /\ \A i \in Left : Deps(i) \subseteq Left
    /\ \A D \in SUBSET Left : D # {} => \E i \in D : Deps(i) \intersect D = {}

VerdictInv ==
  /\ "cycle" \in issues => ~CanComplete
  /\ stage \in {"structured", "verified"} /\ issues \intersect {"empty", "cycle"} # {}
       => score \in Int /\ score <= 20
  /\ VerdictIsJustified

ReviewInv == ReviewTypeOK /\ StageInv /\ SearchInv /\ VerdictInv

LEMMA InitReviewInv == ReviewInit => ReviewInv
<1> SUFFICES ASSUME ReviewInit PROVE ReviewInv
  OBVIOUS
<1>1. /\ draft \in Drafts /\ stage = "written" /\ visited = {} /\ path = <<>> /\ issues = {}
  BY DEF ReviewInit, ReviewAtRest
<1>2. ReviewTypeOK /\ StageInv
  BY <1>1 DEF ReviewTypeOK, StageInv, ReviewStages
<1>3. SearchInv
  BY <1>1 DEF SearchInv, Chain, OnStack, Left
<1>4. VerdictInv
  BY <1>1 DEF VerdictInv, VerdictIsJustified
<1> QED
  BY <1>2, <1>3, <1>4 DEF ReviewInv

(* A step that some other steps' set of waiting ones contains is never ready. *)
LEMMA StuckSet ==
  ASSUME NEW C, C \subseteq StepNumbers, C # {}, \A i \in C : draft[i] \ (StepNumbers \ C) # {}
  PROVE ~CanComplete
<1>1. StepNumbers \ C # StepNumbers /\ StepNumbers \ C \in SUBSET StepNumbers
  OBVIOUS
<1>2. GetPendingSteps(StepNumbers \ C) = {}
  BY DEF GetPendingSteps
<1> QED
  BY <1>1, <1>2 DEF CanComplete

(* What waits in a circle cannot be completed.                              *)
LEMMA CycleMeans ==
  ASSUME ReviewInv, "cycle" \notin issues, path # <<>>, Deps(path[Len(path)]) \cap OnStack # {}
  PROVE ~CanComplete
<1>1. Len(path) \in Nat /\ Len(path) >= 1 /\ DOMAIN path = 1 .. Len(path)
  BY DEF ReviewInv, ReviewTypeOK
<1>2. PICK m \in 1 .. Len(path) : path[m] \in Deps(path[Len(path)])
  BY <1>1 DEF OnStack
<1> DEFINE C == {path[k] : k \in m .. Len(path)}
<1>3. ASSUME NEW k \in m .. Len(path)
      PROVE \E j \in m .. Len(path) : path[j] \in Deps(path[k])
  <2>1. CASE k = Len(path)
    BY <1>1, <1>2, <2>1
  <2>2. CASE k # Len(path)
    <3>1. PICK n \in Nat : n = Len(path)
      BY <1>1
    <3>2. k \in 1 .. n - 1 /\ k + 1 \in m .. n
      BY <1>2, <2>2, <3>1
    <3> QED
      BY <3>1, <3>2 DEF ReviewInv, SearchInv, Chain
  <2> QED
    BY <2>1, <2>2
<1>4. \A i \in C : i \in StepNumbers /\ draft[i] \intersect C # {}
  BY <1>3 DEF Deps
<1>5. path[m] \in C
  BY <1>1, <1>2
<1> HIDE DEF C
<1> QED
  BY <1>4, <1>5, StuckSet

(* A step that waits for no step of the plan, neither.                      *)
LEMMA DanglingMeans == Dangling # {} /\ draft \in Drafts => ~CanComplete
<1> SUFFICES ASSUME NEW i \in Dangling, draft \in Drafts PROVE ~CanComplete
  OBVIOUS
<1>1. i \in StepNumbers /\ Unknown \in draft[i] /\ Unknown \notin StepNumbers
  BY PRAssumption DEF Dangling, StepNumbers
<1>2. \A j \in {i} : draft[j] \ (StepNumbers \ {i}) # {}
  BY <1>1
<1>3. {i} \subseteq StepNumbers
  BY <1>1
<1> QED
  BY <1>2, <1>3, StuckSet

(* And what the search has left without a cycle can.                        *)
LEMMA LeftCompletes ==
  ASSUME ReviewInv, "cycle" \notin issues, path = <<>>, StepNumbers \subseteq visited, Dangling = {}
  PROVE CanComplete
<1>1. Left = visited
  BY DEF Left, OnStack
<1> SUFFICES ASSUME NEW done \in SUBSET StepNumbers, done # StepNumbers
             PROVE GetPendingSteps(done) # {}
  BY DEF CanComplete
<1> DEFINE D == StepNumbers \ done
<1>2. D \in SUBSET Left /\ D # {}
  BY <1>1
<1>3. PICK i \in D : Deps(i) \intersect D = {}
  BY <1>2 DEF ReviewInv, SearchInv
<1>4. draft[i] \subseteq StepNumbers \union {Unknown}
  BY PRAssumption DEF ReviewInv, ReviewTypeOK, StepNumbers
<1>5. Unknown \notin draft[i]
  BY DEF Dangling
<1>6. draft[i] \subseteq done
  BY <1>3, <1>4, <1>5 DEF Deps
<1> QED
  BY <1>6 DEF GetPendingSteps

-----------------------------------------------------------------------------
(* Steps of the search.                                                     *)
LEMMA PlanKept ==
  ASSUME UNCHANGED draft
  PROVE /\ StepNumbers' = StepNumbers /\ (CanComplete' <=> CanComplete)
        /\ \A i : Deps(i)' = Deps(i)
BY DEF StepNumbers, CanComplete, GetPendingSteps, Deps

LEMMA VerifyPlanStep == ASSUME ReviewInv, VerifyPlan PROVE ReviewInv'
<1>1. /\ UNCHANGED <<draft, visited, path>> /\ stage = "written" /\ visited = {} /\ issues = {}
      /\ path = <<>> /\ OnStack = {}
  BY DEF VerifyPlan, SamePlan, ReviewInv, StageInv, OnStack
<1>2. \/ stage' = "structured" /\ issues' = {"empty"} /\ score' = 0 /\ StepNumbers = {}
      \/ stage' = "searching" /\ issues' = {} /\ StepNumbers # {}
  BY <1>1 DEF VerifyPlan, Stage
<1>3. ReviewTypeOK' /\ StageInv'
  BY <1>1, <1>2 DEF ReviewInv, ReviewTypeOK, StageInv, ReviewStages, StepNumbers
<1>4. SearchInv'
  BY <1>1 DEF SearchInv, Chain, OnStack, Left
<1>5. VerdictInv'
  BY <1>1, <1>2 DEF VerdictInv, VerdictIsJustified, StepNumbers
<1> QED
  BY <1>3, <1>4, <1>5 DEF ReviewInv

LEMMA SearchStep == ASSUME ReviewInv, NEW i, Search(i) PROVE ReviewInv'
<1>1. /\ UNCHANGED <<draft, stage, issues, score>> /\ stage = "searching" /\ path = <<>>
      /\ i \in StepNumbers /\ path' = <<i>> /\ visited' = visited \union {i} /\ i \notin visited
      /\ issues = {}
  BY DEF Search, SamePlan, ReviewInv, StageInv
<1>2. OnStack = {} /\ OnStack' = {i} /\ Len(path') = 1
  BY <1>1 DEF OnStack
<1>3. ReviewTypeOK'
  BY <1>1 DEF ReviewInv, ReviewTypeOK, StepNumbers
<1>4. StageInv'
  BY <1>1 DEF ReviewInv, StageInv, StepNumbers
<1>5. Left' = Left
  BY <1>1, <1>2 DEF Left
<1>6. SearchInv'
  BY <1>1, <1>2, <1>5, PlanKept DEF ReviewInv, SearchInv, Chain
<1>7. VerdictInv'
  BY <1>1 DEF ReviewInv, VerdictInv, VerdictIsJustified
<1> QED
  BY <1>3, <1>4, <1>6, <1>7 DEF ReviewInv

LEMMA DescendStep == ASSUME ReviewInv, NEW d, Descend(d) PROVE ReviewInv'
<1>1. /\ UNCHANGED <<draft, stage, issues, score>> /\ path # <<>> /\ stage = "searching"
      /\ d \in Deps(path[Len(path)]) /\ d \notin visited
      /\ path' = Append(path, d) /\ visited' = visited \union {d} /\ issues = {}
  BY DEF Descend, SamePlan, ReviewInv, StageInv
<1>2. path \in Seq(StepNumbers \union {Unknown}) /\ d \in StepNumbers \union {Unknown}
  BY <1>1, PRAssumption DEF ReviewInv, ReviewTypeOK, Deps, StepNumbers
<1>3. /\ Len(path) \in Nat /\ DOMAIN path = 1 .. Len(path) /\ Len(path') = Len(path) + 1
      /\ path' \in Seq(StepNumbers \union {Unknown})
      /\ \A k \in 1 .. Len(path) : path'[k] = path[k]
      /\ path'[Len(path) + 1] = d
  BY <1>1, <1>2, AppendProperties
<1>4. OnStack' = OnStack \union {d}
  <2>1. DOMAIN path' = 1 .. Len(path) + 1
    BY <1>3
  <2> QED
    BY <1>3, <2>1 DEF OnStack
<1>5. Left' = Left
  BY <1>1, <1>4 DEF Left, ReviewInv, SearchInv
<1>6. ReviewTypeOK'
  BY <1>1, <1>2, <1>3 DEF ReviewInv, ReviewTypeOK, StepNumbers
<1>7. StageInv'
  BY <1>1 DEF ReviewInv, StageInv, StepNumbers
<1>8. PICK n \in Nat : n = Len(path) /\ Len(path') = n + 1
  BY <1>3
<1>9. SearchInv'
  <2>1. OnStack' \subseteq visited'
    BY <1>1, <1>4 DEF ReviewInv, SearchInv
  <2>2. ASSUME NEW k \in 1 .. n PROVE path'[k + 1] \in Deps(path[k])
    <3>1. CASE k = n
      BY <1>1, <1>3, <1>8, <3>1
    <3>2. CASE k # n
      <4>1. k \in 1 .. n - 1 /\ k + 1 \in 1 .. n
        BY <3>2
      <4> QED
        BY <1>1, <1>3, <1>8, <4>1 DEF ReviewInv, SearchInv, Chain
    <3> QED
      BY <3>1, <3>2
  <2>3. \A k \in 1 .. n : path'[k] = path[k]
    BY <1>3, <1>8
  <2>4. Len(path') - 1 = n
    BY <1>8
  <2>5. Chain'
    BY <1>1, <2>2, <2>3, <2>4 DEF Chain, Deps, StepNumbers
  <2> QED
    BY <1>1, <1>5, <2>1, <2>5, PlanKept DEF ReviewInv, SearchInv
<1>10. VerdictInv'
  BY <1>1 DEF ReviewInv, VerdictInv, VerdictIsJustified
<1> QED
  BY <1>6, <1>7, <1>9, <1>10 DEF ReviewInv

LEMMA CloseCycleStep == ASSUME ReviewInv, CloseCycle PROVE ReviewInv'
<1>1. /\ UNCHANGED <<draft, visited, score>> /\ path # <<>> /\ stage = "searching"
      /\ Deps(path[Len(path)]) \cap OnStack # {} /\ stage' = "searched" /\ path' = <<>>
      /\ issues = {} /\ issues' = {"cycle"} /\ StepNumbers # {}
  BY DEF CloseCycle, Stage, SamePlan, ReviewInv, StageInv
<1>2. ~CanComplete'
  BY <1>1, CycleMeans, PlanKept
<1>3. ReviewTypeOK' /\ StageInv'
  BY <1>1 DEF ReviewInv, ReviewTypeOK, StageInv, ReviewStages, StepNumbers
<1>4. SearchInv'
  BY <1>1 DEF SearchInv
<1>5. VerdictInv'
  BY <1>1, <1>2 DEF VerdictInv, VerdictIsJustified
<1> QED
  BY <1>3, <1>4, <1>5 DEF ReviewInv

LEMMA ReturnStep == ASSUME ReviewInv, Return PROVE ReviewInv'
<1> DEFINE t == path[Len(path)]
<1>1. /\ UNCHANGED <<draft, stage, visited, issues, score>> /\ path # <<>> /\ stage = "searching"
      /\ Deps(t) \subseteq visited \ OnStack /\ path' = SubSeq(path, 1, Len(path) - 1)
      /\ issues = {}
  BY DEF Return, SamePlan, ReviewInv, StageInv
<1>2. path \in Seq(StepNumbers \union {Unknown}) /\ Len(path) \in Nat \ {0}
  BY <1>1 DEF ReviewInv, ReviewTypeOK
<1>3. /\ path' \in Seq(StepNumbers \union {Unknown}) /\ Len(path') = Len(path) - 1
      /\ \A k \in 1 .. Len(path) - 1 : path'[k] = path[k]
  <2>1. PICK n \in Nat : Len(path) = n + 1
    BY <1>2
  <2>2. \A k \in 1 .. n : path[k] \in StepNumbers \union {Unknown}
    BY <1>2, <2>1
  <2>3. path' = SubSeq(path, 1, n)
    BY <1>1, <2>1
  <2>4. /\ path' \in Seq(StepNumbers \union {Unknown})
        /\ Len(path') = IF 1 <= n THEN n - 1 + 1 ELSE 0
        /\ \A k \in 1 .. n - 1 + 1 : path'[k] = path[1 + k - 1]
    BY <2>2, <2>3, SubSeqProperties
  <2> QED
    BY <2>1, <2>4
<1>4. OnStack = OnStack' \union {t}
  <2>1. DOMAIN path = 1 .. Len(path) /\ DOMAIN path' = 1 .. Len(path) - 1
    BY <1>2, <1>3
  <2>2. \A k \in 1 .. Len(path) : k = Len(path) \/ k \in 1 .. Len(path) - 1
    BY <1>2
  <2>3. 1 .. Len(path) - 1 \subseteq 1 .. Len(path) /\ Len(path) \in 1 .. Len(path)
    BY <1>2
  <2> QED
    BY <1>3, <2>1, <2>2, <2>3 DEF OnStack
<1> HIDE DEF t
<1>5. Left \subseteq Left' /\ Left' \subseteq Left \union {t}
  BY <1>1, <1>4 DEF Left
<1>6. Deps(t) \subseteq Left
  BY <1>1 DEF Left
<1>7. \A i \in Left' : Deps(i) \subseteq Left'
  BY <1>1, <1>5, <1>6 DEF ReviewInv, SearchInv
<1>8. ASSUME NEW D \in SUBSET Left', D # {} PROVE \E i \in D : Deps(i) \intersect D = {}
  <2>1. CASE D \subseteq Left
    BY <1>1, <1>8, <2>1 DEF ReviewInv, SearchInv
  <2>2. CASE t \in D /\ t \notin Left /\ D # {t}
    <3>1. D \ {t} \in SUBSET Left /\ D \ {t} # {}
      BY <1>5, <1>8, <2>2
    <3>2. PICK i \in D \ {t} : Deps(i) \intersect (D \ {t}) = {}
      BY <1>1, <3>1 DEF ReviewInv, SearchInv
    <3>3. t \notin Deps(i)
      BY <1>1, <2>2, <3>1, <3>2 DEF ReviewInv, SearchInv
    <3> QED
      BY <3>2, <3>3
  <2>3. CASE D = {t} /\ t \notin Left
    BY <1>6, <2>3
  <2> QED
    BY <1>5, <1>8, <2>1, <2>2, <2>3
<1>9. ReviewTypeOK'
  BY <1>1, <1>3 DEF ReviewInv, ReviewTypeOK, StepNumbers
<1>10. StageInv'
  BY <1>1 DEF ReviewInv, StageInv, StepNumbers
<1>11. Chain'
  <2>1. PICK n \in Nat : n = Len(path') /\ Len(path) = n + 1
    BY <1>2, <1>3
  <2>2. ASSUME NEW k \in 1 .. n - 1 PROVE path'[k + 1] \in Deps(path'[k])
    <3>1. k \in 1 .. n /\ k + 1 \in 1 .. n /\ n = Len(path) - 1
      BY <2>1
    <3> QED
      BY <1>1, <1>3, <3>1 DEF ReviewInv, SearchInv, Chain
  <2> QED
    BY <1>1, <2>1, <2>2 DEF Chain, Deps, StepNumbers
<1>12. SearchInv'
  <2>1. OnStack' \subseteq visited'
    BY <1>1, <1>4 DEF ReviewInv, SearchInv
  <2>2. \A i \in Left' : Deps(i)' \subseteq Left'
    BY <1>1, <1>7 DEF Deps, StepNumbers
  <2>3. \A D \in SUBSET Left' : D # {} => \E i \in D : Deps(i)' \intersect D = {}
    BY <1>1, <1>8 DEF Deps, StepNumbers
  <2> QED
    BY <1>11, <2>1, <2>2, <2>3 DEF SearchInv
<1>13. VerdictInv'
  BY <1>1 DEF ReviewInv, VerdictInv, VerdictIsJustified
<1> QED
  BY <1>9, <1>10, <1>12, <1>13 DEF ReviewInv

LEMMA SearchedStep == ASSUME ReviewInv, Searched PROVE ReviewInv'
<1>1. /\ UNCHANGED <<draft, visited, path, issues, score>> /\ stage = "searching" /\ path = <<>>
      /\ StepNumbers \subseteq visited /\ stage' = "searched" /\ issues = {} /\ StepNumbers # {}
  BY DEF Searched, Stage, SamePlan, ReviewInv, StageInv
<1>2. ReviewTypeOK' /\ StageInv'
  BY <1>1 DEF ReviewInv, ReviewTypeOK, StageInv, ReviewStages, StepNumbers
<1>3. SearchInv'
  BY <1>1 DEF ReviewInv, SearchInv, Chain, OnStack, Left, Deps, StepNumbers
<1>4. VerdictInv'
  BY <1>1 DEF VerdictInv, VerdictIsJustified
<1> QED
  BY <1>2, <1>3, <1>4 DEF ReviewInv

-----------------------------------------------------------------------------
(* The verdict.                                                             *)
LEMMA JudgeStructureStep == ASSUME ReviewInv, JudgeStructure PROVE ReviewInv'
<1>1. /\ UNCHANGED <<draft, visited, path>> /\ stage = "searched" /\ stage' = "structured"
      /\ issues \subseteq {"cycle"} /\ StepNumbers # {} /\ path = <<>>
      /\ issues' = issues \union (IF Dangling # {} THEN {"dangling"} ELSE {})
  BY DEF JudgeStructure, Stage, SamePlan, ReviewInv, StageInv
<1>2. "cycle" \in issues <=> "cycle" \in issues'
  BY <1>1
<1>3. ReviewTypeOK' /\ StageInv'
  BY <1>1 DEF ReviewInv, ReviewTypeOK, StageInv, ReviewStages, StepNumbers
<1>4. SearchInv'
  BY <1>1, <1>2 DEF ReviewInv, SearchInv, Chain, OnStack, Left, Deps, StepNumbers
<1>5. issues' = {} <=> CanComplete
  <2>1. CASE "cycle" \in issues
    BY <1>1, <2>1 DEF ReviewInv, VerdictInv
  <2>2. CASE Dangling # {}
    BY <1>1, <2>2, DanglingMeans DEF ReviewInv, ReviewTypeOK
  <2>3. CASE "cycle" \notin issues /\ Dangling = {}
    <3>1. issues = {} /\ issues' = {}
      BY <1>1, <2>3
    <3>2. CanComplete
      BY <1>1, <2>3, <3>1, LeftCompletes DEF ReviewInv, StageInv
    <3> QED
      BY <3>1, <3>2
  <2> QED
    BY <2>1, <2>2, <2>3
<1>6. "cycle" \in issues => score' \in Int /\ score' <= 20
  <2> SUFFICES ASSUME "cycle" \in issues PROVE score' \in Int /\ score' <= 20
    OBVIOUS
  <2>1. IsFiniteSet(StepNumbers)
    BY PRAssumption, FS_Subset DEF ReviewInv, ReviewTypeOK, StepNumbers
  <2>2. Dangling \subseteq StepNumbers /\ Orphans \subseteq StepNumbers
    BY DEF Dangling, Orphans
  <2>3. PICK x \in Nat : x = Cardinality(Dangling)
    BY <2>1, <2>2, FS_Subset, FS_CardinalityType
  <2>4. PICK y \in Nat : y = Cardinality(Orphans)
    BY <2>1, <2>2, FS_Subset, FS_CardinalityType
  <2>5. score' = IF 20 - 10 * x - 5 * y < 0 THEN 0 ELSE 20 - 10 * x - 5 * y
    BY <2>3, <2>4 DEF JudgeStructure
  <2> QED
    BY <2>5
<1>7. VerdictInv'
  BY <1>1, <1>2, <1>5, <1>6, PlanKept DEF ReviewInv, VerdictInv, VerdictIsJustified
<1> QED
  BY <1>3, <1>4, <1>7 DEF ReviewInv

LEMMA JudgeQualityStep == ASSUME ReviewInv, NEW q, JudgeQuality(q) PROVE ReviewInv'
<1>1. /\ UNCHANGED <<draft, visited, path, issues>> /\ stage = "structured" /\ stage' = "verified"
      /\ score' = IF score < 30 \/ q = -1 THEN score ELSE (score * 40 + q * 60) \div 100
  BY DEF JudgeQuality, Stage, SamePlan
<1>2. ReviewTypeOK' /\ StageInv'
  BY <1>1 DEF ReviewInv, ReviewTypeOK, StageInv, ReviewStages, StepNumbers
<1>3. SearchInv'
  BY <1>1 DEF ReviewInv, SearchInv, Chain, OnStack, Left, Deps, StepNumbers
<1>4. issues \intersect {"empty", "cycle"} # {} => score' \in Int /\ score' <= 20
  <2> SUFFICES ASSUME issues \intersect {"empty", "cycle"} # {} PROVE score' \in Int /\ score' <= 20
    OBVIOUS
  <2>1. score \in Int /\ score <= 20
    BY <1>1 DEF ReviewInv, VerdictInv
  <2>2. score < 30
    BY <2>1
  <2> QED
    BY <1>1, <2>1, <2>2
<1>5. VerdictInv'
  BY <1>1, <1>4, PlanKept DEF ReviewInv, VerdictInv, VerdictIsJustified
<1> QED
  BY <1>2, <1>3, <1>5 DEF ReviewInv

LEMMA RunPlanStep == ASSUME ReviewInv, NEW F, RunPlan(F) PROVE ReviewInv'
<1>1. /\ UNCHANGED <<draft, visited, path, issues, score>> /\ stage = "verified" /\ stage' = "ran"
      /\ score >= Threshold
  BY DEF RunPlan, Stage, IsValid
<1>2. ReviewTypeOK' /\ StageInv'
  BY <1>1 DEF ReviewInv, ReviewTypeOK, StageInv, ReviewStages, StepNumbers
<1>3. SearchInv'
  BY <1>1 DEF ReviewInv, SearchInv, Chain, OnStack, Left, Deps, StepNumbers
<1>4. issues \intersect {"empty", "cycle"} = {}
  <2>1. Threshold \in Int /\ Threshold >= 31
    BY PRAssumption
  <2>2. issues \intersect {"empty", "cycle"} # {} => score \in Int /\ score <= 20
    BY <1>1 DEF ReviewInv, VerdictInv
  <2> QED
    BY <1>1, <2>1, <2>2
<1>5. VerdictInv'
  BY <1>1, <1>4 DEF ReviewInv, ReviewTypeOK, VerdictInv, VerdictIsJustified
<1> QED
  BY <1>2, <1>3, <1>5 DEF ReviewInv

(* What comes after, until another plan is written.                         *)
LEMMA AfterwardsStep ==
  ASSUME ReviewInv, UNCHANGED <<draft, visited, path, issues, score>>,
         stage \in {"verified", "ran", "evaluated", "replanning"},
         stage' \in {"evaluated", "replanning", "kept"}
  PROVE ReviewInv'
<1>1. ReviewTypeOK' /\ StageInv'
  BY DEF ReviewInv, ReviewTypeOK, StageInv, ReviewStages, StepNumbers
<1>2. SearchInv'
  BY DEF ReviewInv, SearchInv, Chain, OnStack, Left, Deps, StepNumbers
<1>3. VerdictInv'
  BY PlanKept DEF ReviewInv, VerdictInv, VerdictIsJustified
<1> QED
  BY <1>1, <1>2, <1>3 DEF ReviewInv

LEMMA ReplanStep == ASSUME ReviewInv, NEW d \in Drafts, ReplanDraft(d) PROVE ReviewInv'
<1>1. /\ draft' = d /\ stage' = "written" /\ visited' = {} /\ issues' = {} /\ path' = <<>>
  BY DEF ReplanDraft, Stage, ReviewInv, StageInv
<1>2. ReviewTypeOK' /\ StageInv'
  BY <1>1 DEF ReviewTypeOK, StageInv, ReviewStages
<1>3. SearchInv'
  BY <1>1 DEF SearchInv, Chain, OnStack, Left
<1>4. VerdictInv'
  BY <1>1 DEF VerdictInv, VerdictIsJustified
<1> QED
  BY <1>2, <1>3, <1>4 DEF ReviewInv

LEMMA ReviewInvStep == ReviewInv /\ [ReviewNext]_reviewVars => ReviewInv'
<1> SUFFICES ASSUME ReviewInv, [ReviewNext]_reviewVars PROVE ReviewInv'
  OBVIOUS
<1>1. CASE UNCHANGED reviewVars
  <2>1. UNCHANGED <<draft, visited, path, issues, score, stage>>
    BY <1>1 DEF reviewVars
  <2>2. ReviewTypeOK' /\ StageInv'
    BY <2>1 DEF ReviewInv, ReviewTypeOK, StageInv, StepNumbers
  <2>3. SearchInv'
    BY <2>1 DEF ReviewInv, SearchInv, Chain, OnStack, Left, Deps, StepNumbers
  <2>4. VerdictInv'
    BY <2>1, PlanKept DEF ReviewInv, VerdictInv, VerdictIsJustified
  <2> QED
    BY <2>2, <2>3, <2>4 DEF ReviewInv
<1>2. ASSUME NEW q, NEW s, EvaluatePlan(q, s) PROVE ReviewInv'
  BY <1>2, AfterwardsStep DEF EvaluatePlan, Stage, SamePlan
<1>3. CASE ShouldReplan
  BY <1>3, AfterwardsStep DEF ShouldReplan, Stage, SamePlan
<1>4. CASE ReplanFails
  BY <1>4, AfterwardsStep DEF ReplanFails, Stage, SamePlan
<1> QED
  BY <1>1, <1>2, <1>3, <1>4, VerifyPlanStep, CloseCycleStep, ReturnStep, SearchedStep,
     JudgeStructureStep, SearchStep, DescendStep, JudgeQualityStep, RunPlanStep, ReplanStep
     DEF ReviewNext

(* The verifier finds an issue with a plan exactly when a strategy would     *)
(* come to a point where no step is ready, or the plan is empty; and a plan  *)
(* that is run has no cycle (checkCircularDependencies, VerifyPlan).        *)
THEOREM VerdictCorrect == ReviewSpec => []VerdictIsJustified
<1>1. ReviewSpec => []ReviewInv
  BY InitReviewInv, ReviewInvStep, PTL DEF ReviewSpec
<1>2. ReviewInv => VerdictIsJustified
  BY DEF ReviewInv, VerdictInv
<1> QED
  BY <1>1, <1>2, PTL
=============================================================================
