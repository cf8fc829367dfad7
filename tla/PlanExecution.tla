--------------------------- MODULE PlanExecution ---------------------------
(***************************************************************************)
(* PlanExecuteStrategy of plan_execute_strategy.go: calls of Execute on    *)
(* one strategy, each of which has its task planned, runs the plan in      *)
(* rounds of one goroutine per ready step, and has it planned anew when a  *)
(* round fails.  The plans go to a PlanStoreWrapper, which others use too. *)
(*                                                                         *)
(* Nothing in the strategy is locked.  The goroutines of a round append to *)
(* execution.Steps and write the map completedSteps; the calls share       *)
(* currentPlan and planHistory.                                            *)
(*                                                                         *)
(* A plan is named by its call and its version.  Only a call's latest plan *)
(* has its steps here: the others never change again.                      *)
(***************************************************************************)
EXTENDS PlanStore

CONSTANTS Calls,      \* calls of Execute
          Users,      \* goroutines of the application that use the plan store
          Steps,      \* step numbers
          Shapes,     \* the plans a planner may answer with: dependencies by step
          MaxReplan,  \* s.maxReplanAttempts; 0 also stands for a strategy that may not replan
          Strange     \* a dependency that names no step of its plan

Versions == 1 .. MaxReplan + 1

ASSUME PEAssumption ==
  /\ MaxReplan \in Nat
  /\ Plans = Calls \X Versions
  /\ Clients = Calls \union Users
  /\ Calls \intersect Users = {}
  /\ 0 \in Revisions
  /\ Strange \notin Steps
  /\ \A sh \in Shapes : DOMAIN sh \subseteq Steps
  /\ \A sh \in Shapes : \A i \in DOMAIN sh : sh[i] \subseteq Steps \union {Strange}

VARIABLES pc,          \* where each call of Execute is
          attempts,    \* replanAttempts
          deps,        \* the dependencies of the steps of the call's plan
          status,      \* the status of each step of it
          planStatus,  \* plan.Status
          worker,      \* the goroutine of each step
          seen,        \* execution.Steps as the goroutine read it
          steps,       \* execution.Steps
          current,     \* s.currentPlan
          history,     \* s.planHistory
          read,        \* s.planHistory as a call that appends to it read it
          saves,       \* s.planStore is there
          expired,     \* calls whose context is done
          crashed,     \* the process was brought down by a concurrent map write
          lost,        \* calls in which appends to execution.Steps overlapped
          missed       \* appends to s.planHistory overlapped

shared == <<current, history, read, missed>>
record == <<seen, steps, lost>>
plan   == <<deps, status, planStatus, worker>>
local  == <<pc, attempts, plan, record, expired>>
vars   == <<local, shared, saves, crashed, planStore>>

NoPlan  == <<>>
Stages  == {"idle", "planning", "recording", "saving", "deciding", "executing",
            "incomplete", "replanning", "completed", "failed", "cancelled"}
Over    == {"completed", "failed", "cancelled"}

PlanOf(c) == <<c, attempts[c] + 1>>
StepsOf(c) == DOMAIN deps[c]

TypeOK ==
  /\ PlanStoreTypeOK
  /\ pc \in [Calls -> Stages]
  /\ attempts \in [Calls -> 0 .. MaxReplan]
  /\ deps \in [Calls -> Shapes \union {<<>>}]
  /\ status \in [Calls -> [Steps -> {"pending", "running", "completed", "failed"}]]
  /\ planStatus \in [Calls -> {"pending", "in_progress", "completed", "failed"}]
  /\ worker \in [Calls -> [Steps -> {"off", "asking", "appending", "marking", "ok", "failed"}]]
  /\ seen \in [Calls -> [Steps -> SUBSET (Versions \X Steps)]]
  /\ steps \in [Calls -> SUBSET (Versions \X Steps)]
  /\ current \in Plans \union {NoPlan}
  /\ history \in SUBSET Plans
  /\ read \in [Calls -> SUBSET Plans]
  /\ saves \in BOOLEAN
  /\ expired \in SUBSET Calls
  /\ crashed \in BOOLEAN
  /\ lost \in SUBSET Calls
  /\ missed \in BOOLEAN

-----------------------------------------------------------------------------
(* NewPlanExecuteStrategy, with or without a plan store. *)
Init ==
  /\ PlanStoreInit
  /\ pc = [c \in Calls |-> "idle"]
  /\ attempts = [c \in Calls |-> 0]
  /\ deps = [c \in Calls |-> <<>>]
  /\ status = [c \in Calls |-> [i \in Steps |-> "pending"]]
  /\ planStatus = [c \in Calls |-> "pending"]
  /\ worker = [c \in Calls |-> [i \in Steps |-> "off"]]
  /\ seen = [c \in Calls |-> [i \in Steps |-> {}]]
  /\ steps = [c \in Calls |-> {}]
  /\ current = NoPlan
  /\ history = {}
  /\ read = [c \in Calls |-> {}]
  /\ saves \in BOOLEAN
  /\ expired = {}
  /\ crashed = FALSE
  /\ lost = {}
  /\ missed = FALSE

Goto(c, l) == pc' = [pc EXCEPT ![c] = l]

Begin(c) ==
  /\ pc[c] = "idle"
  /\ Goto(c, "planning")
  /\ UNCHANGED <<attempts, plan, record, expired, shared, saves, crashed, planStore>>

(* The planner's answer becomes a plan, all of whose steps are pending. *)
NewPlan(c) ==
  /\ deps' \in {[deps EXCEPT ![c] = sh] : sh \in Shapes}
  /\ status' = [status EXCEPT ![c] = [i \in Steps |-> "pending"]]
  /\ planStatus' = [planStatus EXCEPT ![c] = "pending"]
  /\ Goto(c, "recording")
  /\ UNCHANGED <<worker, record, expired, saves, crashed, planStore>>

(* s.currentPlan = plan, and the first half of the append to s.planHistory. *)
Publish(c, p) ==
  /\ current' = p
  /\ read' = [read EXCEPT ![c] = history]
  /\ missed' = (missed \/ \E d \in Calls : pc[d] = "recording")
  /\ UNCHANGED history

(* createPlan and what follows it in Execute. *)
CreatePlan(c) ==
  /\ pc[c] = "planning"
  /\ NewPlan(c)
  /\ Publish(c, PlanOf(c))
  /\ UNCHANGED attempts

(* replan: the failed plan's version plus one. *)
Replan(c) ==
  /\ pc[c] = "replanning"
  /\ NewPlan(c)
  /\ attempts' = [attempts EXCEPT ![c] = @ + 1]
  /\ Publish(c, <<c, attempts[c] + 2>>)

(* The planner fails, answers nothing, or answers with no plan. *)
PlanningFails(c) ==
  /\ pc[c] \in {"planning", "replanning"}
  /\ Goto(c, "failed")
  /\ UNCHANGED <<attempts, plan, record, expired, shared, saves, crashed, planStore>>

(* A variant that replaces the history. *)
RecordReplaces(c) ==
  /\ pc[c] = "recording"
  /\ history' = {PlanOf(c)}
  /\ read' = [read EXCEPT ![c] = {}]
  /\ Goto(c, IF saves THEN "saving" ELSE "deciding")
  /\ UNCHANGED <<attempts, plan, record, expired, current, missed, saves, crashed, planStore>>

(* The second half of the append to s.planHistory. *)
Record(c) ==
  /\ pc[c] = "recording"
  /\ history' = read[c] \union {PlanOf(c)}
  /\ read' = [read EXCEPT ![c] = {}]
  /\ Goto(c, IF saves THEN "saving" ELSE "deciding")
  /\ UNCHANGED <<attempts, plan, record, expired, current, missed, saves, crashed, planStore>>

(* s.planStore.Save, of a plan that is pending: it is not saved again.  The *)
(* store's part may fail, which is logged or ignored.                       *)
SavePlan(c) ==
  /\ pc[c] = "saving"
  /\ StoreSave(c, PlanOf(c), 0)
  /\ UNCHANGED <<local, shared, saves, crashed>>

PlanSaved(c) ==
  /\ pc[c] = "saving"
  /\ CacheSave(c)
  /\ Goto(c, "deciding")
  /\ UNCHANGED <<attempts, plan, record, expired, shared, saves, crashed>>

SaveFails(c) ==
  /\ pc[c] = "saving"
  /\ op[c] = Idle
  /\ Goto(c, "deciding")
  /\ UNCHANGED <<attempts, plan, record, expired, shared, saves, crashed, planStore>>

(* The head of the loop: only here does Execute look at its context. *)
Decide(c) ==
  /\ pc[c] = "deciding"
  /\ IF c \in expired
       THEN Goto(c, "cancelled") /\ UNCHANGED planStatus
       ELSE /\ Goto(c, "executing")
            /\ planStatus' = [planStatus EXCEPT ![c] = "in_progress"]
  /\ UNCHANGED <<attempts, deps, status, worker, record, expired, shared, saves, crashed, planStore>>

-----------------------------------------------------------------------------
(* plan.GetPendingSteps: the pending steps whose dependencies are complete. *)
(* A dependency that names no step of the plan is never complete.           *)
Completed(c) == {i \in StepsOf(c) : status[c][i] = "completed"}
Ready(c)     == {i \in StepsOf(c) : status[c][i] = "pending" /\ deps[c][i] \subseteq Completed(c)}

Quiet(c) == \A i \in Steps : worker[c][i] = "off"
Spent(c) == /\ ~Quiet(c)
            /\ \A i \in Steps : worker[c][i] \in {"off", "ok", "failed"}

(* One goroutine per ready step.  Nothing reads that the step is running    *)
(* before the goroutine has finished it.                                    *)
BeginRound(c) ==
  /\ pc[c] = "executing"
  /\ Quiet(c)
  /\ Ready(c) # {}
  /\ worker' = [worker EXCEPT ![c] = [i \in Steps |-> IF i \in Ready(c) THEN "asking" ELSE "off"]]
  /\ status' = [status EXCEPT ![c] = [i \in Steps |-> IF i \in Ready(c) THEN "running" ELSE @[i]]]
  /\ UNCHANGED <<pc, attempts, deps, planStatus, record, expired, shared, saves, crashed, planStore>>

(* A variant that returns with the first error and does not wait. *)
EndRoundEarly(c) ==
  /\ pc[c] = "executing"
  /\ Spent(c) \/ \E i \in Steps : worker[c][i] = "failed"
  /\ Goto(c, IF \E i \in Steps : worker[c][i] = "failed" THEN "incomplete" ELSE "executing")
  /\ worker' = [worker EXCEPT ![c] = [i \in Steps |->
                   IF @[i] \in {"ok", "failed"} THEN "off" ELSE @[i]]]
  /\ UNCHANGED <<attempts, deps, status, planStatus, record, expired, shared, saves, crashed, planStore>>

(* wg.Wait, and the first error of the round. *)
EndRound(c) ==
  /\ pc[c] = "executing"
  /\ Spent(c)
  /\ Goto(c, IF \E i \in Steps : worker[c][i] = "failed" THEN "incomplete" ELSE "executing")
  /\ worker' = [worker EXCEPT ![c] = [i \in Steps |-> "off"]]
  /\ UNCHANGED <<attempts, deps, status, planStatus, record, expired, shared, saves, crashed, planStore>>

(* A variant that takes a plan with nothing left to run for complete. *)
PlanEndsUnchecked(c) ==
  /\ pc[c] = "executing"
  /\ Quiet(c)
  /\ Ready(c) = {}
  /\ Goto(c, "completed")
  /\ planStatus' = [planStatus EXCEPT ![c] = "completed"]
  /\ UNCHANGED <<attempts, deps, status, worker, record, expired, shared, saves, crashed, planStore>>

(* No step is ready: the plan is complete, or some step never will be.  A  *)
(* complete plan is verified, with no consequence.                         *)
PlanEnds(c) ==
  /\ pc[c] = "executing"
  /\ Quiet(c)
  /\ Ready(c) = {}
  /\ IF Completed(c) = StepsOf(c)
       THEN Goto(c, "completed") /\ planStatus' = [planStatus EXCEPT ![c] = "completed"]
       ELSE Goto(c, "incomplete") /\ planStatus' = [planStatus EXCEPT ![c] = "failed"]
  /\ UNCHANGED <<attempts, deps, status, worker, record, expired, shared, saves, crashed, planStore>>

(* A variant that runs the same plan again. *)
AfterFailureAgain(c) ==
  /\ pc[c] = "incomplete"
  /\ Goto(c, "deciding")
  /\ UNCHANGED <<attempts, plan, record, expired, shared, saves, crashed, planStore>>

(* executePlan has failed: once more, or no more. *)
AfterFailure(c) ==
  /\ pc[c] = "incomplete"
  /\ Goto(c, IF attempts[c] >= MaxReplan THEN "failed" ELSE "replanning")
  /\ UNCHANGED <<attempts, plan, record, expired, shared, saves, crashed, planStore>>

-----------------------------------------------------------------------------
Worker(c, i, from, to) == /\ worker[c][i] = from
                          /\ worker' = [worker EXCEPT ![c][i] = to]

(* executeStep: the model or a tool fails, or the model says nothing. *)
StepFails(c, i) ==
  /\ Worker(c, i, "asking", "failed")
  /\ status' = [status EXCEPT ![c][i] = "failed"]
  /\ UNCHANGED <<pc, attempts, deps, planStatus, record, expired, shared, saves, crashed, planStore>>

(* The step is complete, and the goroutine reads execution.Steps. *)
StepAnswers(c, i) ==
  /\ Worker(c, i, "asking", "appending")
  /\ status' = [status EXCEPT ![c][i] = "completed"]
  /\ seen' = [seen EXCEPT ![c][i] = steps[c]]
  /\ lost' = IF \E j \in Steps : worker[c][j] = "appending" THEN lost \union {c} ELSE lost
  /\ UNCHANGED <<pc, attempts, deps, planStatus, steps, expired, shared, saves, crashed, planStore>>

(* It writes execution.Steps, verifies the step, with no consequence, and  *)
(* goes on to completedSteps[st.ID] = true.                                *)
AppendStep(c, i) ==
  /\ Worker(c, i, "appending", "marking")
  /\ steps' = [steps EXCEPT ![c] = seen[c][i] \union {<<attempts[c] + 1, i>>}]
  /\ seen' = [seen EXCEPT ![c][i] = {}]
  /\ UNCHANGED <<pc, attempts, deps, status, planStatus, lost, expired, shared, saves, crashed, planStore>>

MarkStep(c, i) ==
  /\ Worker(c, i, "marking", "ok")
  /\ UNCHANGED <<pc, attempts, deps, status, planStatus, record, expired, shared, saves, crashed, planStore>>

(* Two goroutines write the map at once and the run time ends the process. *)
MapWritesCollide(c) ==
  /\ \E i, j \in Steps : i # j /\ worker[c][i] = "marking" /\ worker[c][j] = "marking"
  /\ crashed' = TRUE
  /\ UNCHANGED <<local, shared, saves, planStore>>

(* The deadline of Execute, or its caller. *)
Expire(c) ==
  /\ pc[c] \notin Over \union {"idle"}
  /\ expired' = expired \union {c}
  /\ UNCHANGED <<pc, attempts, plan, record, shared, saves, crashed, planStore>>

(* The application uses the plans of the strategy's history. *)
Use(u) ==
  /\ \/ \E p \in history, r \in Revisions : StoreSave(u, p, r)
     \/ \E p \in history : Miss(u, p) \/ StoreDelete(u, p)
     \/ StoreLoad(u)
     \/ CacheStep(u)
  /\ UNCHANGED <<local, shared, saves, crashed>>

Clear == saves /\ ClearCache /\ UNCHANGED <<local, shared, saves, crashed>>

CallStep(c) ==
  \/ CreatePlan(c) \/ Replan(c) \/ PlanningFails(c) \/ Record(c)
  \/ SavePlan(c) \/ PlanSaved(c) \/ SaveFails(c)
  \/ Decide(c) \/ BeginRound(c) \/ EndRound(c) \/ PlanEnds(c) \/ AfterFailure(c)
  \/ \E i \in Steps : StepFails(c, i) \/ StepAnswers(c, i) \/ AppendStep(c, i) \/ MarkStep(c, i)

Next ==
  /\ ~crashed
  /\ \/ \E c \in Calls : Begin(c) \/ CallStep(c) \/ Expire(c) \/ MapWritesCollide(c)
     \/ saves /\ \E u \in Users : Use(u)
     \/ Clear

(* Goroutines run, and models and tools answer or fail in the end, because *)
(* they are given a context with a timeout.                                *)
Fairness == \A c \in Calls : WF_vars(~crashed /\ CallStep(c))

Spec     == Init /\ [][Next]_vars
FairSpec == Spec /\ Fairness

-----------------------------------------------------------------------------
(* A call that reports completed has completed every step of its last plan, *)
(* however often it planned anew: the loop over the attempts is left only   *)
(* through a plan that succeeded (Execute, executePlan).                    *)
CompletedIsDone ==
  \A c \in Calls : pc[c] = "completed" =>
    Completed(c) = StepsOf(c) /\ planStatus[c] = "completed"

(* A step runs only once all it depends on is complete, and no call goes on *)
(* to another plan, or returns, while a goroutine of a round is still at    *)
(* work on the old one, be it because another step of the round has failed  *)
(* (GetPendingSteps, wg.Wait in executePlan).                               *)
RoundsAreClosed ==
  \A c \in Calls, i \in Steps : worker[c][i] # "off" =>
    /\ pc[c] = "executing"
    /\ i \in StepsOf(c)
    /\ deps[c][i] \subseteq Completed(c)

(* Every step that was completed is on the execution's record, and every    *)
(* plan in the strategy's history, except where two goroutines appended to  *)
(* the same slice at once (execution.Steps, s.planHistory).                 *)
NothingForgotten ==
  /\ \A c \in Calls \ lost, i \in Steps :
       i \in Completed(c) /\ worker[c][i] # "appending" => <<attempts[c] + 1, i>> \in steps[c]
  /\ ~missed => \A c \in Calls : pc[c] \in {"saving", "deciding", "executing", "incomplete", "completed"}
         => PlanOf(c) \in history

(* What is on record is true: completed plans are done, and nothing is      *)
(* missing from executions and history.                                    *)
RecordsAreTrue == CompletedIsDone /\ NothingForgotten

(* Plans are followed step by step, and recorded as they were followed. *)
PlansAreFollowed == RoundsAreClosed /\ RecordsAreTrue

(* Every call of Execute comes to an end, unless the process does: a plan   *)
(* whose steps wait for a dependency it does not have is given up, and so   *)
(* is the task after MaxReplan attempts.                                    *)
Terminates == \A c \in Calls : (pc[c] # "idle") ~> (pc[c] \in Over \/ crashed)
=============================================================================
