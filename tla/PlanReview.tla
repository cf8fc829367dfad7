------------------------------- MODULE PlanReview -------------------------------
(***************************************************************************)
(* The engines that judge and replace a plan, as the documentation uses    *)
(* them: PlanVerifier (plan_verification.go), ReflectionEngine             *)
(* (reflection.go) and ReplanEngine (replan_engine.go), called in turn by  *)
(* one goroutine on one plan, which may have run before.                   *)
(*                                                                         *)
(* The search for a cycle is modelled call by call; it may follow the      *)
(* dependencies of a step in any order.  Scores are in hundredths, and the *)
(* rounding of the code's floating point is left out.  A dependency that   *)
(* names no step is Unknown.                                               *)
(*                                                                         *)
(* The limit MaxReplanAttempts and the triggers' priorities are never      *)
(* read: triggers are tried in the order of their list, and only the       *)
(* application can end the loop.                                           *)
(***************************************************************************)
EXTENDS Integers, Sequences, FiniteSets

CONSTANTS Numbers,    \* steps: 1 .. n for some n
          Unknown,    \* a dependency on no step
          Drafts,     \* the plans a model may write: dependencies by step
          Threshold,  \* pv.qualityThreshold and re.qualityThreshold
          MaxVersion  \* bound: how many plans are made

ASSUME PRAssumption ==
  /\ IsFiniteSet(Numbers) /\ Numbers = 1 .. Cardinality(Numbers)
  /\ Unknown \notin Numbers
  /\ \A d \in Drafts : /\ DOMAIN d \subseteq Numbers
                       /\ \A i \in DOMAIN d : d[i] \subseteq DOMAIN d \cup {Unknown}
  /\ Threshold \in 31 .. 100
  /\ MaxVersion \in Nat

VARIABLES draft,       \* plan.Steps: the dependencies
          failed,      \* the steps whose Status is failed
          version,     \* plan.Version
          stage,       \* what is being done with the plan
          visited,     \* visited of checkCircularDependencies
          path,        \* recStack, as the stack of calls of hasCycle
          issues,      \* result.Issues: their kinds
          score,       \* result.Score
          reflection,  \* the reflection on the plan
          trigger      \* the trigger that ShouldReplan has found

reviewVars == <<draft, failed, version, stage, visited, path, issues, score,
                reflection, trigger>>

NoOpinion == [quality |-> "good", score |-> 80, replan |-> FALSE]

ReviewAtRest ==
  /\ failed = {}
  /\ version = 1
  /\ stage = "written"
  /\ visited = {}
  /\ path = <<>>
  /\ issues = {}
  /\ score = 100
  /\ reflection = NoOpinion
  /\ trigger = "none"

ReviewInit == draft \in Drafts /\ ReviewAtRest

-----------------------------------------------------------------------------
StepNumbers == DOMAIN draft
OnStack     == {path[i] : i \in DOMAIN path}
Deps(i)     == IF i \in StepNumbers THEN draft[i] ELSE {}

Stage(s)  == stage' = s
SamePlan  == UNCHANGED <<draft, failed, version>>
SameWords == UNCHANGED <<reflection, trigger>>

(* VerifyPlanStructure up to the search. *)
VerifyPlan ==
  /\ stage = "written"
  /\ IF StepNumbers = {}
       THEN Stage("structured") /\ issues' = {"empty"} /\ score' = 0
       ELSE Stage("searching") /\ UNCHANGED <<issues, score>>
  /\ SamePlan /\ SameWords /\ UNCHANGED <<visited, path>>

(* checkCircularDependencies calls hasCycle for the next unvisited step. *)
Search(i) ==
  /\ stage = "searching"
  /\ path = <<>>
  /\ i \in StepNumbers \ visited
  /\ \A j \in StepNumbers \ visited : i <= j
  /\ path' = <<i>>
  /\ visited' = visited \cup {i}
  /\ SamePlan /\ SameWords /\ UNCHANGED <<stage, issues, score>>

(* hasCycle calls itself for a dependency not yet visited. *)
Descend(d) ==
  /\ path # <<>>
  /\ d \in Deps(path[Len(path)]) \ visited
  /\ path' = Append(path, d)
  /\ visited' = visited \cup {d}
  /\ SamePlan /\ SameWords /\ UNCHANGED <<stage, issues, score>>

(* A variant that does not take the node off recStack: a later look at it   *)
(* finds a cycle where two ways only meet.                                 *)
CloseCycleVisited ==
  /\ path # <<>>
  /\ Deps(path[Len(path)]) \cap visited # {}
  /\ Stage("searched")
  /\ path' = <<>>
  /\ issues' = {"cycle"}
  /\ SamePlan /\ SameWords /\ UNCHANGED <<visited, score>>

(* It finds a dependency on the stack, and returns true all the way up. *)
CloseCycle ==
  /\ path # <<>>
  /\ Deps(path[Len(path)]) \cap OnStack # {}
  /\ Stage("searched")
  /\ path' = <<>>
  /\ issues' = {"cycle"}
  /\ SamePlan /\ SameWords /\ UNCHANGED <<visited, score>>

(* All dependencies are visited: it takes the node off the stack. *)
Return ==
  /\ path # <<>>
  /\ Deps(path[Len(path)]) \subseteq visited \ OnStack
  /\ path' = SubSeq(path, 1, Len(path) - 1)
  /\ SamePlan /\ SameWords /\ UNCHANGED <<stage, visited, issues, score>>

Searched ==
  /\ stage = "searching"
  /\ path = <<>>
  /\ StepNumbers \subseteq visited
  /\ Stage("searched")
  /\ SamePlan /\ SameWords /\ UNCHANGED <<visited, path, issues, score>>

(* The rest of VerifyPlanStructure: dependencies on no step, and steps but *)
(* the last that nothing depends on.  A cycle leaves 20 to start from.     *)
Dangling == {i \in StepNumbers : Unknown \in draft[i]}
Orphans  == {i \in StepNumbers : i < Len(draft) /\ \A j \in StepNumbers : i \notin draft[j]}

JudgeStructure ==
  /\ stage = "searched"
  /\ Stage("structured")
  /\ issues' = issues \cup (IF Dangling # {} THEN {"dangling"} ELSE {})
  /\ LET s == (IF "cycle" \in issues THEN 20 ELSE 100)
                - 10 * Cardinality(Dangling) - 5 * Cardinality(Orphans)
     IN score' = IF s < 0 THEN 0 ELSE s
  /\ SamePlan /\ SameWords /\ UNCHANGED <<visited, path>>

(* VerifyPlan: a hopeless structure, or a model that gives no opinion of   *)
(* the quality, leaves the structure's verdict.                            *)
JudgeQuality(q) ==
  /\ stage = "structured"
  /\ score' = IF score < 30 \/ q = -1 THEN score ELSE (score * 40 + q * 60) \div 100
  /\ Stage("verified")
  /\ SamePlan /\ SameWords /\ UNCHANGED <<visited, path, issues>>

IsValid == score >= Threshold

-----------------------------------------------------------------------------
(* The plan is run, and some of its steps fail. *)
RunPlan(F) ==
  /\ stage = "verified"
  /\ IsValid
  /\ F \subseteq StepNumbers
  /\ failed' = F
  /\ Stage("ran")
  /\ SameWords /\ UNCHANGED <<draft, version, visited, path, issues, score>>

(* EvaluatePlan, with ShouldReplan as it computes it, or not at all. *)
EvaluatePlan(q, s) ==
  /\ stage \in {"verified", "ran"}
  /\ Stage("evaluated")
  /\ reflection' = [quality |-> q, score |-> s, replan |-> s < Threshold \/ q = "invalid"]
  /\ SamePlan /\ UNCHANGED <<visited, path, issues, score, trigger>>

(* The default triggers of the ReplanEngine, in the order of their list. *)
Triggers == <<
  [name |-> "InvalidPlan",          priority |-> 100,
   holds |-> reflection.quality = "invalid"],
  [name |-> "LowQualityScore",      priority |-> 90,
   holds |-> reflection.score < 50],
  [name |-> "MultipleStepFailures", priority |-> 80,
   holds |-> Cardinality(failed) > Len(draft) \div 2],
  [name |-> "CriticalStepFailure",  priority |-> 85,
   holds |-> \E i \in failed : draft[i] = {}],
  [name |-> "ExplicitReplanFlag",   priority |-> 95,
   holds |-> reflection.replan] >>

Active == {i \in DOMAIN Triggers : Triggers[i].holds}

(* ReplanEngine.ShouldReplan: the first trigger whose condition holds. *)
ShouldReplan ==
  /\ stage = "evaluated"
  /\ IF Active = {}
       THEN Stage("kept") /\ UNCHANGED trigger
       ELSE /\ Stage("replanning")
            /\ trigger' = Triggers[CHOOSE i \in Active : \A j \in Active : i <= j].name
  /\ SamePlan /\ UNCHANGED <<visited, path, issues, score, reflection>>

(* ReplanEngine.Replan: another plan, of the next version, or an error. *)
ReplanDraft(d) ==
  /\ stage = "replanning"
  /\ version < MaxVersion
  /\ draft' = d
  /\ failed' = {}
  /\ version' = version + 1
  /\ Stage("written")
  /\ visited' = {} /\ issues' = {} /\ score' = 100
  /\ reflection' = NoOpinion
  /\ trigger' = "none"
  /\ UNCHANGED path

ReplanFails ==
  /\ stage = "replanning"
  /\ Stage("kept")
  /\ SamePlan /\ SameWords /\ UNCHANGED <<visited, path, issues, score>>

ReviewNext ==
  \/ VerifyPlan \/ CloseCycle \/ Return \/ Searched \/ JudgeStructure
  \/ \E i \in Numbers : Search(i)
  \/ \E d \in Numbers \cup {Unknown} : Descend(d)
  \/ \E q \in {-1, 30, 80} : JudgeQuality(q)
  \/ \E F \in SUBSET Numbers : RunPlan(F)
  \/ \E q \in {"good", "invalid"}, s \in {30, 60, 80} : EvaluatePlan(q, s)
  \/ ShouldReplan \/ ReplanFails
  \/ \E d \in Drafts : ReplanDraft(d)

ReviewSpec == ReviewInit /\ [][ReviewNext]_reviewVars

-----------------------------------------------------------------------------
(* Plan.GetPendingSteps, when the steps in done have completed; and the     *)
(* strategy is never left without a step that is ready.                     *)
GetPendingSteps(done) == {i \in StepNumbers \ done : draft[i] \subseteq done}

CanComplete ==
  \A done \in SUBSET StepNumbers : done # StepNumbers => GetPendingSteps(done) # {}

(* The verifier finds an issue with a plan exactly when the strategy that   *)
(* runs it would come to a step that is never ready, or the plan is empty; *)
(* and whatever the model says of its quality, it accepts no plan with a   *)
(* cycle in it (checkCircularDependencies, VerifyPlan, GetPendingSteps).   *)
VerdictIsJustified ==
  /\ stage \in {"structured", "verified"} =>
       (issues = {} <=> StepNumbers # {} /\ CanComplete)
  /\ stage = "ran" => issues \subseteq {"dangling"}
=============================================================================
