-------------------------- MODULE MCPlanExecution --------------------------
(* Instances for TLC of the strategies of an agent and of the engines that  *)
(* judge plans; in each behaviour one of the three, the subject, moves.     *)
(*   "plan"    PlanExecution: without a plan store, two calls of Execute at *)
(*             once; with one, a single call and the users of the store;    *)
(*   "react"   ReactStrategy: two calls of Execute;                         *)
(*   "review"  PlanReview: any plan of up to three steps.                   *)
EXTENDS PlanExecution, ReactStrategy, PlanReview

CONSTANTS c1, c2

VARIABLE subject

allVars == <<vars, reactVars, reviewVars, subject>>

MCPlans   == Calls \X (1 .. MaxReplan + 1)
MCClients == Calls \union Users

(* Two steps side by side and one that joins them; a step that waits for    *)
(* one that does not exist, alone or after another; and no steps at all.    *)
MCShapes == {<<{}, {}, {1, 2}>>, <<{}, {Strange}>>, <<{Strange}>>, <<>>}

(* All plans of three steps, and those of fewer with dependencies on none. *)
MCDrafts == [1 .. 3 -> SUBSET (1 .. 3)] \union
            UNION {[1 .. n -> SUBSET ((1 .. n) \union {Unknown})] : n \in 0 .. 2}

MCInit ==
  /\ ReactInit
  /\ \/ subject = "plan" /\ Init /\ draft = <<>> /\ ReviewAtRest
     \/ subject = "react" /\ Init /\ ~saves /\ draft = <<>> /\ ReviewAtRest
     \/ subject = "review" /\ Init /\ ~saves /\ ReviewInit

(* With a plan store the second call is never made, and the first one's     *)
(* plans, which are saved before they run, come to nothing; without one,    *)
(* the second call's plans are empty.                                       *)
Narrow == IF saves THEN pc'[c2] = "idle" /\ deps'[c1] \in {<<>>, <<{Strange}>>}
                   ELSE deps'[c2] = <<>>

(* A plan of two or more steps is replaced by none or by one of one step. *)
NarrowReview == version' # version => Len(draft) > 1 /\ Len(draft') < 2

MCNext ==
  /\ UNCHANGED subject
  /\ \/ subject = "plan" /\ Next /\ Narrow /\ UNCHANGED <<reactVars, reviewVars>>
     \/ subject = "react" /\ ReactNext /\ UNCHANGED <<vars, reviewVars>>
     \/ subject = "review" /\ ReviewNext /\ NarrowReview /\ UNCHANGED <<vars, reactVars>>

MCSpec == MCInit /\ [][MCNext]_allVars /\ Fairness
=============================================================================
