------------------------------- MODULE MCLimits -------------------------------
(* Instances for TLC of what limits the work that is let in: the slots of    *)
(* the execution manager, the queue of the batch processor and the budget of *)
(* the cost tracker.  They share nothing, and in each behaviour one of the   *)
(* three, the subject, moves.                                                *)
EXTENDS ExecutionManager, BatchProcessor, CostTracker

VARIABLE subject

allVars == <<vars, batchVars, costVars, subject>>

MCInit ==
  /\ subject \in {"slots", "queue", "budget"}
  /\ Init
  /\ BatchInit
  /\ subject # "queue" => enableBatching
  /\ CostAtRest

MCNext ==
  /\ UNCHANGED subject
  /\ \/ subject = "slots" /\ Next /\ UNCHANGED <<batchVars, costVars>>
     \/ subject = "queue" /\ BatchNext /\ UNCHANGED <<vars, costVars>>
     \/ subject = "budget" /\ CostNext /\ UNCHANGED <<vars, batchVars>>

MCSpec == MCInit /\ [][MCNext]_allVars /\ Fairness /\ BatchFairness /\ CostFairness

(* What has been let in gets through: every execution gives back its slot,   *)
(* every request that is queued is answered, and every call of the cost      *)
(* tracker gets its locks (CompleteExecution, processBatch, RecordUsage).    *)
WorkGetsThrough == SlotsComeBack /\ AllAnswered /\ WritersGetThrough
=============================================================================
