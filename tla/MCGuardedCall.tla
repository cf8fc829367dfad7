----------------------------- MODULE MCGuardedCall -----------------------------
(* Instances for TLC of what repeats a call that failed: calls through the  *)
(* guards of GuardedCall, a chain of tools, or an agent that heals itself.  *)
(* The two last ones are the only thing that moves when they do.            *)
EXTENDS GuardedCall, ToolChain, SelfHealing

CONSTANTS fetch, check, send

(* A pipeline, a map and reduce, and a conditional step before a parallel  *)
(* one.                                                                    *)
MCChains == {Pipeline(<<check, fetch>>), MapReduce({check, send}),
             <<ConditionalStep(fetch), ParallelSteps({check, send})>>}

NoChain   == chain = <<>> /\ options = <<>> /\ ChainAtRest
NoHealing == learning = [EnableLearning |-> FALSE, AutoRecover |-> FALSE] /\ HealAtRest

MCInit ==
  \/ GuardInit /\ NoChain /\ NoHealing
  \/ GuardsAtRest /\ nesting = "chain" /\ ChainInit /\ NoHealing
  \/ GuardsAtRest /\ nesting = "healing" /\ NoChain /\ HealInit

MCNext ==
  \/ GuardNext /\ UNCHANGED <<chainVars, healVars>>
  \/ nesting = "chain" /\ ChainNext /\ UNCHANGED <<allVars, healVars>>
  \/ nesting = "healing" /\ HealNext /\ UNCHANGED <<allVars, chainVars>>

HealerStepAlone(h) ==
  nesting = "healing" /\ HealerStep(h) /\ UNCHANGED <<allVars, chainVars>>

MCSpec == /\ MCInit /\ [][MCNext]_<<allVars, chainVars, healVars>>
          /\ GuardFairness
          /\ \A h \in Healers : WF_healVars(HealerStepAlone(h))
=============================================================================
