------------------------------- MODULE ToolChain -------------------------------
(***************************************************************************)
(* A chain of tools (toolchain.go) executed through the tool registry      *)
(* (tools.go), which bounds a call with the tool's own timeout and repeats *)
(* it with Retry (resilience.go).                                          *)
(*                                                                         *)
(* Steps run in order; the tools of a parallel step run as goroutines that *)
(* are joined before the next step.  The chain's own timeout is looked at  *)
(* between steps only, and a tool that ignores its context is waited for.  *)
(* A chain can be executed again: its context, with the last result, stays.*)
(*                                                                         *)
(* OnSuccess, OnFailure and SkipOnFail of a step are never read, a         *)
(* Transformer on a parallel step is never called, and ChainContext.errors *)
(* is never written, so HasError is always false.                          *)
(* A chain that panicked is not executed again.                            *)
(***************************************************************************)
EXTENDS Integers, Sequences, FiniteSets

CONSTANTS Tools,            \* the tools, each the only tool of its step's name
          Chains,           \* the chains that are built of them
          MaxToolAttempts,  \* config.MaxAttempts of the tools that have a RetryConfig
          Retried,          \* the tools that have one
          MaxRuns           \* bound: how often a chain is executed

Steps == [tools : SUBSET Tools, parallel : BOOLEAN, conditional : BOOLEAN]

ASSUME TCAssumption == /\ MaxToolAttempts \in Nat \ {0}
                       /\ MaxRuns \in Nat
                       /\ Retried \subseteq Tools
                       /\ Chains \subseteq Seq(Steps)
                       /\ \A c \in Chains : \A i \in DOMAIN c :
                            /\ c[i].parallel \/ \E t \in Tools : c[i].tools = {t}
                            /\ \A j \in DOMAIN c : i # j => c[i].tools \cap c[j].tools = {}

VARIABLES chain,       \* c.steps
          options,     \* c.continueOnError, c.errorHandler, whether there is a logger
          registered,  \* tr.tools
          at,          \* the step Execute is at; 0 outside Execute
          run,         \* how many executions there have been
          call,        \* ExecuteTool of each tool in this execution
          expired,     \* the tools whose context is done; "chain": the chain's
          result,      \* the ChainResult
          lastResult,  \* c.context.lastResult: the execution and tool it is from
          outcome      \* how the last Execute returned

chainVars == <<chain, options, registered, at, run, call, expired, result,
               lastResult, outcome>>

-----------------------------------------------------------------------------
(* Building a chain: Step and NamedStep, ConditionalStep, ParallelSteps;    *)
(* Pipeline, and MapReduce, whose reducer is a transformer of a parallel   *)
(* step.                                                                   *)
Step(t)            == [tools |-> {t}, parallel |-> FALSE, conditional |-> FALSE]
ConditionalStep(t) == [Step(t) EXCEPT !.conditional = TRUE]
ParallelSteps(T)   == [tools |-> T, parallel |-> TRUE, conditional |-> FALSE]
Pipeline(ts)       == [i \in DOMAIN ts |-> Step(ts[i])]
MapReduce(T)       == <<ParallelSteps(T)>>

NoCall   == [at |-> "off", attempt |-> 0]
NoResult == [StepResults |-> {}, Errors |-> {}, executed |-> 0, skipped |-> 0,
             Success |-> TRUE]
Nothing  == <<0, "none">>

ChainAtRest ==
  /\ registered = Tools
  /\ at = 0
  /\ run = 0
  /\ call = [t \in Tools |-> NoCall]
  /\ expired = {}
  /\ result = NoResult
  /\ lastResult = Nothing
  /\ outcome = "none"

ChainInit ==
  /\ chain \in Chains
  /\ options \in [continueOnError : BOOLEAN, logger : BOOLEAN,
                  errorHandler : {"nil", "keeps", "clears"}]
  /\ ChainAtRest

Current  == chain[at]
InChain  == at \in 1 .. Len(chain)
Active   == {t \in Tools : call[t].at \in {"running", "backoff"}}
Ended(t) == call[t].at \in {"ok", "failed"}
Outside  == at = 0

(* ToolChain.Execute up to its loop. *)
Execute ==
  /\ Outside
  /\ outcome # "panicked"
  /\ run < MaxRuns
  /\ at' = 1
  /\ run' = run + 1
  /\ call' = [t \in Tools |-> NoCall]
  /\ expired' = {}
  /\ result' = NoResult
  /\ outcome' = "running"
  /\ UNCHANGED <<chain, options, registered, lastResult>>

Returns(how, success) ==
  /\ at' = 0
  /\ outcome' = how
  /\ result' = [result EXCEPT !.Success = success]

(* The head of the loop: the chain's context is done. *)
ChainTimedOut ==
  /\ InChain
  /\ \A t \in Current.tools : call[t].at = "off"
  /\ "chain" \in expired
  /\ Returns("timed out", FALSE)
  /\ UNCHANGED <<chain, options, registered, run, call, expired, lastResult>>

(* The condition of the step does not hold. *)
SkipStep ==
  /\ InChain
  /\ Current.conditional
  /\ \A t \in Current.tools : call[t].at = "off"
  /\ "chain" \notin expired
  /\ result' = [result EXCEPT !.skipped = @ + 1]
  /\ at' = at + 1
  /\ UNCHANGED <<chain, options, registered, run, call, expired, lastResult, outcome>>

(***************************************************************************)
(* ExecuteTool up to the first call of the handler: the tool is not        *)
(* registered, its parameters are not valid, or its handler runs.          *)
(***************************************************************************)
StartTool(t) ==
  /\ InChain
  /\ t \in Current.tools
  /\ call[t].at = "off"
  /\ "chain" \notin expired \/ \E u \in Current.tools : call[u].at # "off"
  /\ \/ call' = [call EXCEPT ![t] = [at |-> "failed", attempt |-> 0]]
     \/ /\ t \in registered
        /\ call' = [call EXCEPT ![t] = [at |-> "running", attempt |-> 1]]
  /\ UNCHANGED <<chain, options, registered, at, run, expired, result, lastResult,
                 outcome>>

Becomes(t, s) == call' = [call EXCEPT ![t].at = s]

(* The handler returns; Retry, where there is one, may go on. *)
HandlerReturns(t) ==
  /\ call[t].at = "running"
  /\ \/ Becomes(t, "ok")
     \/ Becomes(t, "failed")
     \/ /\ t \in Retried
        /\ call[t].attempt < MaxToolAttempts
        /\ Becomes(t, "backoff")
  /\ UNCHANGED <<chain, options, registered, at, run, expired, result, lastResult,
                 outcome>>

(* The delay of Retry, cut short by the end of the tool's context, which   *)
(* derives from the chain's.                                               *)
ToolBackoff(t) ==
  /\ call[t].at = "backoff"
  /\ IF expired \cap {t, "chain"} # {}
       THEN Becomes(t, "failed")
       ELSE call' = [call EXCEPT ![t] = [at |-> "running", attempt |-> @.attempt + 1]]
  /\ UNCHANGED <<chain, options, registered, at, run, expired, result, lastResult,
                 outcome>>

(* A variant of EndParallel that returns at the first error. *)
EndParallelAtFirstError ==
  /\ InChain
  /\ Current.parallel
  /\ \/ \A t \in Current.tools : Ended(t)
     \/ \E t \in Current.tools : call[t].at = "failed"
  /\ LET failed == {t \in Current.tools : call[t].at = "failed"}
         kept   == [result EXCEPT !.Errors = @ \cup failed,
                                  !.StepResults = @ \cup {t \in Current.tools : call[t].at = "ok"}]
     IN IF failed # {} /\ ~options.continueOnError
          THEN /\ at' = 0
               /\ outcome' = "failed"
               /\ result' = [kept EXCEPT !.Success = FALSE]
          ELSE /\ at' = at + 1
               /\ result' = [kept EXCEPT !.executed = @ + 1]
               /\ UNCHANGED outcome
  /\ UNCHANGED <<chain, options, registered, run, call, expired, lastResult>>

(***************************************************************************)
(* executeParallelSteps joins its goroutines and returns the first error.  *)
(* Neither lastResult nor the transformer is touched by a parallel step.   *)
(***************************************************************************)
EndParallel ==
  /\ InChain
  /\ Current.parallel
  /\ \A t \in Current.tools : Ended(t)
  /\ LET failed == {t \in Current.tools : call[t].at = "failed"}
         kept   == [result EXCEPT !.Errors = @ \cup failed,
                                  !.StepResults = @ \cup (Current.tools \ failed)]
     IN IF failed # {} /\ ~options.continueOnError
          THEN /\ at' = 0
               /\ outcome' = "failed"
               /\ result' = [kept EXCEPT !.Success = FALSE]
          ELSE /\ at' = at + 1
               /\ result' = [kept EXCEPT !.executed = @ + 1]
               /\ UNCHANGED outcome
  /\ UNCHANGED <<chain, options, registered, run, call, expired, lastResult>>

(* A step failed: the error handler may turn the error into nil, and       *)
(* continueOnError passes over it.  With a logger, the text of the error   *)
(* that is passed over is asked for, also of one turned into nil.          *)
StepFailed(t) ==
  /\ InChain
  /\ ~Current.parallel
  /\ t \in Current.tools
  /\ call[t].at = "failed"
  /\ LET err  == options.errorHandler # "clears"
         kept == [result EXCEPT !.Errors = @ \cup {t}]
     IN \/ /\ err /\ ~options.continueOnError
           /\ at' = 0
           /\ outcome' = "failed"
           /\ result' = [kept EXCEPT !.Success = FALSE]
        \/ /\ ~err /\ options.logger
           /\ at' = 0
           /\ outcome' = "panicked"
           /\ result' = kept
        \/ /\ IF err THEN options.continueOnError ELSE ~options.logger
           /\ at' = at + 1
           /\ result' = [kept EXCEPT !.executed = @ + 1]
           /\ UNCHANGED outcome
  /\ UNCHANGED <<chain, options, registered, run, call, expired, lastResult>>

StepCompleted(t) ==
  /\ InChain
  /\ ~Current.parallel
  /\ t \in Current.tools
  /\ call[t].at = "ok"
  /\ at' = at + 1
  /\ lastResult' = <<run, t>>
  /\ result' = [result EXCEPT !.StepResults = @ \cup {t}, !.executed = @ + 1]
  /\ UNCHANGED <<chain, options, registered, run, call, expired, outcome>>

(* All steps are done: FinalResult is the last result of the context. *)
ChainCompleted ==
  /\ at = Len(chain) + 1
  /\ at' = 0
  /\ outcome' = "completed"
  /\ UNCHANGED <<chain, options, registered, run, call, expired, result, lastResult>>

-----------------------------------------------------------------------------
(* The timeout of the chain or of a tool, and cancellation by the caller. *)
Expire(c) ==
  /\ ~Outside
  /\ c = "chain" \/ (c \in Tools /\ call[c].at \in {"running", "backoff"})
  /\ c \notin expired
  /\ expired' = expired \cup {c}
  /\ UNCHANGED <<chain, options, registered, at, run, call, result, lastResult, outcome>>

(* UnregisterTool and RegisterTool by somebody else. *)
Unregister(t) ==
  /\ t \in registered
  /\ registered' = registered \ {t}
  /\ UNCHANGED <<chain, options, at, run, call, expired, result, lastResult, outcome>>

Register(t) ==
  /\ t \notin registered
  /\ registered' = registered \cup {t}
  /\ UNCHANGED <<chain, options, at, run, call, expired, result, lastResult, outcome>>

ChainStep ==
  \/ Execute \/ ChainTimedOut \/ SkipStep \/ EndParallel \/ ChainCompleted
  \/ \E t \in Tools : \/ StartTool(t) \/ HandlerReturns(t) \/ ToolBackoff(t)
                      \/ StepFailed(t) \/ StepCompleted(t)

ChainNext ==
  \/ ChainStep
  \/ \E c \in Tools \cup {"chain"} : Expire(c)
  \/ \E t \in Tools : Unregister(t) \/ Register(t)

ChainSpec == ChainInit /\ [][ChainNext]_chainVars

-----------------------------------------------------------------------------
(* When Execute has returned, no tool it started still runs; the steps it   *)
(* reached are each counted once, as executed or skipped; every tool that  *)
(* was started is in the results or in the errors, and not in both;        *)
(* Execute returns an error exactly when Success is false; and the final   *)
(* result is one of this execution, unless none of its plain steps         *)
(* succeeded: then it is left over from the execution before (Execute,     *)
(* executeParallelSteps).                                                  *)
ResultIsWhole ==
  Outside /\ outcome \notin {"none", "panicked"} =>
    /\ Active = {}
    /\ outcome = "completed" => result.executed + result.skipped = Len(chain)
    /\ result.StepResults \cap result.Errors = {}
    /\ result.StepResults \cup result.Errors = {t \in Tools : call[t].at # "off"}
    /\ result.Success <=> outcome = "completed"
    /\ outcome = "completed" /\ lastResult[1] # run =>
         \A i \in 1 .. Len(chain) :
           chain[i].parallel \/ chain[i].tools \cap result.StepResults = {}
=============================================================================
