------------------------------ MODULE GuardedCall ------------------------------
(***************************************************************************)
(* The other guards of resilience.go, nested as the tests nest them:       *)
(*   "breaker"  the breaker alone, called directly (CircuitBreaker);       *)
(*   "retry"    a fallback chain over Timeout over Retry over the breaker; *)
(*   "limits"   a fallback chain over the rate limiter over the bulkhead   *)
(*              over Timeout over Retry over a plain function.             *)
(*                                                                         *)
(* Timeout does not end the goroutine it has started.  A goroutine whose   *)
(* caller is gone is abandoned: it ends its attempt, records the result in *)
(* the breaker, and notices the end of its context only in a back-off.     *)
(*                                                                         *)
(* A function that panics below Timeout ends the program, so only a        *)
(* breaker called directly survives it.                                    *)
(***************************************************************************)
EXTENDS CircuitBreaker

CONSTANTS Users,          \* goroutines that make guarded calls
          Workers,        \* the goroutines of Timeout, among Callers
          Retriers,       \* those of them whose calls go through the breaker
          Nobody,         \* no goroutine
          Burst,          \* rl.burst
          Rate,           \* rl.rate, in tokens per tick
          MaxConcurrent,  \* b.maxConcurrent
          MaxAttempts,    \* config.MaxAttempts of Retry
          Window          \* bound on the length of the observed window, in ticks

ASSUME GCAssumption ==
                     /\ {Burst, Rate, MaxConcurrent, MaxAttempts} \subseteq Nat \ {0}
                     /\ Window \in Nat
                     /\ Workers \subseteq Callers
                     /\ Retriers \subseteq Users
                     /\ Nobody \notin Callers

VARIABLES nesting,  \* which guards the calls go through
          tokens,   \* rl.tokens, refilled as time passes
          stage,    \* how far each user's call is
          worker,   \* the goroutine Timeout started for the call
          job,      \* what each of these goroutines does: Retry
          window    \* ticks, and calls the limiter allowed, since some moment

guardVars == <<tokens, stage, worker, job, window>>
allVars   == <<vars, nesting, guardVars>>

NoJob  == [at |-> "done", attempt |-> 0, late |-> 0]
Closed == [ticks |-> -1, allowed |-> 0]

Running(g)   == job[g].at \notin {"done", "sent"}
Abandoned(g) == \A u \in Users : worker[u] # g
Inside       == {u \in Users : stage[u] \in {"entered", "inside"}}  \* b.semaphore

GuardsAtRest ==
  /\ Init
  /\ tokens = Burst
  /\ stage = [u \in Users |-> "idle"]
  /\ worker = [u \in Users |-> Nobody]
  /\ job = [g \in Workers |-> NoJob]
  /\ window = Closed

Nestings  == {"breaker", "retry", "limits"}
GuardInit == GuardsAtRest /\ nesting \in Nestings

-----------------------------------------------------------------------------
Goes(u, s) == stage' = [stage EXCEPT ![u] = s]
Does(g, s) == job' = [job EXCEPT ![g].at = s]

(* FallbackChain.Execute calls its first function, the guarded call. *)
Call(u) ==
  /\ stage[u] = "idle"
  /\ u \in Retriers \/ nesting # "retry"
  /\ Goes(u, IF nesting = "limits" THEN "limiter" ELSE "entered")
  /\ UNCHANGED <<vars, tokens, worker, job, window>>

(* A variant that lets a call through on any rest of a token. *)
AllowOnCredit(u) ==
  /\ stage[u] = "limiter"
  /\ tokens' = IF tokens > 0 THEN tokens - 1 ELSE 0
  /\ window' = IF window = Closed THEN window
               ELSE [window EXCEPT !.allowed = @ + 1]
  /\ Goes(u, "bulkhead")
  /\ UNCHANGED <<vars, worker, job>>

(* RateLimiter.Wait, the turn of its loop in which Allow takes a token. *)
Allow(u) ==
  /\ stage[u] = "limiter"
  /\ tokens >= 1
  /\ tokens' = tokens - 1
  /\ window' = IF window = Closed THEN window
               ELSE [window EXCEPT !.allowed = @ + 1]
  /\ Goes(u, "bulkhead")
  /\ UNCHANGED <<vars, worker, job>>

(* A variant whose semaphore is looked at and not taken in one step: the    *)
(* call that finds it full goes in all the same.                            *)
EnterFull(u) ==
  /\ stage[u] = "bulkhead"
  /\ Goes(u, "entered")
  /\ UNCHANGED <<vars, tokens, worker, job, window>>

(* Bulkhead.Execute takes a slot. *)
Enter(u) ==
  /\ stage[u] = "bulkhead"
  /\ Cardinality(Inside) < MaxConcurrent
  /\ Goes(u, "entered")
  /\ UNCHANGED <<vars, tokens, worker, job, window>>

(* Timeout starts a goroutine, which Retry. *)
StartTimeout(u, g) ==
  /\ stage[u] = "entered"
  /\ job[g].at = "done"
  /\ Goes(u, "inside")
  /\ worker' = [worker EXCEPT ![u] = g]
  /\ job' = [job EXCEPT ![g] = [at |-> "loop", attempt |-> 1, late |-> 0]]
  /\ UNCHANGED <<vars, tokens, window>>

(* The context of the call ends in Wait or in the bulkhead's select. *)
ContextEnds(u) ==
  /\ stage[u] \in {"limiter", "bulkhead"}
  /\ Goes(u, "fallback")
  /\ UNCHANGED <<vars, tokens, worker, job, window>>

-----------------------------------------------------------------------------
(***************************************************************************)
(* The goroutine of Timeout: Retry around the breaker's Execute.           *)
(***************************************************************************)
(* Retry returns: the result goes into errChan, which has room for it. *)
Ends(g) == Does(g, IF Abandoned(g) THEN "done" ELSE "sent")

(* One attempt failed.  An error that is not among RetryableErrors, if any *)
(* are named, is final.                                                    *)
Failed(g) ==
  \/ Ends(g)
  \/ /\ job[g].attempt < MaxAttempts
     /\ Does(g, "backoff")

Begins(g) == job' = [job EXCEPT ![g].at = "attempt",
                                ![g].late = IF Abandoned(g) THEN @ + 1 ELSE @]

(* fn(ctx), through the breaker or not. *)
Attempt(g) ==
  /\ job[g].at = "loop"
  /\ IF nesting = "retry" THEN Admit(g) \/ Probe(g) ELSE UNCHANGED vars
  /\ Begins(g)
  /\ UNCHANGED <<tokens, stage, worker, window>>

AttemptRejected(g) ==
  /\ job[g].at = "loop"
  /\ nesting = "retry"
  /\ Reject(g)
  /\ Failed(g)
  /\ UNCHANGED <<tokens, stage, worker, window>>

AttemptSucceeds(g) ==
  /\ job[g].at = "attempt"
  /\ IF nesting = "retry" THEN RecordSuccess(g) ELSE UNCHANGED vars
  /\ Ends(g)
  /\ UNCHANGED <<tokens, stage, worker, window>>

AttemptFails(g) ==
  /\ job[g].at = "attempt"
  /\ IF nesting = "retry" THEN RecordFailure(g) ELSE UNCHANGED vars
  /\ Failed(g)
  /\ UNCHANGED <<tokens, stage, worker, window>>

(* A variant that only sleeps between two attempts. *)
BackoffSleeps(g) ==
  /\ job[g].at = "backoff"
  /\ job' = [job EXCEPT ![g].at = "loop", ![g].attempt = @ + 1]
  /\ UNCHANGED <<vars, tokens, stage, worker, window>>

(* The select before the next attempt: the delay, which is not over when   *)
(* the select begins, or the end of the context, whichever comes first.    *)
Backoff(g) ==
  /\ job[g].at = "backoff"
  /\ IF Abandoned(g)
       THEN Does(g, "done")
       ELSE job' = [job EXCEPT ![g].at = "loop", ![g].attempt = @ + 1]
  /\ UNCHANGED <<vars, tokens, stage, worker, window>>

-----------------------------------------------------------------------------
Leaves(u, s) ==
  /\ Goes(u, s)
  /\ worker' = [worker EXCEPT ![u] = Nobody]
  /\ UNCHANGED <<vars, tokens, window>>

(* Timeout receives the result; the slot of the bulkhead is given back. *)
Return(u) ==
  /\ stage[u] = "inside"
  /\ job[worker[u]].at = "sent"
  /\ Leaves(u, "idle") \/ Leaves(u, "fallback")
  /\ Does(worker[u], "done")

(* Timeout returns without the result; the goroutine runs on. *)
TimesOut(u) ==
  /\ stage[u] = "inside"
  /\ Leaves(u, "fallback")
  /\ IF job[worker[u]].at = "sent" THEN Does(worker[u], "done") ELSE UNCHANGED job

(* FallbackChain.Execute tries its next function, which ends either way. *)
Fallback(u) ==
  /\ stage[u] = "fallback"
  /\ Goes(u, "idle")
  /\ UNCHANGED <<vars, tokens, worker, job, window>>

-----------------------------------------------------------------------------
(* Time passes for the breaker, or for the limiter and in the window. *)
GuardTick ==
  IF nesting = "retry" THEN Tick /\ UNCHANGED guardVars
  ELSE /\ tokens' = IF tokens + Rate < Burst THEN tokens + Rate ELSE Burst
       /\ window' = IF window.ticks \in 0 .. Window - 1
                    THEN [window EXCEPT !.ticks = @ + 1] ELSE Closed
       /\ UNCHANGED <<vars, stage, worker, job>>

(* An observer begins to count. *)
OpenWindow ==
  /\ nesting = "limits"
  /\ window = Closed
  /\ window' = [ticks |-> 0, allowed |-> 0]
  /\ UNCHANGED <<vars, tokens, stage, worker, job>>

Environment ==
  /\ nesting = "retry"
  /\ Reset \/ Heal
  /\ UNCHANGED guardVars

Direct(A) == nesting = "breaker" /\ A /\ UNCHANGED <<nesting, guardVars>>
Nested(A) == nesting \in {"retry", "limits"} /\ A /\ UNCHANGED nesting

UserStep(u) ==
  \/ Call(u) \/ Allow(u) \/ ContextEnds(u) \/ Enter(u)
  \/ \E g \in Workers : StartTimeout(u, g)
  \/ Return(u) \/ TimesOut(u) \/ Fallback(u)

WorkerStep(g) ==
  \/ Attempt(g) \/ AttemptRejected(g)
  \/ AttemptSucceeds(g) \/ AttemptFails(g) \/ Backoff(g)

GuardNext ==
  \/ Direct(Next)
  \/ Nested(\/ \E u \in Users : UserStep(u)
            \/ \E g \in Workers : WorkerStep(g)
            \/ GuardTick \/ OpenWindow \/ Environment)

(* As for the breaker alone: time passes, attempts end, and callers call   *)
(* again and again.  Nothing is asked of OpenWindow, Reset and Heal, nor   *)
(* that somebody is let through the limits.                                *)
CallerAgain(g) ==
  \/ Direct(RecordFailure(g) \/ RecordSuccess(g) \/ Panic(g))
  \/ g \in Workers /\ Nested(WorkerStep(g))

UserAgain(u) ==
  Nested(\/ Call(u) \/ Return(u) \/ Fallback(u)
         \/ \E g \in Workers : StartTimeout(u, g))

GuardFairness ==
  /\ WF_allVars(Direct(Tick) \/ Nested(GuardTick))
  /\ \A g \in Callers : /\ WF_allVars(CallerAgain(g))
                        /\ WF_allVars(Direct(Admit(g) \/ Probe(g)))
  /\ \A u \in Users : WF_allVars(UserAgain(u))

GuardSpec == GuardInit /\ [][GuardNext]_allVars /\ GuardFairness

-----------------------------------------------------------------------------
(* Whatever moment one starts to count at, the limiter allows no more calls *)
(* than a full bucket and what has been refilled since (Allow).             *)
LimiterBound ==
  window # Closed => window.allowed <= Burst + Rate * window.ticks

(* More functions run at once than the bulkhead has slots only by those    *)
(* that Timeout left behind: the slot is given back when the caller        *)
(* returns, not when the function does (Bulkhead.Execute, Timeout).        *)
OnlyAbandonedExceed ==
  nesting = "limits" =>
    Cardinality({g \in Workers : Running(g) /\ ~Abandoned(g)}) <= MaxConcurrent

(* A goroutine whose caller was told that the time is over starts at most   *)
(* one more attempt: the one it was about to start (Retry).                 *)
OneLateAttempt == \A g \in Workers : job[g].late <= 1

(* What each guard promises holds with the others around and below it. *)
GuardsHold == LimiterBound /\ OnlyAbandonedExceed /\ OneLateAttempt
=============================================================================
