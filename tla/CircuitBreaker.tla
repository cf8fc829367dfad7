--------------------------- MODULE CircuitBreaker ---------------------------
(***************************************************************************)
(* The circuit breaker of resilience.go shared by a set of goroutines.     *)
(*                                                                         *)
(* Execute is not atomic: canExecute takes the lock, then fn runs without  *)
(* it, then recordResult takes the lock again.  A result may therefore be  *)
(* recorded in another breaker state than the one its call was admitted    *)
(* in.                                                                     *)
(*                                                                         *)
(* Time is kept as ages: sinceFailure is time.Since(lastFailureTime),      *)
(* counted up to ResetTimeout + 1, past which the code cannot tell ages    *)
(* apart.  The failure count is kept up to MaxFailures for the same        *)
(* reason: it is only ever compared with maxFailures and reset to 0.       *)
(***************************************************************************)
EXTENDS Integers, FiniteSets

CONSTANTS Callers,       \* goroutines that call Execute
          MaxFailures,   \* cb.maxFailures
          HalfOpenMax,   \* cb.halfOpenMax
          ResetTimeout   \* cb.resetTimeout, in ticks

ASSUME CBAssumption == /\ MaxFailures \in Nat \ {0}
                       /\ HalfOpenMax \in Nat \ {0}
                       /\ ResetTimeout \in Nat \ {0}

VARIABLES state,            \* cb.state
          failures,         \* cb.failures, saturating at MaxFailures
          sinceFailure,     \* age of cb.lastFailureTime
          halfOpenSuccess,  \* cb.halfOpenSuccess
          pc,               \* where each caller is in Execute
          mayFail,          \* the caller's call may fail: the service was failing
          healthy,          \* the protected service answers every new call
          sinceOpened       \* age of the last step into the open state

breaker == <<state, failures, sinceFailure, halfOpenSuccess>>
calls   == <<pc, mayFail>>
vars    == <<breaker, calls, healthy, sinceOpened>>

CircuitState == {"closed", "open", "half_open"}
Elapsed      == ResetTimeout + 1         \* any age above the timeout
Ages         == 0 .. Elapsed
Older(age)   == IF age < Elapsed THEN age + 1 ELSE age

TypeOK ==
  /\ state \in CircuitState
  /\ failures \in 0 .. MaxFailures
  /\ sinceFailure \in Ages
  /\ halfOpenSuccess \in 0 .. HalfOpenMax
  /\ pc \in [Callers -> {"idle", "calling", "rejected"}]
  /\ mayFail \in [Callers -> BOOLEAN]
  /\ healthy \in BOOLEAN
  /\ sinceOpened \in Ages

-----------------------------------------------------------------------------
(* NewCircuitBreaker.  lastFailureTime is the zero time, long ago.         *)
Init ==
  /\ state = "closed"
  /\ failures = 0
  /\ sinceFailure = Elapsed
  /\ halfOpenSuccess = 0
  /\ pc = [c \in Callers |-> "idle"]
  /\ mayFail = [c \in Callers |-> FALSE]
  /\ healthy = FALSE
  /\ sinceOpened = Elapsed

MayCall(c) == pc[c] \in {"idle", "rejected"}

TimedOut == sinceFailure > ResetTimeout

(* The caller leaves canExecute with TRUE and runs fn. *)
Admitted(c) ==
  /\ pc' = [pc EXCEPT ![c] = "calling"]
  /\ mayFail' = [mayFail EXCEPT ![c] = ~healthy]
  /\ UNCHANGED <<failures, sinceFailure, healthy, sinceOpened>>

(* A variant without the half-open case. *)
AdmitClosedOnly(c) ==
  /\ MayCall(c)
  /\ state = "closed"
  /\ Admitted(c)
  /\ UNCHANGED <<state, halfOpenSuccess>>

(***************************************************************************)
(* canExecute: admitted in the closed and half-open states.                *)
(***************************************************************************)
Admit(c) ==
  /\ MayCall(c)
  /\ state # "open"
  /\ Admitted(c)
  /\ UNCHANGED <<state, halfOpenSuccess>>

(* canExecute, open and past the reset timeout: the caller that notices    *)
(* moves the breaker to half-open and is admitted as its first probe.      *)
Probe(c) ==
  /\ MayCall(c)
  /\ state = "open"
  /\ TimedOut
  /\ state' = "half_open"
  /\ halfOpenSuccess' = 0
  /\ Admitted(c)

(* A variant that takes a rejected call for one more failure. *)
RejectCountsAsFailure(c) ==
  /\ MayCall(c)
  /\ state = "open"
  /\ ~TimedOut
  /\ pc' = [pc EXCEPT ![c] = "rejected"]
  /\ sinceFailure' = 0
  /\ UNCHANGED <<state, failures, halfOpenSuccess, mayFail, healthy,
                 sinceOpened>>

(* canExecute, open and too early: Execute returns "circuit is open". *)
Reject(c) ==
  /\ MayCall(c)
  /\ state = "open"
  /\ ~TimedOut
  /\ pc' = [pc EXCEPT ![c] = "rejected"]
  /\ UNCHANGED <<breaker, mayFail, healthy, sinceOpened>>

-----------------------------------------------------------------------------
Done(c) == /\ pc[c] = "calling"
           /\ pc' = [pc EXCEPT ![c] = "idle"]
           /\ mayFail' = [mayFail EXCEPT ![c] = FALSE]   \* no call, no failure
           /\ UNCHANGED healthy

Saturate(n, cap) == IF n < cap THEN n ELSE cap

(* A variant that does not move the time of the last failure when a probe  *)
(* fails.                                                                  *)
RecordFailureKeepsTime(c) ==
  /\ mayFail[c]
  /\ Done(c)
  /\ failures' = Saturate(failures + 1, MaxFailures)
  /\ sinceFailure' = IF state = "half_open" THEN sinceFailure ELSE 0
  /\ state' = IF state = "half_open" \/ failures + 1 >= MaxFailures
                THEN "open" ELSE state
  /\ sinceOpened' = IF state # "open" /\ state' = "open" THEN 0 ELSE sinceOpened
  /\ UNCHANGED halfOpenSuccess

(***************************************************************************)
(* recordResult(err), err # nil.  The failure is counted, and the time of  *)
(* the last failure moved, in every state: a late failure that arrives     *)
(* while the breaker is open prolongs the open period.                     *)
(***************************************************************************)
RecordFailure(c) ==
  /\ mayFail[c]
  /\ Done(c)
  /\ failures' = Saturate(failures + 1, MaxFailures)
  /\ sinceFailure' = 0
  /\ state' = IF state = "half_open" \/ failures + 1 >= MaxFailures
                THEN "open" ELSE state
  /\ sinceOpened' = IF state # "open" /\ state' = "open" THEN 0 ELSE sinceOpened
  /\ UNCHANGED halfOpenSuccess

(* A variant that closes without clearing the failures. *)
RecordSuccessKeepsFailures(c) ==
  /\ Done(c)
  /\ \/ /\ state = "half_open"
        /\ halfOpenSuccess' = halfOpenSuccess + 1
        /\ state' = IF halfOpenSuccess' >= HalfOpenMax THEN "closed" ELSE state
        /\ UNCHANGED failures
     \/ /\ state = "closed"
        /\ failures' = 0
        /\ UNCHANGED <<state, halfOpenSuccess>>
     \/ /\ state = "open"
        /\ UNCHANGED <<state, failures, halfOpenSuccess>>
  /\ UNCHANGED <<sinceFailure, sinceOpened>>

(***************************************************************************)
(* recordResult(nil).  A success in the open state, from a call admitted   *)
(* before the breaker opened, is ignored.                                  *)
(***************************************************************************)
RecordSuccess(c) ==
  /\ Done(c)
  /\ \/ /\ state = "half_open"
        /\ halfOpenSuccess' = halfOpenSuccess + 1
        /\ IF halfOpenSuccess' >= HalfOpenMax
             THEN state' = "closed" /\ failures' = 0
             ELSE UNCHANGED <<state, failures>>
     \/ /\ state = "closed"
        /\ failures' = 0
        /\ UNCHANGED <<state, halfOpenSuccess>>
     \/ /\ state = "open"
        /\ UNCHANGED <<state, failures, halfOpenSuccess>>
  /\ UNCHANGED <<sinceFailure, sinceOpened>>

(* fn panics: recordResult is not deferred, so nothing is recorded. *)
Panic(c) ==
  /\ mayFail[c]
  /\ Done(c)
  /\ UNCHANGED <<breaker, sinceOpened>>

(***************************************************************************)
(* Reset, called by an operator at any time; lastFailureTime stays.        *)
(***************************************************************************)
Reset ==
  /\ state' = "closed"
  /\ failures' = 0
  /\ halfOpenSuccess' = 0
  /\ UNCHANGED <<sinceFailure, calls, healthy, sinceOpened>>

Tick ==
  /\ sinceFailure' = Older(sinceFailure)
  /\ sinceOpened' = Older(sinceOpened)
  /\ UNCHANGED <<state, failures, halfOpenSuccess, calls, healthy>>

(* The service behind fn recovers, or fails again. *)
Heal == /\ healthy' = ~healthy
        /\ UNCHANGED <<breaker, calls, sinceOpened>>

Next ==
  \/ \E c \in Callers : \/ Admit(c) \/ Probe(c) \/ Reject(c)
                        \/ RecordFailure(c) \/ RecordSuccess(c) \/ Panic(c)
  \/ Reset
  \/ Tick
  \/ Heal

(* fn returns or panics, the clock advances, and every caller calls again. *)
Fairness ==
  /\ WF_vars(Tick)
  /\ \A c \in Callers :
       /\ WF_vars(RecordFailure(c) \/ RecordSuccess(c) \/ Panic(c))
       /\ WF_vars(Admit(c) \/ Probe(c))

Spec     == Init /\ [][Next]_vars
FairSpec == Spec /\ Fairness

-----------------------------------------------------------------------------
(* The breaker is closed exactly while fewer than MaxFailures failures are  *)
(* on its count, whatever late results of earlier calls arrive in between:  *)
(* a closed breaker is never one failure overdue, and an open or half-open  *)
(* one never forgets why it opened (canExecute, recordResult, Reset).       *)
ThresholdInv == (state = "closed") <=> (failures < MaxFailures)

(* A trial still under way has not yet collected the successes that would   *)
(* have closed the breaker: successes of an earlier trial are not carried   *)
(* over (canExecute clears the count, recordResult closes at the limit).    *)
TrialInv == (state = "half_open") => (halfOpenSuccess < HalfOpenMax)

(* The service is left alone for the whole reset timeout after each time    *)
(* the breaker opens, even when late failures of calls admitted before      *)
(* arrive while it is open: no trial runs before that.                      *)
CooledDown == (state = "half_open") => (sinceOpened > ResetTimeout)

(* An open breaker does not stay open: late failures prolong the open       *)
(* period only while calls admitted before are still running.               *)
OpenEnds == (state = "open") ~> (state # "open")

(* Once the service answers again for good, the breaker closes for good.    *)
Recovers == (<>[]healthy) => (<>[](state = "closed"))

(* It is not left open, nor open or half-open once the service is well. *)
BreakerHeals == OpenEnds /\ Recovers
=============================================================================
