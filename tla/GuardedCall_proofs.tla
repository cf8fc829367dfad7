------------------------- MODULE GuardedCall_proofs -------------------------
(***************************************************************************)
(* Safety of the circuit breaker, of the guards around a call, of tool     *)
(* chains and of the self-healing agent, for any set of callers and any    *)
(* positive limits.                                                        *)
(***************************************************************************)
EXTENDS GuardedCall, ToolChain, SelfHealing, FiniteSetTheorems, TLAPS

(* While the breaker is not closed its last failure is no older than its    *)
(* last opening, and while a trial runs that failure has timed out.         *)
AgesInv ==
  /\ state # "closed" => sinceFailure <= sinceOpened
  /\ state = "half_open" => TimedOut

(* The conjuncts of TypeOK about the breaker, and those about its callers. *)
BreakerTypeOK ==
  /\ state \in CircuitState
  /\ failures \in 0 .. MaxFailures
  /\ sinceFailure \in Ages
  /\ halfOpenSuccess \in 0 .. HalfOpenMax
  /\ sinceOpened \in Ages

CallsTypeOK ==
  /\ pc \in [Callers -> {"idle", "calling", "rejected"}]
  /\ mayFail \in [Callers -> BOOLEAN]
  /\ healthy \in BOOLEAN

BreakerInv == BreakerTypeOK /\ ThresholdInv /\ TrialInv /\ AgesInv

-----------------------------------------------------------------------------
(* What one step may do to the breaker, whichever caller takes it. *)
LEMMA BreakerInit == Init => BreakerInv
BY CBAssumption DEF Init, BreakerInv, BreakerTypeOK, ThresholdInv, TrialInv,
                    AgesInv, CircuitState, Ages, Elapsed, TimedOut

LEMMA BreakerStep == BreakerInv /\ [Next]_vars => BreakerInv'
<1> SUFFICES ASSUME BreakerInv, [Next]_vars
             PROVE  BreakerInv'
  OBVIOUS
<1> USE CBAssumption DEF BreakerInv, BreakerTypeOK, ThresholdInv, TrialInv,
                         AgesInv, CircuitState, Ages, Elapsed, TimedOut
<1>1. ASSUME NEW c \in Callers, Admit(c)  PROVE BreakerInv'
  BY <1>1 DEF Admit, Admitted
<1>2. ASSUME NEW c \in Callers, Probe(c)  PROVE BreakerInv'
  BY <1>2 DEF Probe, Admitted
<1>3. ASSUME NEW c \in Callers, Reject(c)  PROVE BreakerInv'
  BY <1>3 DEF Reject, breaker
<1>4. ASSUME NEW c \in Callers, RecordFailure(c)  PROVE BreakerInv'
  BY <1>4 DEF RecordFailure, Saturate
<1>5. ASSUME NEW c \in Callers, RecordSuccess(c)  PROVE BreakerInv'
  BY <1>5 DEF RecordSuccess
<1>6. ASSUME NEW c \in Callers, Panic(c)  PROVE BreakerInv'
  BY <1>6 DEF Panic, breaker
<1>7. CASE Reset
  BY <1>7 DEF Reset
<1>8. CASE Tick
  BY <1>8 DEF Tick, Older
<1>9. CASE Heal
  BY <1>9 DEF Heal, breaker
<1>10. CASE UNCHANGED vars
  BY <1>10 DEF vars, breaker
<1>11. QED
  BY <1>1, <1>2, <1>3, <1>4, <1>5, <1>6, <1>7, <1>8, <1>9, <1>10 DEF Next

(* The callers' side of the type invariant does not depend on the breaker. *)
LEMMA CallsInit == Init => CallsTypeOK
BY DEF Init, CallsTypeOK

LEMMA CallsStep == BreakerInv /\ CallsTypeOK /\ [Next]_vars => CallsTypeOK'
<1> SUFFICES ASSUME BreakerInv, CallsTypeOK, [Next]_vars
             PROVE  CallsTypeOK'
  OBVIOUS
<1> USE DEF CallsTypeOK
<1>1. ASSUME NEW c \in Callers, Admit(c)  PROVE CallsTypeOK'
  <2>1. state \in {"closed", "half_open"}
    BY <1>1 DEF Admit, BreakerInv, BreakerTypeOK, CircuitState
  <2>2. QED
    BY <1>1, <2>1 DEF Admit, Admitted
<1>2. ASSUME NEW c \in Callers, Probe(c)  PROVE CallsTypeOK'
  BY <1>2 DEF Probe, Admitted
<1>3. ASSUME NEW c \in Callers, Reject(c)  PROVE CallsTypeOK'
  BY <1>3 DEF Reject
<1>4. ASSUME NEW c \in Callers, Done(c)  PROVE CallsTypeOK'
  BY <1>4 DEF Done
<1>5. CASE Reset \/ Tick
  BY <1>5 DEF Reset, Tick, calls
<1>6. CASE Heal
  BY <1>6 DEF Heal, calls
<1>7. CASE UNCHANGED vars
  BY <1>7 DEF vars, calls
<1>8. QED
  BY <1>1, <1>2, <1>3, <1>4, <1>5, <1>6, <1>7
     DEF Next, RecordFailure, RecordSuccess, Panic

-----------------------------------------------------------------------------
(* Everything inductive about the breaker, as an invariant of the system. *)
LEMMA Inductive == Spec => [](BreakerInv /\ CallsTypeOK)
<1>1. Init => BreakerInv /\ CallsTypeOK
  BY BreakerInit, CallsInit
<1>2. BreakerInv /\ CallsTypeOK /\ [Next]_vars => (BreakerInv /\ CallsTypeOK)'
  BY BreakerStep, CallsStep
<1>3. QED
  BY <1>1, <1>2, PTL DEF Spec

(* Every variable keeps its type: in particular the saturated counters and  *)
(* ages stay in range, and the success count never passes HalfOpenMax.      *)
THEOREM TypeCorrect == Spec => []TypeOK
<1>1. BreakerInv /\ CallsTypeOK => TypeOK
  BY DEF BreakerInv, BreakerTypeOK, CallsTypeOK, TypeOK
<1>2. QED
  BY <1>1, Inductive, PTL

(* The breaker is closed exactly while its failure count is below the       *)
(* threshold, for any number of callers whose results arrive late.          *)
THEOREM ThresholdCorrect == Spec => []ThresholdInv
<1>1. BreakerInv => ThresholdInv
  BY DEF BreakerInv
<1>2. QED
  BY <1>1, Inductive, PTL

(* A trial under way never holds the successes that would have closed it.   *)
THEOREM TrialCorrect == Spec => []TrialInv
<1>1. BreakerInv => TrialInv
  BY DEF BreakerInv
<1>2. QED
  BY <1>1, Inductive, PTL

(* No trial runs within the reset timeout of the breaker's last opening:    *)
(* the last failure is never older than the opening, and a trial starts     *)
(* only once that failure has timed out.                                    *)
THEOREM CooledDownCorrect == Spec => []CooledDown
<1>1. BreakerInv => CooledDown
  BY CBAssumption
     DEF BreakerInv, BreakerTypeOK, AgesInv, CooledDown, TimedOut, Ages, Elapsed
<1>2. QED
  BY <1>1, Inductive, PTL
-----------------------------------------------------------------------------
(***************************************************************************)
(* The guards around the breaker.                                          *)
(***************************************************************************)
Stages == {"idle", "limiter", "bulkhead", "entered", "inside", "fallback"}
Jobs   == [at : {"loop", "attempt", "backoff", "sent", "done"}, attempt : Nat, late : Nat]

GuardsTypeOK ==
  /\ tokens \in 0 .. Burst
  /\ stage \in [Users -> Stages]
  /\ worker \in [Users -> Workers \union {Nobody}]
  /\ job \in [Workers -> Jobs]

(* What the limiter has let through and may still let through at once is no *)
(* more than the bound allows: the bucket itself is part of the account.    *)
LimiterInv ==
  \/ window = Closed
  \/ /\ window.ticks \in 0 .. Window /\ window.allowed \in Nat
     /\ window = [ticks |-> window.ticks, allowed |-> window.allowed]
     /\ window.allowed + tokens <= Burst + Rate * window.ticks

(* The bulkhead's slots are counted, and only who holds one has a goroutine *)
(* that is waited for.                                                      *)
BulkheadInv ==
  /\ nesting = "limits" => IsFiniteSet(Inside) /\ Cardinality(Inside) <= MaxConcurrent
  /\ \A u \in Users : worker[u] # Nobody <=> stage[u] = "inside"

(* An attempt that began too late is the last one: whoever is told that the *)
(* time is over stays abandoned until the goroutine is through.             *)
LateInv ==
  \A g \in Workers :
    /\ job[g].late <= 1
    /\ job[g].late = 1 => \/ job[g].at = "done"
                          \/ job[g].at \in {"attempt", "backoff"} /\ Abandoned(g)

GuardsInv == GuardsTypeOK /\ LimiterInv /\ BulkheadInv /\ LateInv

LEMMA GuardsInit == GuardInit => GuardsInv
<1> SUFFICES ASSUME GuardInit PROVE GuardsInv
  OBVIOUS
<1> USE GCAssumption DEF GuardInit, GuardsAtRest
<1>1. GuardsTypeOK
  BY DEF GuardsTypeOK, Stages, Jobs, NoJob
<1>2. LimiterInv
  BY DEF LimiterInv
<1>3. BulkheadInv
  <2>1. Inside = {}
    BY DEF Inside
  <2>2. QED
    BY <2>1, FS_EmptySet DEF BulkheadInv
<1>4. LateInv
  BY DEF LateInv, NoJob
<1>5. QED
  BY <1>1, <1>2, <1>3, <1>4 DEF GuardsInv

(* A step that neither takes a token nor lets time pass keeps the account. *)
LEMMA LimiterKept == LimiterInv /\ UNCHANGED <<tokens, window>> => LimiterInv'
BY DEF LimiterInv, Closed

(* A step of a user that takes no slot keeps those that are taken. *)
LEMMA SlotsKept ==
  ASSUME GuardsInv, UNCHANGED nesting, Inside' \subseteq Inside,
         \A u \in Users : worker'[u] # Nobody <=> stage'[u] = "inside"
  PROVE  BulkheadInv'
<1>1. CASE nesting = "limits"
  <2>1. IsFiniteSet(Inside) /\ Cardinality(Inside) <= MaxConcurrent
    BY <1>1 DEF GuardsInv, BulkheadInv
  <2>2. IsFiniteSet(Inside') /\ Cardinality(Inside') <= Cardinality(Inside)
    BY <2>1, FS_Subset
  <2>3. Cardinality(Inside) \in Nat /\ Cardinality(Inside') \in Nat
    BY <2>1, <2>2, FS_CardinalityType
  <2>4. QED
    BY <2>1, <2>2, <2>3, GCAssumption DEF BulkheadInv
<1>2. CASE nesting # "limits"
  BY <1>2 DEF BulkheadInv
<1>3. QED
  BY <1>1, <1>2

(* Who is abandoned stays so unless a goroutine is started for a user. *)
LEMMA LateKept ==
  ASSUME GuardsInv, UNCHANGED job,
         \A u \in Users : worker'[u] \in {worker[u], Nobody}
  PROVE  LateInv'
<1>1. \A g \in Workers : Abandoned(g) => Abandoned(g)'
  BY GCAssumption DEF Abandoned
<1>2. QED
  BY <1>1 DEF GuardsInv, LateInv

-----------------------------------------------------------------------------
(* A step of a user that moves no goroutine of Timeout. *)
LEMMA UserMoves ==
  ASSUME GuardsInv, NEW u \in Users,
         Call(u) \/ Allow(u) \/ ContextEnds(u) \/ Enter(u) \/ Fallback(u),
         UNCHANGED nesting
  PROVE  GuardsInv'
<1> USE GCAssumption
<1>1. GuardsTypeOK /\ LimiterInv /\ BulkheadInv /\ LateInv
  BY DEF GuardsInv
<1>2. PICK s \in Stages \ {"inside"} : stage' = [stage EXCEPT ![u] = s]
  BY DEF Call, Allow, ContextEnds, Enter, Fallback, Goes, Stages
<1>3. stage[u] # "inside" /\ UNCHANGED <<worker, job>>
  BY DEF Call, Allow, ContextEnds, Enter, Fallback
<1>4. tokens' \in 0 .. Burst /\ LimiterInv'
  <2>1. CASE Allow(u)
    BY <1>1, <2>1 DEF Allow, GuardsTypeOK, LimiterInv, Closed
  <2>2. CASE ~Allow(u)
    BY <1>1, <2>2, LimiterKept DEF Call, ContextEnds, Enter, Fallback, GuardsTypeOK
  <2>3. QED
    BY <2>1, <2>2
<1>5. GuardsTypeOK'
  BY <1>1, <1>2, <1>3, <1>4 DEF GuardsTypeOK
<1>6. \A v \in Users : worker'[v] # Nobody <=> stage'[v] = "inside"
  BY <1>1, <1>2, <1>3 DEF GuardsTypeOK, BulkheadInv
<1>7. BulkheadInv'
  <2>1. CASE Inside' \subseteq Inside
    BY <1>6, <2>1, SlotsKept
  <2>2. CASE nesting # "limits"
    BY <1>6, <2>2 DEF BulkheadInv
  <2>3. CASE nesting = "limits" /\ ~(Inside' \subseteq Inside)
    <3>1. stage' # stage /\ Enter(u)
      BY <1>1, <1>2, <2>3 DEF Call, Allow, ContextEnds, Enter, Fallback, Goes, Inside, GuardsTypeOK
    <3>2. Inside' = Inside \union {u}
      BY <1>1, <3>1 DEF Enter, Goes, Inside, GuardsTypeOK
    <3>3. IsFiniteSet(Inside) /\ Cardinality(Inside) < MaxConcurrent
      BY <1>1, <2>3, <3>1 DEF Enter, BulkheadInv
    <3>4. /\ IsFiniteSet(Inside') /\ Cardinality(Inside) \in Nat
          /\ Cardinality(Inside') \in {Cardinality(Inside), Cardinality(Inside) + 1}
      BY <3>2, <3>3, FS_AddElement, FS_CardinalityType
    <3>5. QED
      BY <1>6, <3>3, <3>4 DEF BulkheadInv
  <2>4. QED
    BY <2>1, <2>2, <2>3
<1>8. LateInv'
  BY <1>3, LateKept
<1>9. QED
  BY <1>4, <1>5, <1>7, <1>8 DEF GuardsInv

LEMMA StartMoves ==
  ASSUME GuardsInv, NEW u \in Users, NEW g \in Workers, StartTimeout(u, g),
         UNCHANGED nesting
  PROVE  GuardsInv'
<1> USE GCAssumption
<1>1. GuardsTypeOK /\ LimiterInv /\ BulkheadInv /\ LateInv
  BY DEF GuardsInv
<1>2. /\ stage[u] = "entered" /\ stage' = [stage EXCEPT ![u] = "inside"]
      /\ job[g].at = "done" /\ worker' = [worker EXCEPT ![u] = g]
      /\ job' = [job EXCEPT ![g] = [at |-> "loop", attempt |-> 1, late |-> 0]]
      /\ UNCHANGED <<tokens, window>>
  BY DEF StartTimeout, Goes
<1>3. GuardsTypeOK'
  BY <1>1, <1>2 DEF GuardsTypeOK, Stages, Jobs
<1>4. LimiterInv'
  BY <1>1, <1>2, LimiterKept
<1>5. BulkheadInv'
  <2>1. Inside' \subseteq Inside
    BY <1>1, <1>2 DEF Inside, GuardsTypeOK
  <2>2. \A v \in Users : worker'[v] # Nobody <=> stage'[v] = "inside"
    BY <1>1, <1>2 DEF GuardsTypeOK, BulkheadInv
  <2>3. QED
    BY <2>1, <2>2, SlotsKept
<1>6. LateInv'
  <2>1. \A h \in Workers \ {g} : job'[h] = job[h] /\ (Abandoned(h) => Abandoned(h)')
    BY <1>1, <1>2 DEF GuardsTypeOK, Abandoned
  <2>2. job'[g].late = 0
    BY <1>1, <1>2 DEF GuardsTypeOK
  <2>3. QED
    BY <1>1, <2>1, <2>2 DEF LateInv
<1>7. QED
  BY <1>3, <1>4, <1>5, <1>6 DEF GuardsInv

(* Timeout returns: the slot is free, and a goroutine that was waited for   *)
(* is either through or abandoned.                                          *)
LEMMA ReturnMoves ==
  ASSUME GuardsInv, NEW u \in Users, Return(u) \/ TimesOut(u), UNCHANGED nesting
  PROVE  GuardsInv'
<1> USE GCAssumption
<1>1. GuardsTypeOK /\ LimiterInv /\ BulkheadInv /\ LateInv
  BY DEF GuardsInv
<1>2. stage[u] = "inside" /\ worker[u] \in Workers
  BY <1>1 DEF Return, TimesOut, GuardsTypeOK, BulkheadInv
<1>3. PICK s \in {"idle", "fallback"} : stage' = [stage EXCEPT ![u] = s]
  BY DEF Return, TimesOut, Leaves, Goes
<1>4. worker' = [worker EXCEPT ![u] = Nobody] /\ UNCHANGED <<tokens, window>>
  BY DEF Return, TimesOut, Leaves
<1>5. job' = job \/ job' = [job EXCEPT ![worker[u]].at = "done"]
  BY DEF Return, TimesOut, Does
<1>6. GuardsTypeOK'
  BY <1>1, <1>2, <1>3, <1>4, <1>5 DEF GuardsTypeOK, Stages, Jobs
<1>7. LimiterInv'
  BY <1>1, <1>4, LimiterKept
<1>8. BulkheadInv'
  <2>1. Inside' \subseteq Inside
    BY <1>1, <1>3 DEF Inside, GuardsTypeOK
  <2>2. \A v \in Users : worker'[v] # Nobody <=> stage'[v] = "inside"
    BY <1>1, <1>3, <1>4 DEF GuardsTypeOK, BulkheadInv
  <2>3. QED
    BY <2>1, <2>2, SlotsKept
<1>9. LateInv'
  <2>1. \A g \in Workers : Abandoned(g) => Abandoned(g)'
    BY <1>1, <1>4 DEF GuardsTypeOK, Abandoned
  <2>2. \A g \in Workers : /\ job'[g].late = job[g].late
                           /\ job'[g].at \in {job[g].at, "done"}
    BY <1>1, <1>2, <1>5 DEF GuardsTypeOK, Jobs
  <2>3. QED
    BY <1>1, <2>1, <2>2 DEF LateInv
<1>10. QED
  BY <1>6, <1>7, <1>8, <1>9 DEF GuardsInv

(* The goroutine of Timeout begins, ends or repeats an attempt. *)
LEMMA WorkerMoves ==
  ASSUME GuardsInv, NEW g \in Workers, WorkerStep(g), UNCHANGED nesting
  PROVE  GuardsInv'
<1> USE GCAssumption
<1>1. GuardsTypeOK /\ LimiterInv /\ BulkheadInv /\ LateInv
  BY DEF GuardsInv
<1>2. UNCHANGED <<tokens, stage, worker, window>>
  BY DEF WorkerStep, Attempt, AttemptRejected, AttemptSucceeds, AttemptFails, Backoff
<1>3. Inside' = Inside /\ \A h \in Workers : Abandoned(h)' = Abandoned(h)
  BY <1>2 DEF Inside, Abandoned
<1>4. /\ job' \in [Workers -> Jobs] /\ \A h \in Workers \ {g} : job'[h] = job[h]
      /\ job[g].at # "done"
      /\ \/ job'[g].late = job[g].late /\ (Abandoned(g) => job'[g].at \in {"done", "backoff"})
         \/ job'[g].late = job[g].late /\ job'[g].late = 0
         \/ job[g].at = "loop" /\ Abandoned(g) /\ job'[g].at = "attempt"
            /\ job'[g].late = job[g].late + 1
  <2>1. job[g] \in Jobs /\ job \in [Workers -> Jobs]
    BY <1>1 DEF GuardsTypeOK
  <2>2. CASE Attempt(g)
    <3>1. job[g].at = "loop" /\ job[g].late = 0
      BY <1>1, <2>1, <2>2 DEF Attempt, LateInv, Jobs
    <3>2. job' = [job EXCEPT ![g].at = "attempt",
                             ![g].late = IF Abandoned(g) THEN @ + 1 ELSE @]
      BY <2>2 DEF Attempt, Begins
    <3>3. PICK n \in Nat : job[g] = [at |-> "loop", attempt |-> n, late |-> 0]
      BY <2>1, <3>1 DEF Jobs
    <3>4. PICK l \in {0, 1} : /\ l = IF Abandoned(g) THEN 1 ELSE 0
                              /\ job' = [job EXCEPT ![g].at = "attempt", ![g].late = l]
      <4>1. CASE Abandoned(g)
        <5>1. job' = [job EXCEPT ![g].at = "attempt", ![g].late = 1]
          BY <2>1, <3>2, <3>3, <4>1
        <5>2. QED
          BY <4>1, <5>1
      <4>2. CASE ~Abandoned(g)
        <5>1. job' = [job EXCEPT ![g].at = "attempt", ![g].late = 0]
          BY <2>1, <3>2, <3>3, <4>2
        <5>2. QED
          BY <4>2, <5>1
      <4>3. QED
        BY <4>1, <4>2
    <3> DEFINE j == [at |-> "attempt", attempt |-> n, late |-> l]
    <3>5. job' = [job EXCEPT ![g] = j]
      <4> DEFINE k == [at |-> "attempt", attempt |-> n, late |-> 0]
                 K == [job EXCEPT ![g].at = "attempt"]
      <4>1. [job[g] EXCEPT !.at = "attempt"] = k
        BY <3>3
      <4>2. K = [job EXCEPT ![g] = k] /\ K[g] = k
        BY <2>1, <4>1
      <4>3. [k EXCEPT !.late = l] = j
        OBVIOUS
      <4>4. job' = [K EXCEPT ![g] = [K[g] EXCEPT !.late = l]]
        BY <3>4
      <4> HIDE DEF k, j, K
      <4>5. job' = [K EXCEPT ![g] = j]
        BY <4>2, <4>3, <4>4
      <4>6. QED
        BY <2>1, <4>2, <4>5
    <3>6. j \in Jobs /\ j.at = "attempt" /\ j.late = l
      BY DEF Jobs
    <3> HIDE DEF j
    <3>7. job' \in [Workers -> Jobs] /\ job'[g] = j /\ \A h \in Workers \ {g} : job'[h] = job[h]
      BY <2>1, <3>5, <3>6
    <3>8. QED
      BY <3>1, <3>4, <3>6, <3>7
  <2>3. CASE AttemptRejected(g) \/ AttemptSucceeds(g) \/ AttemptFails(g)
    <3>1. Ends(g) \/ Does(g, "backoff")
      BY <2>3 DEF AttemptRejected, AttemptSucceeds, AttemptFails, Failed
    <3>2. job[g].at # "done"
      BY <2>3 DEF AttemptRejected, AttemptSucceeds, AttemptFails
    <3>3. job[g].late # 0 => Abandoned(g)
      BY <1>1, <2>1, <2>3 DEF AttemptRejected, AttemptSucceeds, AttemptFails, LateInv, Jobs
    <3>4. QED
      BY <2>1, <3>1, <3>2, <3>3 DEF Ends, Does, Jobs
  <2>4. CASE Backoff(g)
    <3>1. CASE Abandoned(g)
      BY <2>1, <2>4, <3>1 DEF Backoff, Does, Jobs
    <3>2. CASE ~Abandoned(g)
      <4>1. job[g].at = "backoff" /\ job[g].late = 0
        BY <1>1, <2>1, <2>4, <3>2 DEF Backoff, LateInv, Jobs
      <4>2. job' = [job EXCEPT ![g].at = "loop", ![g].attempt = @ + 1]
        BY <2>4, <3>2 DEF Backoff
      <4>3. /\ job'[g] = [at |-> "loop", attempt |-> job[g].attempt + 1, late |-> 0]
            /\ \A h \in Workers \ {g} : job'[h] = job[h]
            /\ job' = [h \in Workers |-> job'[h]]
        BY <2>1, <4>1, <4>2 DEF Jobs
      <4>4. QED
        BY <2>1, <4>1, <4>3 DEF Jobs
    <3>3. QED
      BY <3>1, <3>2
  <2>5. QED
    BY <2>2, <2>3, <2>4 DEF WorkerStep
<1>5. GuardsTypeOK'
  BY <1>1, <1>2, <1>4 DEF GuardsTypeOK
<1>6. LimiterInv'
  BY <1>1, <1>2, LimiterKept
<1>7. BulkheadInv'
  BY <1>1, <1>2, <1>3, SlotsKept DEF BulkheadInv
<1>8. LateInv'
  <2>1. \A h \in Workers \ {g} : job'[h] = job[h]
    BY <1>4
  <2>2. job[g].late \in Nat /\ job'[g].at \in {"loop", "attempt", "backoff", "sent", "done"}
    BY <1>1, <1>5 DEF GuardsTypeOK, Jobs
  <2>3. /\ job'[g].late <= 1
        /\ job'[g].late = 1 => \/ job'[g].at = "done"
                               \/ job'[g].at \in {"attempt", "backoff"} /\ Abandoned(g)
    BY <1>1, <1>4, <2>2 DEF LateInv
  <2>4. QED
    BY <1>1, <1>3, <2>1, <2>3 DEF LateInv
<1>9. QED
  BY <1>5, <1>6, <1>7, <1>8 DEF GuardsInv

(* Time refills the bucket by no more than the bound grows. *)
LEMMA TimeMoves ==
  ASSUME GuardsInv, GuardTick \/ OpenWindow, UNCHANGED nesting
  PROVE  GuardsInv'
<1> USE GCAssumption
<1>1. GuardsTypeOK /\ LimiterInv /\ BulkheadInv /\ LateInv
  BY DEF GuardsInv
<1>2. UNCHANGED <<stage, worker, job>>
  BY DEF GuardTick, OpenWindow, guardVars
<1>3. Burst \in Nat /\ Rate \in Nat /\ Window \in Nat /\ tokens \in 0 .. Burst
  BY <1>1 DEF GuardsTypeOK
<1>4. tokens' \in 0 .. Burst /\ LimiterInv'
  <2>1. CASE OpenWindow
    BY <1>3, <2>1 DEF OpenWindow, LimiterInv
  <2>2. CASE UNCHANGED guardVars
    BY <1>1, <1>3, <2>2, LimiterKept DEF guardVars
  <2>3. CASE GuardTick /\ nesting # "retry"
    <3>1. /\ tokens' = IF tokens + Rate < Burst THEN tokens + Rate ELSE Burst
          /\ window' = IF window.ticks \in 0 .. Window - 1
                       THEN [window EXCEPT !.ticks = @ + 1] ELSE Closed
      BY <2>3 DEF GuardTick
    <3>2. tokens' \in 0 .. Burst /\ tokens' <= tokens + Rate
      BY <1>3, <3>1
    <3>3. CASE window.ticks \notin 0 .. Window - 1
      BY <3>1, <3>2, <3>3 DEF LimiterInv, Closed
    <3>4. CASE window.ticks \in 0 .. Window - 1
      <4>1. window # Closed
        BY <1>3, <3>4 DEF Closed
      <4>2. PICK t \in 0 .. Window, a \in Nat : window = [ticks |-> t, allowed |-> a]
        BY <1>1, <4>1 DEF LimiterInv
      <4>3. PICK p \in Nat : p = Rate * t /\ Rate * (t + 1) = p + Rate
        BY <1>3
      <4>4. window' = [ticks |-> t + 1, allowed |-> a] /\ t + 1 \in 0 .. Window
        BY <1>3, <3>1, <3>4, <4>2
      <4>5. a + tokens <= Burst + p
        BY <1>1, <4>1, <4>2, <4>3 DEF LimiterInv
      <4>6. a + tokens' <= Burst + (p + Rate)
        <5>1. {a, p, tokens, tokens', Burst, Rate} \subseteq Nat
          BY <1>3, <3>2
        <5>2. QED
          BY <3>2, <4>5, <5>1
      <4>7. QED
        BY <3>2, <4>3, <4>4, <4>6 DEF LimiterInv
    <3>5. QED
      BY <3>3, <3>4
  <2>4. QED
    BY <2>1, <2>2, <2>3 DEF GuardTick
<1>5. GuardsTypeOK'
  BY <1>1, <1>2, <1>4 DEF GuardsTypeOK
<1>6. BulkheadInv' /\ LateInv'
  BY <1>1, <1>2, SlotsKept, LateKept DEF BulkheadInv, Inside
<1>7. QED
  BY <1>4, <1>5, <1>6 DEF GuardsInv

LEMMA GuardsStep == GuardsInv /\ [GuardNext]_allVars => GuardsInv'
<1> SUFFICES ASSUME GuardsInv, [GuardNext]_allVars PROVE GuardsInv'
  OBVIOUS
<1>1. ASSUME UNCHANGED <<nesting, guardVars>> PROVE GuardsInv'
  <2>1. UNCHANGED <<nesting, tokens, stage, worker, job, window>>
    BY <1>1 DEF guardVars
  <2>2. GuardsTypeOK' /\ LimiterInv'
    BY <2>1, LimiterKept DEF GuardsInv, GuardsTypeOK
  <2>3. BulkheadInv' /\ LateInv'
    BY <2>1, SlotsKept, LateKept DEF GuardsInv, BulkheadInv, Inside
  <2>4. QED
    BY <2>2, <2>3 DEF GuardsInv
<1>2. CASE Direct(Next) \/ UNCHANGED allVars
  BY <1>1, <1>2 DEF Direct, allVars
<1>3. ASSUME NEW u \in Users, UserStep(u), UNCHANGED nesting PROVE GuardsInv'
  BY <1>3, UserMoves, StartMoves, ReturnMoves DEF UserStep
<1>4. ASSUME NEW g \in Workers, WorkerStep(g), UNCHANGED nesting PROVE GuardsInv'
  BY <1>4, WorkerMoves
<1>5. ASSUME GuardTick \/ OpenWindow, UNCHANGED nesting PROVE GuardsInv'
  BY <1>5, TimeMoves
<1>6. ASSUME Environment, UNCHANGED nesting PROVE GuardsInv'
  BY <1>1, <1>6 DEF Environment
<1>7. QED
  BY <1>2, <1>3, <1>4, <1>5, <1>6 DEF GuardNext, Nested

(* A goroutine that is waited for belongs to a call that holds a slot. *)
LEMMA WaitedForHoldSlots ==
  ASSUME GuardsInv, nesting = "limits"
  PROVE  OnlyAbandonedExceed
<1> DEFINE W == {g \in Workers : Running(g) /\ ~Abandoned(g)}
<1>1. IsFiniteSet(Inside) /\ Cardinality(Inside) <= MaxConcurrent
  BY DEF GuardsInv, BulkheadInv
<1>2. \A g \in W : \E u \in Inside : worker[u] = g
  BY GCAssumption DEF GuardsInv, BulkheadInv, GuardsTypeOK, Abandoned, Inside
<1> DEFINE D == {u \in Inside : worker[u] \in W}
           f == [u \in D |-> worker[u]]
<1>3. IsFiniteSet(D) /\ Cardinality(D) <= Cardinality(Inside)
  BY <1>1, FS_Subset
<1>4. f \in Surjection(D, W)
  BY <1>2 DEF Surjection
<1>5. Cardinality(W) <= Cardinality(D)
  BY <1>3, <1>4, FS_Surjection
<1>6. IsFiniteSet(W)
  BY <1>3, <1>4, FS_Surjection
<1>7. {Cardinality(W), Cardinality(D), Cardinality(Inside), MaxConcurrent} \subseteq Nat
  BY <1>1, <1>3, <1>6, FS_CardinalityType, GCAssumption
<1>8. Cardinality(W) <= MaxConcurrent
  BY <1>1, <1>3, <1>5, <1>7
<1>9. QED
  BY <1>8 DEF OnlyAbandonedExceed

(* For any number of users and goroutines, any bucket, any number of slots  *)
(* and attempts: the limiter's bound holds from whatever moment one counts, *)
(* only abandoned goroutines run besides those that hold a slot, and an     *)
(* abandoned one begins at most one more attempt.                           *)
THEOREM GuardsCorrect == GuardSpec => []GuardsHold
<1>1. GuardsInv => GuardsHold
  <2> SUFFICES ASSUME GuardsInv PROVE GuardsHold
    OBVIOUS
  <2>1. LimiterBound
    BY GCAssumption DEF GuardsInv, GuardsTypeOK, LimiterInv, LimiterBound
  <2>2. OnlyAbandonedExceed
    BY WaitedForHoldSlots DEF OnlyAbandonedExceed
  <2>3. OneLateAttempt
    BY DEF GuardsInv, LateInv, OneLateAttempt
  <2>4. QED
    BY <2>1, <2>2, <2>3 DEF GuardsHold
<1>2. QED
  BY <1>1, GuardsInit, GuardsStep, PTL DEF GuardSpec

(* The guards use the breaker only through what it offers: under them it    *)
(* behaves as it does alone, and so has all the properties proved of it.    *)
THEOREM BreakerUnderGuards == GuardSpec => Spec
<1>1. GuardInit => Init
  BY DEF GuardInit, GuardsAtRest
<1>2. [GuardNext]_allVars => [Next]_vars
  <2> SUFFICES ASSUME [GuardNext]_allVars PROVE [Next]_vars
    OBVIOUS
  <2>1. CASE Direct(Next)
    BY <2>1 DEF Direct
  <2>2. ASSUME NEW u \in Users, UserStep(u) PROVE UNCHANGED vars
    BY <2>2 DEF UserStep, Call, Allow, ContextEnds, Enter, StartTimeout, Return, TimesOut,
                Fallback, Leaves
  <2>3. ASSUME NEW g \in Workers, WorkerStep(g) PROVE [Next]_vars
    <3>1. g \in Callers
      BY GCAssumption
    <3>2. \/ Admit(g) \/ Probe(g) \/ Reject(g) \/ RecordSuccess(g) \/ RecordFailure(g)
          \/ UNCHANGED vars
      BY <2>3 DEF WorkerStep, Attempt, AttemptRejected, AttemptSucceeds, AttemptFails, Backoff
    <3>3. QED
      BY <3>1, <3>2 DEF Next
  <2>4. CASE GuardTick \/ OpenWindow \/ Environment
    BY <2>4 DEF GuardTick, OpenWindow, Environment, Next
  <2>5. CASE UNCHANGED allVars
    BY <2>5 DEF allVars
  <2>6. QED
    BY <2>1, <2>2, <2>3, <2>4, <2>5 DEF GuardNext, Nested
<1>3. QED
  BY <1>1, <1>2, PTL DEF GuardSpec, Spec
-----------------------------------------------------------------------------
(***************************************************************************)
(* Chains of tools.                                                        *)
(***************************************************************************)
Calls   == [at : {"off", "running", "backoff", "ok", "failed"}, attempt : Nat]
Results == [StepResults : SUBSET Tools, Errors : SUBSET Tools, executed : Nat,
            skipped : Nat, Success : BOOLEAN]

ChainTypeOK ==
  /\ chain \in Chains
  /\ at \in 0 .. Len(chain) + 1
  /\ call \in [Tools -> Calls]
  /\ result \in Results

(* The tools of the step the chain is at, and those that were called.       *)
Now    == IF InChain THEN Current.tools ELSE {}
Called == {t \in Tools : call[t].at # "off"}

(* Only the tools of the present step are under way, and nothing that was   *)
(* called belongs to a later one.                                           *)
StepInv ==
  /\ Active \subseteq Now
  /\ ~Outside => \A t \in Called : \E i \in 1 .. Len(chain) : i <= at /\ t \in chain[i].tools

(* What is on record are the steps before: each is counted, and each of     *)
(* their tools is in the results or in the errors.                          *)
RecordInv ==
  ~Outside =>
    /\ result.executed + result.skipped = at - 1
    /\ result.Success
    /\ result.StepResults \cap result.Errors = {}
    /\ result.StepResults \cup result.Errors = Called \ Now
    /\ lastResult[1] # run =>
         \A i \in 1 .. at - 1 :
           chain[i].parallel \/ chain[i].tools \cap result.StepResults = {}

ChainInv == ChainTypeOK /\ StepInv /\ RecordInv /\ ResultIsWhole

(* The steps of a chain share no tools, and a plain step has just one.      *)
LEMMA ChainSteps ==
  ASSUME ChainTypeOK
  PROVE  /\ Len(chain) \in Nat /\ chain \in Seq(Steps) /\ DOMAIN chain = 1 .. Len(chain)
         /\ \A i \in 1 .. Len(chain) :
              /\ chain[i].tools \subseteq Tools
              /\ chain[i].parallel \/ \E t \in Tools : chain[i].tools = {t}
              /\ \A j \in 1 .. Len(chain) : i # j => chain[i].tools \cap chain[j].tools = {}
<1>1. chain \in Chains /\ chain \in Seq(Steps)
  BY TCAssumption DEF ChainTypeOK
<1>2. Len(chain) \in Nat /\ DOMAIN chain = 1 .. Len(chain)
  BY <1>1
<1>3. \A i \in 1 .. Len(chain) : chain[i] \in Steps
  BY <1>1
<1>4. QED
  BY <1>1, <1>2, <1>3, TCAssumption DEF Steps

LEMMA ChainInitInv == ChainInit => ChainInv
<1> SUFFICES ASSUME ChainInit PROVE ChainInv
  OBVIOUS
<1> USE TCAssumption DEF ChainInit, ChainAtRest
<1>1. ChainTypeOK
  BY DEF ChainTypeOK, Calls, NoCall, Results, NoResult
<1>2. StepInv /\ RecordInv /\ ResultIsWhole
  BY DEF StepInv, RecordInv, ResultIsWhole, Outside, Active, NoCall
<1>3. QED
  BY <1>1, <1>2 DEF ChainInv

(* Outside Execute nothing is under way. *)
LEMMA OutsideIsQuiet == ChainInv /\ Outside => Active = {} /\ Now = {}
BY DEF ChainInv, StepInv, Now, Outside, InChain

-----------------------------------------------------------------------------
LEMMA ExecuteChain ==
  ASSUME ChainInv, Execute
  PROVE  ChainInv'
<1> USE DEF Execute, Outside
<1>1. ChainTypeOK /\ Len(chain) \in Nat
  BY ChainSteps DEF ChainInv
<1>2. ChainTypeOK'
  BY <1>1 DEF ChainTypeOK, Calls, NoCall, Results, NoResult
<1>3. Active' = {} /\ Called' = {}
  BY DEF Active, Called, NoCall
<1>4. /\ result'.executed = 0 /\ result'.skipped = 0 /\ result'.Success
      /\ result'.StepResults = {} /\ result'.Errors = {}
  BY DEF NoResult
<1>5. QED
  BY <1>1, <1>2, <1>3, <1>4 DEF ChainInv, StepInv, RecordInv, ResultIsWhole

(* A step of the chain is over: what it called is on record. *)
LEMMA Advances ==
  ASSUME ChainInv, InChain, Active = {},
         UNCHANGED <<chain, call, run>>, at' = at + 1, result' \in Results,
         result'.executed + result'.skipped = result.executed + result.skipped + 1,
         result'.Success = result.Success,
         result'.StepResults \cap result'.Errors = {},
         result'.StepResults \cup result'.Errors = Called,
         lastResult'[1] # run =>
           /\ lastResult[1] # run
           /\ result'.StepResults \ result.StepResults \subseteq Current.tools
           /\ Current.parallel \/ Current.tools \cap result'.StepResults = {}
  PROVE  ChainInv'
<1>1. ChainTypeOK /\ Len(chain) \in Nat /\ at \in 1 .. Len(chain) /\ ~Outside /\ ~Outside'
  BY ChainSteps DEF ChainInv, InChain, Outside
<1>2. ChainTypeOK'
  BY <1>1 DEF ChainTypeOK
<1>3. Called' = Called /\ Active' = {}
  BY DEF Called, Active
<1>4. \A t \in Called : \E i \in 1 .. Len(chain) : i <= at /\ t \in chain[i].tools
  BY <1>1 DEF ChainInv, StepInv
<1>5. Now' \cap Called = {}
  <2>1. CASE at + 1 <= Len(chain)
    <3>1. Now' = chain[at + 1].tools
      BY <1>1, <2>1 DEF Now, InChain, Current
    <3>2. \A i \in 1 .. Len(chain) : i <= at => chain[i].tools \cap chain[at + 1].tools = {}
      BY <1>1, <2>1, ChainSteps
    <3>3. QED
      BY <1>4, <3>1, <3>2
  <2>2. CASE at + 1 > Len(chain)
    BY <1>1, <2>2 DEF Now, InChain
  <2>3. QED
    BY <1>1, <2>1, <2>2
<1>6. StepInv'
  <2>1. \A t \in Called : \E i \in 1 .. Len(chain) : i <= at + 1 /\ t \in chain[i].tools
    BY <1>1, <1>4
  <2>2. QED
    BY <1>3, <2>1 DEF StepInv
<1>7. ASSUME lastResult'[1] # run
      PROVE  \A i \in 1 .. at : chain[i].parallel \/ chain[i].tools \cap result'.StepResults = {}
  <2> SUFFICES ASSUME NEW i \in 1 .. at
               PROVE  chain[i].parallel \/ chain[i].tools \cap result'.StepResults = {}
    OBVIOUS
  <2>1. CASE i = at
    BY <1>7, <2>1 DEF Current
  <2>2. CASE i # at
    <3>1. chain[i].parallel \/ chain[i].tools \cap result.StepResults = {}
      BY <1>1, <1>7, <2>2 DEF ChainInv, RecordInv
    <3>2. chain[i].tools \cap Current.tools = {}
      BY <1>1, <2>2, ChainSteps DEF Current
    <3>3. QED
      BY <1>7, <3>1, <3>2
  <2>3. QED
    BY <2>1, <2>2
<1>8. RecordInv'
  <2>1. result'.executed + result'.skipped = at'- 1
    BY <1>1 DEF ChainInv, RecordInv, Results, ChainTypeOK
  <2>2. result'.Success
    BY <1>1 DEF ChainInv, RecordInv
  <2>3. \A i \in 1 .. at' - 1 : i \in 1 .. at
    BY <1>1
  <2>4. QED
    BY <1>3, <1>5, <1>7, <2>1, <2>2, <2>3 DEF RecordInv
<1>9. ResultIsWhole'
  BY <1>1 DEF ResultIsWhole
<1>10. QED
  BY <1>2, <1>6, <1>8, <1>9 DEF ChainInv

(* Execute returns with an error, and what was called is on record. *)
LEMMA ReturnsError ==
  ASSUME ChainInv, InChain, Active = {},
         UNCHANGED <<chain, call>>, at' = 0, result' \in Results,
         \/ outcome' = "panicked"
         \/ /\ outcome' # "completed" /\ ~result'.Success
            /\ result'.StepResults \cap result'.Errors = {}
            /\ result'.StepResults \cup result'.Errors = Called
  PROVE  ChainInv'
<1>1. ChainTypeOK /\ Len(chain) \in Nat /\ Outside'
  BY ChainSteps DEF ChainInv, Outside
<1>2. ChainTypeOK'
  BY <1>1 DEF ChainTypeOK
<1>3. Called' = Called /\ Active' = {}
  BY DEF Called, Active
<1>4. StepInv' /\ RecordInv'
  BY <1>1, <1>3 DEF StepInv, RecordInv
<1>5. ResultIsWhole'
  BY <1>3 DEF ResultIsWhole, Called
<1>6. QED
  BY <1>2, <1>4, <1>5 DEF ChainInv

(* The record of the steps before and of what the present one has called.   *)
LEMMA OnRecord ==
  ASSUME ChainInv, InChain
  PROVE  /\ ChainTypeOK /\ result \in Results /\ result.Success /\ Now = Current.tools
         /\ Current.tools \subseteq Tools
         /\ result.StepResults \cap result.Errors = {}
         /\ result.StepResults \cup result.Errors = Called \ Current.tools
         /\ Active \subseteq Current.tools
         /\ Current.parallel \/ \E t \in Tools : Current.tools = {t}
<1>1. ChainTypeOK /\ at \in 1 .. Len(chain) /\ ~Outside
  BY ChainSteps DEF ChainInv, InChain, Outside
<1>2. Now = Current.tools
  BY DEF Now
<1>3. QED
  BY <1>1, <1>2, ChainSteps DEF ChainInv, ChainTypeOK, RecordInv, StepInv, Current

LEMMA TimedOutChain ==
  ASSUME ChainInv, ChainTimedOut
  PROVE  ChainInv'
<1> USE DEF ChainTimedOut
<1>1. Called \cap Current.tools = {} /\ Active = {}
  BY OnRecord DEF Called, Active
<1>2. /\ result' \in Results /\ ~result'.Success
      /\ result'.StepResults = result.StepResults /\ result'.Errors = result.Errors
  BY OnRecord DEF Returns, Results
<1>3. at' = 0 /\ outcome' = "timed out"
  BY DEF Returns
<1>4. QED
  BY <1>1, <1>2, <1>3, OnRecord, ReturnsError

LEMMA SkipChain ==
  ASSUME ChainInv, SkipStep
  PROVE  ChainInv'
<1> USE DEF SkipStep
<1>1. Called \cap Current.tools = {} /\ Active = {}
  BY OnRecord DEF Called, Active
<1>2. /\ result' \in Results /\ result'.Success = result.Success
      /\ result'.executed = result.executed /\ result'.skipped = result.skipped + 1
      /\ result'.StepResults = result.StepResults /\ result'.Errors = result.Errors
  BY OnRecord DEF Results
<1>3. result'.executed + result'.skipped = result.executed + result.skipped + 1
  BY <1>2, OnRecord DEF Results
<1>4. Current.tools \cap result.StepResults = {}
  BY OnRecord
<1>5. QED
  BY <1>1, <1>2, <1>3, <1>4, OnRecord, Advances

LEMMA ParallelChain ==
  ASSUME ChainInv, EndParallel
  PROVE  ChainInv'
<1> DEFINE failed == {t \in Current.tools : call[t].at = "failed"}
           kept   == [result EXCEPT !.Errors = @ \cup failed,
                                    !.StepResults = @ \cup (Current.tools \ failed)]
<1>1. InChain /\ Current.parallel /\ \A t \in Current.tools : Ended(t)
  BY DEF EndParallel
<1>2. UNCHANGED <<chain, run, call, lastResult>>
  BY DEF EndParallel
<1>3. Active = {} /\ Current.tools \subseteq Called
  BY <1>1, OnRecord DEF Active, Called, Ended
<1>4. failed \subseteq Current.tools
  OBVIOUS
<1>5. /\ kept \in Results
      /\ kept.Errors = result.Errors \cup failed
      /\ kept.StepResults = result.StepResults \cup (Current.tools \ failed)
      /\ kept.executed = result.executed /\ kept.skipped = result.skipped
      /\ kept.Success = result.Success
  BY <1>1, <1>4, OnRecord DEF Results
<1>6. \/ at' = 0 /\ outcome' = "failed" /\ result' = [kept EXCEPT !.Success = FALSE]
      \/ at' = at + 1 /\ result' = [kept EXCEPT !.executed = @ + 1]
  BY DEF EndParallel
<1> HIDE DEF failed, kept
<1>7. kept.StepResults \cap kept.Errors = {} /\ kept.StepResults \cup kept.Errors = Called
  BY <1>1, <1>3, <1>4, <1>5, OnRecord
<1>8. CASE at' = 0 /\ outcome' = "failed" /\ result' = [kept EXCEPT !.Success = FALSE]
  <2>1. /\ result' \in Results /\ ~result'.Success
        /\ result'.StepResults = kept.StepResults /\ result'.Errors = kept.Errors
    BY <1>5, <1>8 DEF Results
  <2>2. QED
    BY <1>1, <1>2, <1>3, <1>7, <1>8, <2>1, ReturnsError
<1>9. CASE at' = at + 1 /\ result' = [kept EXCEPT !.executed = @ + 1]
  <2>1. /\ result' \in Results /\ result'.Success = result.Success
        /\ result'.executed = result.executed + 1 /\ result'.skipped = result.skipped
        /\ result'.StepResults = kept.StepResults /\ result'.Errors = kept.Errors
    BY <1>5, <1>9 DEF Results
  <2>2. result'.executed + result'.skipped = result.executed + result.skipped + 1
    BY <1>1, <2>1, OnRecord DEF Results
  <2>3. result'.StepResults \ result.StepResults \subseteq Current.tools
    BY <1>5, <2>1
  <2>4. QED
    BY <1>1, <1>2, <1>3, <1>7, <1>9, <2>1, <2>2, <2>3, Advances
<1>10. QED
  BY <1>6, <1>8, <1>9

LEMMA FailedChain ==
  ASSUME ChainInv, NEW t \in Tools, StepFailed(t)
  PROVE  ChainInv'
<1> DEFINE kept == [result EXCEPT !.Errors = @ \cup {t}]
<1>1. InChain /\ ~Current.parallel /\ t \in Current.tools /\ call[t].at = "failed"
  BY DEF StepFailed
<1>2. Current.tools = {t}
  BY <1>1, OnRecord
<1>3. UNCHANGED <<chain, run, call, lastResult>>
  BY DEF StepFailed
<1>4. Active = {} /\ t \in Called
  BY <1>1, <1>2, OnRecord DEF Active, Called
<1>5. /\ kept \in Results
      /\ kept.Errors = result.Errors \cup {t} /\ kept.StepResults = result.StepResults
      /\ kept.executed = result.executed /\ kept.skipped = result.skipped
      /\ kept.Success = result.Success
  BY <1>1, OnRecord DEF Results
<1>6. \/ at' = 0 /\ outcome' = "failed" /\ result' = [kept EXCEPT !.Success = FALSE]
      \/ at' = 0 /\ outcome' = "panicked" /\ result' = kept
      \/ at' = at + 1 /\ result' = [kept EXCEPT !.executed = @ + 1]
  BY DEF StepFailed
<1> HIDE DEF kept
<1>7. kept.StepResults \cap kept.Errors = {} /\ kept.StepResults \cup kept.Errors = Called
  BY <1>1, <1>2, <1>4, <1>5, OnRecord
<1>8. CASE at' = 0 /\ outcome' = "failed" /\ result' = [kept EXCEPT !.Success = FALSE]
  <2>1. /\ result' \in Results /\ ~result'.Success
        /\ result'.StepResults = kept.StepResults /\ result'.Errors = kept.Errors
    BY <1>5, <1>8 DEF Results
  <2>2. QED
    BY <1>1, <1>3, <1>4, <1>7, <1>8, <2>1, ReturnsError
<1>9. CASE at' = 0 /\ outcome' = "panicked" /\ result' = kept
  BY <1>1, <1>3, <1>4, <1>5, <1>9, ReturnsError
<1>10. CASE at' = at + 1 /\ result' = [kept EXCEPT !.executed = @ + 1]
  <2>1. /\ result' \in Results /\ result'.Success = result.Success
        /\ result'.executed = result.executed + 1 /\ result'.skipped = result.skipped
        /\ result'.StepResults = kept.StepResults /\ result'.Errors = kept.Errors
    BY <1>5, <1>10 DEF Results
  <2>2. result'.executed + result'.skipped = result.executed + result.skipped + 1
    BY <1>1, <2>1, OnRecord DEF Results
  <2>3. /\ result'.StepResults = result.StepResults
        /\ Current.tools \cap result'.StepResults = {}
    BY <1>1, <1>5, <2>1, OnRecord
  <2>4. QED
    BY <1>1, <1>3, <1>4, <1>7, <1>10, <2>1, <2>2, <2>3, Advances
<1>11. QED
  BY <1>6, <1>8, <1>9, <1>10

LEMMA CompletedStep ==
  ASSUME ChainInv, NEW t \in Tools, StepCompleted(t)
  PROVE  ChainInv'
<1>1. InChain /\ ~Current.parallel /\ t \in Current.tools /\ call[t].at = "ok"
  BY DEF StepCompleted
<1>2. Current.tools = {t}
  BY <1>1, OnRecord
<1>3. /\ UNCHANGED <<chain, run, call>> /\ at' = at + 1 /\ lastResult'[1] = run
      /\ result' = [result EXCEPT !.StepResults = @ \cup {t}, !.executed = @ + 1]
  BY DEF StepCompleted
<1>4. Active = {} /\ t \in Called
  BY <1>1, <1>2, OnRecord DEF Active, Called
<1>5. /\ result' \in Results /\ result'.Success = result.Success
      /\ result'.executed = result.executed + 1 /\ result'.skipped = result.skipped
      /\ result'.StepResults = result.StepResults \cup {t} /\ result'.Errors = result.Errors
  <2>1. PICK S \in SUBSET Tools : S = result.StepResults \cup {t}
    BY <1>1, OnRecord DEF Results
  <2>2. result \in Results /\ result' = [result EXCEPT !.StepResults = S, !.executed = @ + 1]
    BY <1>1, <1>3, <2>1, OnRecord
  <2> DEFINE n == result.executed + 1
  <2>3. result' = [StepResults |-> S, Errors |-> result.Errors, executed |-> n,
                   skipped |-> result.skipped, Success |-> result.Success]
    BY <2>2 DEF Results
  <2>4. /\ result' \in Results /\ result'.Success = result.Success
        /\ result'.executed = result.executed + 1 /\ result'.skipped = result.skipped
        /\ result'.StepResults = S /\ result'.Errors = result.Errors
    BY <2>2, <2>3 DEF Results
  <2>5. QED
    BY <2>1, <2>4
<1>6. result'.executed + result'.skipped = result.executed + result.skipped + 1
  BY <1>1, <1>5, OnRecord DEF Results
<1>7. /\ result'.StepResults \cap result'.Errors = {}
      /\ result'.StepResults \cup result'.Errors = Called
  BY <1>1, <1>2, <1>4, <1>5, OnRecord
<1>8. QED
  BY <1>1, <1>3, <1>4, <1>5, <1>6, <1>7, Advances

LEMMA CompletedChain ==
  ASSUME ChainInv, ChainCompleted
  PROVE  ChainInv'
<1>1. ChainTypeOK /\ Len(chain) \in Nat /\ ~Outside
  BY ChainSteps DEF ChainInv, ChainCompleted, Outside
<1>2. /\ at = Len(chain) + 1 /\ at' = 0 /\ outcome' = "completed"
      /\ UNCHANGED <<chain, run, call, result, lastResult>>
  BY DEF ChainCompleted
<1>3. Now = {} /\ Active = {}
  BY <1>1, <1>2 DEF ChainInv, StepInv, Now, InChain
<1>4. ChainTypeOK' /\ Outside'
  BY <1>1, <1>2 DEF ChainTypeOK, Outside
<1>5. Active' = {} /\ Called' = Called
  BY <1>2, <1>3 DEF Active, Called
<1>6. StepInv' /\ RecordInv'
  BY <1>4, <1>5 DEF StepInv, RecordInv
<1>7. /\ result.executed + result.skipped = Len(chain) /\ result.Success
      /\ result.StepResults \cap result.Errors = {}
      /\ result.StepResults \cup result.Errors = Called
      /\ lastResult[1] # run => \A i \in 1 .. Len(chain) :
           chain[i].parallel \/ chain[i].tools \cap result.StepResults = {}
  BY <1>1, <1>2, <1>3 DEF ChainInv, RecordInv
<1>8. ResultIsWhole'
  BY <1>2, <1>5, <1>7 DEF ResultIsWhole, Called
<1>9. QED
  BY <1>4, <1>6, <1>8 DEF ChainInv

(* A tool of the present step begins, ends or is repeated. *)
LEMMA ToolMoves ==
  ASSUME ChainInv, NEW t \in Tools, StartTool(t) \/ HandlerReturns(t) \/ ToolBackoff(t)
  PROVE  ChainInv'
<1>1. ChainTypeOK /\ Len(chain) \in Nat
  BY ChainSteps DEF ChainInv
<1>2. t \in Now
  <2>1. CASE StartTool(t)
    BY <2>1 DEF StartTool, Now
  <2>2. CASE HandlerReturns(t) \/ ToolBackoff(t)
    BY <2>2 DEF HandlerReturns, ToolBackoff, ChainInv, StepInv, Active
  <2>3. QED
    BY <2>1, <2>2
<1>3. InChain /\ Now = Current.tools /\ ~Outside /\ at \in 1 .. Len(chain)
  BY <1>1, <1>2 DEF Now, InChain, Outside
<1>4. UNCHANGED <<chain, at, run, result, lastResult>>
  BY DEF StartTool, HandlerReturns, ToolBackoff
<1>5. call \in [Tools -> Calls]
  BY <1>1 DEF ChainTypeOK
<1>6. /\ call' \in [Tools -> Calls] /\ call'[t].at # "off"
      /\ \A u \in Tools \ {t} : call'[u] = call[u]
  <2>1. CASE StartTool(t)
    BY <1>5, <2>1 DEF StartTool, Calls
  <2>2. CASE HandlerReturns(t)
    BY <1>5, <2>2 DEF HandlerReturns, Becomes, Calls
  <2>3. CASE ToolBackoff(t)
    BY <1>5, <2>3 DEF ToolBackoff, Becomes, Calls
  <2>4. QED
    BY <2>1, <2>2, <2>3
<1>7. ChainTypeOK'
  BY <1>1, <1>4, <1>6 DEF ChainTypeOK
<1>8. Now' = Now /\ Called' = Called \cup {t} /\ Active' \subseteq Active \cup {t}
  <2>1. Now' = Now
    BY <1>4 DEF Now, InChain, Current
  <2>2. Called' = Called \cup {t} /\ Active' \subseteq Active \cup {t}
    BY <1>6 DEF Called, Active
  <2>3. QED
    BY <2>1, <2>2
<1>9. StepInv'
  <2>1. \A u \in Called' : \E i \in 1 .. Len(chain) : i <= at /\ u \in chain[i].tools
    BY <1>2, <1>3, <1>8 DEF ChainInv, StepInv, Current
  <2>2. QED
    BY <1>2, <1>4, <1>8, <2>1 DEF ChainInv, StepInv
<1>10. RecordInv' /\ ResultIsWhole'
  BY <1>2, <1>3, <1>4, <1>8 DEF ChainInv, RecordInv, ResultIsWhole, Outside
<1>11. QED
  BY <1>7, <1>9, <1>10 DEF ChainInv

LEMMA OthersMove ==
  ASSUME ChainInv, UNCHANGED <<chain, at, run, call, result, lastResult, outcome>>
  PROVE  ChainInv'
<1>1. Now' = Now /\ Called' = Called /\ Active' = Active
  BY DEF Now, Called, Active, InChain, Current
<1>2. QED
  BY <1>1 DEF ChainInv, ChainTypeOK, StepInv, RecordInv, ResultIsWhole, Outside

LEMMA ChainStepInv == ChainInv /\ [ChainNext]_chainVars => ChainInv'
<1> SUFFICES ASSUME ChainInv, [ChainNext]_chainVars PROVE ChainInv'
  OBVIOUS
<1>1. CASE ChainStep
  BY <1>1, ExecuteChain, TimedOutChain, SkipChain, ParallelChain, CompletedChain,
     ToolMoves, FailedChain, CompletedStep DEF ChainStep
<1>2. CASE \/ \E c \in Tools \cup {"chain"} : Expire(c)
           \/ \E t \in Tools : Unregister(t) \/ Register(t)
           \/ UNCHANGED chainVars
  BY <1>2, OthersMove DEF Expire, Unregister, Register, chainVars
<1>3. QED
  BY <1>1, <1>2 DEF ChainNext

(* For every chain of plain, conditional and parallel steps, whatever tools *)
(* fail, time out, are repeated or unregistered while it runs: what Execute *)
(* returns accounts for every step and every tool that was called.          *)
THEOREM ResultsCorrect == ChainSpec => []ResultIsWhole
<1>1. ChainInv => ResultIsWhole
  BY DEF ChainInv
<1>2. QED
  BY <1>1, ChainInitInv, ChainStepInv, PTL DEF ChainSpec
-----------------------------------------------------------------------------
(* The self-healing agent.  Nobody counts the attempts by the type of their *)
(* error; but until a type is learned, those who have tried a strategy on   *)
(* it are still learning, and afterwards nobody begins to try any more.     *)
Nil         == "nil"
Places      == {"idle", "executing", "failed", "trying", "learning", "waiting",
                "recovered", "lost"}
HealRecords == [at : Places, attempt : Nat, err : ErrorTypes \cup {Nil}, used : {"none", "retry"}]
Switches    == [EnableLearning : BOOLEAN, AutoRecover : BOOLEAN]
Tallies     == [calls : Nat, met : Nat, said : Nat]
Patterns    == [strategy : {"retry"}, confidence : Nat]
Entries     == [err : ErrorTypes \cup {Nil}, recovered : BOOLEAN, attempts : Nat]

HealTypeOK ==
  /\ learning \in Switches
  /\ Len(strategies) \in Nat \ {0} /\ DOMAIN strategies = 1 .. Len(strategies)
  /\ strategies[1] = "retry"
  /\ DOMAIN learned \subseteq ErrorTypes
  /\ \A e \in DOMAIN learned : learned[e] \in Patterns
  /\ DOMAIN stats \subseteq {"retry"}
  /\ \A s \in DOMAIN stats : stats[s].TotalAttempts \in Nat
  /\ errors \in Seq(Entries)
  /\ writer \in Healers \cup {"none"}
  /\ wrapped = [Intact EXCEPT !.conversation = counts.said]
  /\ healer \in [Healers -> HealRecords]
  /\ crashed \in BOOLEAN
  /\ counts \in Tallies

(* An attempt that has failed has an error, and so have the ones after it. *)
ErrInv ==
  \A h \in Healers :
    /\ healer[h].at = "idle" => healer[h].err = Nil
    /\ healer[h].at = "executing" => (healer[h].attempt = 0 <=> healer[h].err = Nil)
    /\ healer[h].at \notin {"idle", "executing"} => healer[h].err # Nil
    /\ healer[h].at = "learning" => learning.EnableLearning /\ healer[h].used = "retry"

WriterInv == writer # "none" => healer[writer].at = "learning"

With(places, e) == {h \in Healers : healer[h].at \in places /\ healer[h].err = e}
Trying(e)   == With({"trying"}, e)
Learning(e) == With({"learning"}, e)
Both(e)     == With({"trying", "learning"}, e)

(* How many attempts with an error of this type there can have been. *)
Tried(e) == IF e \in DOMAIN learned THEN Cardinality(Healers) - Cardinality(Trying(e))
                                    ELSE Cardinality(Learning(e))

BlindInv ==
  learning.EnableLearning =>
    /\ \A s \in DOMAIN stats :
         stats[s].TotalAttempts <= Tried("*fmt.wrapError") + Tried("*errors.errorString")
    /\ \A e \in DOMAIN learned :
         learned[e].confidence + Cardinality(Both(e)) < 5 + Cardinality(Healers)

Open == {h \in Healers : healer[h].err # Nil}
HistoryInv ==
  Len(errors) = IF counts.met - Cardinality(Open) > HistorySize THEN HistorySize
                ELSE counts.met - Cardinality(Open)

HealInv == HealTypeOK /\ ErrInv /\ WriterInv /\ AloneNeverCrashes /\ BlindInv /\ HistoryInv

(* What a step does to the calls of Process: those of the others it leaves. *)
LEMMA OthersHeal ==
  ASSUME healer \in [Healers -> HealRecords], NEW h \in Healers, Process(h) \/ HealerStep(h)
  PROVE  \A g \in Healers \ {h} : healer'[g] = healer[g]
  BY DEF Process, HealerStep, ExecuteSucceeds, ExecuteFails, UseLearned, NothingLearned,
     ReadWhileWritten, TryStrategies, TryThese, LearnBegins, LearnEnds, Sleep, RecordRecovery, Moves

(* The first strategy, which is never the application's, always recovers. *)
LEMMA FirstStrategy ==
  ASSUME HealTypeOK, NEW h \in Healers, TryStrategies(h)
  PROVE  /\ stats' = Tally({}, "retry")
         /\ wrapped' = wrapped
         /\ healer' = [healer EXCEPT ![h].used = "retry",
                                     ![h].at = IF learning.EnableLearning
                                               THEN "learning" ELSE "waiting"]
<1>1. PICK failing \in SUBSET Custom, n \in DOMAIN strategies :
        /\ strategies[n] \notin failing
        /\ \A i \in 1 .. n - 1 : strategies[i] \in failing
        /\ stats' = Tally({strategies[i] : i \in 1 .. n - 1}, strategies[n])
        /\ wrapped' = Effect(strategies[n])
        /\ healer' = [healer EXCEPT ![h].used = strategies[n],
                                    ![h].at = IF learning.EnableLearning
                                              THEN "learning" ELSE "waiting"]
  BY Zenon DEF TryStrategies, TryThese
<1>2. n = 1
  BY <1>1, SHAssumption DEF HealTypeOK
<1>3. strategies[n] = "retry" /\ {strategies[i] : i \in 1 .. n - 1} = {}
  BY <1>2 DEF HealTypeOK
<1>4. Effect("retry") = wrapped
  BY DEF Effect
<1>5. QED
  BY <1>1, <1>3, <1>4, Zenon

(* Where the step of h takes it. *)
LEMMA StepsOf ==
  ASSUME HealTypeOK, ErrInv, WriterInv, NEW h \in Healers, Process(h) \/ HealerStep(h)
  PROVE  /\ healer' \in [Healers -> HealRecords]
         /\ healer'[h].err = healer[h].err \/ healer'[h].at = "idle"
              \/ healer[h].at \in {"idle", "executing"}
         /\ UNCHANGED learning
<1> USE DEF HealTypeOK, Healing
<1>1. healer[h] \in HealRecords
  OBVIOUS
<1>2. CASE Process(h)
  <2>1. [Idle EXCEPT !.at = "executing"] \in HealRecords
    BY DEF Idle, HealRecords, Places, Nil
  <2>2. QED
    BY <1>2, <2>1 DEF Process
<1>3. Idle \in HealRecords /\ Idle.at = "idle"
  BY DEF Idle, HealRecords, Places, Nil
<1>4. CASE ExecuteSucceeds(h)
  <2>1. CASE healer' = [healer EXCEPT ![h].at = "recovered"]
    BY <1>1, <1>4, <2>1 DEF ExecuteSucceeds, HealRecords, Places
  <2>2. CASE healer' = [healer EXCEPT ![h] = Idle]
    BY <1>3, <1>4, <2>2 DEF ExecuteSucceeds
  <2>3. QED
    BY <1>4, <2>1, <2>2 DEF ExecuteSucceeds, Moves
<1>5. ASSUME NEW e \in ErrorTypes, NEW n \in {0, 1}, ExecuteFails(h, e, n) PROVE
        healer' \in [Healers -> HealRecords] /\ UNCHANGED learning /\ healer[h].at = "executing"
  <2>1. PICK p \in Places : healer' = [healer EXCEPT ![h].err = e, ![h].at = p]
    BY <1>5 DEF ExecuteFails, Places
  <2>2. healer'[h] \in HealRecords
    BY <1>1, <2>1 DEF HealRecords
  <2>3. QED
    BY <1>5, <2>1, <2>2 DEF ExecuteFails
<1>6. CASE UseLearned(h)
  BY <1>1, <1>6 DEF UseLearned, Moves, HealRecords, Places
<1>7. CASE NothingLearned(h)
  BY <1>1, <1>7 DEF NothingLearned, Moves, HealRecords, Places
<1>8. CASE ReadWhileWritten(h)
  BY <1>8 DEF ReadWhileWritten
<1>9. CASE LearnBegins(h)
  BY <1>9 DEF LearnBegins
<1>10. CASE LearnEnds(h)
  BY <1>1, <1>10 DEF LearnEnds, Moves, HealRecords, Places
<1>11. CASE Sleep(h)
  BY <1>1, <1>11 DEF Sleep, HealRecords, Places
<1>12. CASE RecordRecovery(h)
  BY <1>3, <1>12 DEF RecordRecovery
<1>13. CASE TryStrategies(h)
  <2>1. PICK p \in Places : healer' = [healer EXCEPT ![h].used = "retry", ![h].at = p]
    BY <1>13, FirstStrategy DEF Places
  <2>2. QED
    BY <1>1, <1>13, <2>1 DEF TryStrategies, TryThese, HealRecords
<1>14. QED
  BY <1>2, <1>4, <1>5, <1>6, <1>7, <1>8, <1>9, <1>10, <1>11, <1>12, <1>13 DEF HealerStep

LEMMA Recounts ==
  ASSUME HealTypeOK
  PROVE  /\ DOMAIN Tally({}, "retry") \subseteq {"retry"}
         /\ \A s \in DOMAIN Tally({}, "retry") : Tally({}, "retry")[s].TotalAttempts \in Nat
         /\ \A s \in DOMAIN Tally({}, "retry") :
              Tally({}, "retry")[s].TotalAttempts = 1
                \/ (/\ s \in DOMAIN stats
                     /\ Tally({}, "retry")[s].TotalAttempts = stats[s].TotalAttempts + 1)
<1> DEFINE T == Tally({}, "retry")
<1>1. /\ DOMAIN T = DOMAIN stats \cup {"retry"}
      /\ T["retry"].TotalAttempts =
           (IF "retry" \in DOMAIN stats THEN stats["retry"].TotalAttempts ELSE 0) + 1
  BY DEF Tally
<1> HIDE DEF T
<1>2. \A s \in DOMAIN T : s = "retry"
  BY <1>1 DEF HealTypeOK
<1>3. CASE "retry" \in DOMAIN stats
  BY <1>1, <1>2, <1>3 DEF HealTypeOK, T
<1>4. CASE "retry" \notin DOMAIN stats
  BY <1>1, <1>2, <1>4 DEF HealTypeOK, T
<1>5. QED
  BY <1>3, <1>4

(* What recordRecovery keeps. *)
LEMMA Trims ==
  ASSUME NEW s \in Seq(Entries), NEW e \in Entries
  PROVE  /\ Newest(Append(s, e)) \in Seq(Entries)
         /\ Len(Newest(Append(s, e))) = IF Len(s) + 1 > HistorySize THEN HistorySize ELSE Len(s) + 1
<1>1. PICK t : t = Append(s, e)
  OBVIOUS
<1>2. t \in Seq(Entries) /\ Len(t) = Len(s) + 1 /\ HistorySize \in Nat \ {0}
  BY <1>1, SHAssumption
<1>3. CASE Len(t) > HistorySize
  <2>1. Newest(t) = SubSeq(t, Len(t) - HistorySize + 1, Len(t))
    BY <1>3 DEF Newest
  <2>2. Newest(t) \in Seq(Entries) /\ Len(Newest(t)) = HistorySize
    BY <1>2, <1>3, <2>1
  <2>3. QED
    BY <1>1, <1>2, <1>3, <2>2
<1>4. CASE ~(Len(t) > HistorySize)
  BY <1>1, <1>2, <1>4 DEF Newest
<1>5. QED
  BY <1>3, <1>4

LEMMA RecordsEntry ==
  ASSUME NEW h \in Healers, healer[h] \in HealRecords, RecordRecovery(h)
  PROVE  \E e \in Entries : errors' = Newest(Append(errors, e))
<1>1. PICK a \in Nat : a = IF healer[h].at = "lost" THEN MaxRetries + 1 ELSE healer[h].attempt
  BY SHAssumption DEF HealRecords
<1>2. PICK b \in BOOLEAN : b = ~(healer[h].at = "lost")
  BY Zenon
<1>3. PICK e : e = [err |-> healer[h].err, recovered |-> b, attempts |-> a]
  OBVIOUS
<1>4. e \in Entries
  BY <1>3 DEF Entries, HealRecords
<1>5. errors' = Newest(Append(errors, e))
  BY <1>1, <1>2, <1>3, Zenon DEF RecordRecovery
<1>6. QED
  BY <1>4, <1>5

LEMMA HealTypes ==
  ASSUME HealTypeOK, ErrInv, WriterInv, NEW h \in Healers, Process(h) \/ HealerStep(h)
  PROVE  HealTypeOK'
<1> USE DEF HealTypeOK
<1>0. healer' \in [Healers -> HealRecords] /\ learning' \in Switches
  BY StepsOf
<1>1. healer[h] \in HealRecords
  OBVIOUS
<1>2. CASE Process(h)
  <2>1. counts' \in Tallies /\ counts'.said = counts.said
    BY <1>2 DEF Process, Tallies
  <2>2. QED
    BY <1>0, <1>2, <2>1 DEF Process
<1>3. CASE ExecuteSucceeds(h)
  <2>1. counts' \in Tallies /\ counts'.said = counts.said + 2
    BY <1>3 DEF ExecuteSucceeds, Tallies
  <2>2. wrapped' = [Intact EXCEPT !.conversation = counts'.said]
    BY <1>3, <2>1 DEF ExecuteSucceeds, Says, Intact
  <2>3. QED
    BY <1>0, <1>3, <2>1, <2>2 DEF ExecuteSucceeds
<1>4. ASSUME NEW e \in ErrorTypes, NEW n \in {0, 1}, ExecuteFails(h, e, n) PROVE HealTypeOK'
  <2>1. counts' \in Tallies /\ counts'.said = counts.said + n
    <3>1. PICK m \in Nat : m = IF healer[h].attempt = 0 THEN counts.met + 1 ELSE counts.met
      BY DEF Tallies
    <3>2. counts' = [counts EXCEPT !.met = m, !.said = @ + n]
      BY <1>4, <3>1, Zenon DEF ExecuteFails
    <3>3. PICK k \in Nat : k = counts.said + n
      BY DEF Tallies
    <3>4. counts' = [calls |-> counts.calls, met |-> m, said |-> k]
      BY <3>2, <3>3 DEF Tallies
    <3>5. counts.calls \in Nat
      BY DEF Tallies
    <3>6. QED
      BY <3>3, <3>4, <3>5 DEF Tallies
  <2>2. wrapped' = [Intact EXCEPT !.conversation = counts'.said]
    BY <1>4, <2>1 DEF ExecuteFails, Says, Intact
  <2>3. QED
    BY <1>0, <1>4, <2>1, <2>2 DEF ExecuteFails
<1>5. CASE UseLearned(h)
  <2>1. wrapped' = wrapped
    BY <1>1, <1>5 DEF UseLearned, Effect, Patterns
  <2>2. QED
    BY <1>0, <1>5, <2>1 DEF UseLearned
<1>6. CASE NothingLearned(h) \/ ReadWhileWritten(h)
  BY <1>0, <1>6 DEF NothingLearned, ReadWhileWritten
<1>7. CASE LearnBegins(h)
  BY <1>0, <1>7 DEF LearnBegins
<1>8. CASE LearnEnds(h)
  <2>1. healer[h].err \in ErrorTypes /\ healer[h].used = "retry" /\ "none" # h
    BY <1>1, <1>8, SHAssumption DEF LearnEnds, ErrInv, WriterInv, HealRecords
  <2>2. \A p \in Patterns : Learned(p, "retry") \in Patterns
    BY DEF Learned, Patterns
  <2>3. [strategy |-> "retry", confidence |-> 5] \in Patterns
    BY DEF Patterns
  <2>4. PICK new \in Patterns :
          learned' = [t \in DOMAIN learned \cup {healer[h].err} |->
                       IF t = healer[h].err THEN new ELSE learned[t]]
    BY <1>8, <2>1, <2>2, <2>3 DEF LearnEnds
  <2>5. DOMAIN learned' \subseteq ErrorTypes /\ \A e \in DOMAIN learned' : learned'[e] \in Patterns
    BY <2>1, <2>4
  <2>6. QED
    BY <1>0, <1>8, <2>5 DEF LearnEnds
<1>9. CASE Sleep(h)
  BY <1>0, <1>9 DEF Sleep
<1>10. CASE RecordRecovery(h)
  <2>1. PICK e \in Entries : errors' = Newest(Append(errors, e))
    BY <1>1, <1>10, RecordsEntry
  <2>2. errors' \in Seq(Entries)
    BY <2>1, Trims
  <2>3. QED
    BY <1>0, <1>10, <2>2 DEF RecordRecovery
<1>11. CASE TryStrategies(h)
  BY <1>0, <1>11, FirstStrategy, Recounts DEF TryStrategies, TryThese
<1>12. QED
  BY <1>2, <1>3, <1>4, <1>5, <1>6, <1>7, <1>8, <1>9, <1>10, <1>11 DEF HealerStep

LEMMA ErrsAndWriter ==
  ASSUME HealTypeOK, ErrInv, WriterInv, NEW h \in Healers, Process(h) \/ HealerStep(h)
  PROVE  ErrInv' /\ WriterInv'
<1> USE DEF Healing
<1>1. healer[h] \in HealRecords /\ healer \in [Healers -> HealRecords]
  BY DEF HealTypeOK
<1>2. \A g \in Healers \ {h} : healer'[g] = healer[g]
  BY <1>1, OthersHeal
<1>3. ASSUME /\ healer'[h].at = "idle" => healer'[h].err = Nil
             /\ healer'[h].at = "executing" => (healer'[h].attempt = 0 <=> healer'[h].err = Nil)
             /\ healer'[h].at \notin {"idle", "executing"} => healer'[h].err # Nil
             /\ healer'[h].at = "learning" => learning'.EnableLearning /\ healer'[h].used = "retry"
             /\ \/ writer' = writer /\ healer[h].at # "learning"
                \/ writer' = "none"
                \/ writer' = h /\ healer'[h].at = "learning"
      PROVE  ErrInv' /\ WriterInv'
  <2>1. ErrInv'
    BY <1>2, <1>3, StepsOf DEF ErrInv
  <2>2. WriterInv'
    <3>1. CASE writer' = writer /\ healer[h].at # "learning"
      BY <1>2, <3>1 DEF WriterInv, HealTypeOK
    <3>2. CASE writer' = "none" \/ (writer' = h /\ healer'[h].at = "learning")
      BY <3>2 DEF WriterInv
    <3>3. QED
      BY <1>3, <3>1, <3>2
  <2>3. QED
    BY <2>1, <2>2
<1>4. CASE Process(h)
  <2>1. healer'[h].at = "executing" /\ healer'[h].attempt = 0 /\ healer'[h].err = Nil
    BY <1>1, <1>4 DEF Process, Idle, Nil
  <2>2. QED
    BY <1>3, <1>4, <2>1 DEF Process
<1>5. CASE ExecuteSucceeds(h)
  <2>1. CASE healer[h].attempt > 0
    <3>1. healer'[h].at = "recovered" /\ healer'[h].err = healer[h].err
      BY <1>1, <1>5, <2>1 DEF ExecuteSucceeds, Moves, HealRecords
    <3>2. healer[h].err # Nil
      BY <1>5, <2>1 DEF ExecuteSucceeds, ErrInv
    <3>3. QED
      BY <1>3, <1>5, <3>1, <3>2 DEF ExecuteSucceeds
  <2>2. CASE ~(healer[h].attempt > 0)
    <3>1. healer'[h].at = "idle" /\ healer'[h].err = Nil
      BY <1>1, <1>5, <2>2 DEF ExecuteSucceeds, Idle, Nil
    <3>2. QED
      BY <1>3, <1>5, <3>1 DEF ExecuteSucceeds
  <2>3. QED
    BY <2>1, <2>2
<1>6. ASSUME NEW e \in ErrorTypes, NEW n \in {0, 1}, ExecuteFails(h, e, n)
      PROVE  ErrInv' /\ WriterInv'
  <2>1. healer'[h].at \in {"lost", "failed", "waiting"} /\ healer'[h].err = e /\ e # Nil
    BY <1>1, <1>6 DEF ExecuteFails, HealRecords, ErrorTypes, Nil
  <2>2. QED
    BY <1>3, <1>6, <2>1 DEF ExecuteFails
<1>7. CASE UseLearned(h) \/ NothingLearned(h) \/ ReadWhileWritten(h)
  <2>1. /\ healer'[h].at \in {"waiting", "trying", "failed"} /\ healer[h].at = "failed"
        /\ healer'[h].err = healer[h].err /\ writer' = writer
    BY <1>1, <1>7 DEF UseLearned, NothingLearned, ReadWhileWritten, Moves, HealRecords
  <2>2. QED
    BY <1>3, <2>1 DEF ErrInv
<1>8. CASE TryStrategies(h)
  <2>1. PICK p : /\ p = IF learning.EnableLearning THEN "learning" ELSE "waiting"
                 /\ healer' = [healer EXCEPT ![h].used = "retry", ![h].at = p]
    BY <1>8, FirstStrategy
  <2>2. healer'[h].at = p
    BY <1>1, <2>1 DEF HealRecords
  <2>3. healer'[h].err = healer[h].err /\ healer'[h].used = "retry"
    BY <1>1, <2>1 DEF HealRecords
  <2>4. writer' = writer /\ healer[h].at = "trying" /\ learning' = learning
    BY <1>8 DEF TryStrategies, TryThese
  <2>5. QED
    <3>1. p \in {"learning", "waiting"} /\ (p = "learning" => learning.EnableLearning)
      BY <2>1
    <3>2. healer[h].err # Nil
      BY <2>4 DEF ErrInv
    <3>3. QED
      BY <1>3, <2>2, <2>3, <2>4, <3>1, <3>2
<1>9. CASE LearnBegins(h)
  <2>1. healer'[h] = healer[h] /\ writer' = h /\ healer[h].at = "learning" /\ learning' = learning
    BY <1>9 DEF LearnBegins
  <2>2. QED
    BY <1>3, <2>1 DEF ErrInv
<1>10. CASE LearnEnds(h)
  <2>1. /\ healer'[h].at = "waiting" /\ healer'[h].err = healer[h].err /\ writer' = "none"
        /\ writer = h
    BY <1>1, <1>10 DEF LearnEnds, Moves, HealRecords
  <2>2. healer[h].at = "learning"
    BY <2>1, SHAssumption DEF WriterInv
  <2>3. QED
    BY <1>3, <2>1, <2>2 DEF ErrInv
<1>11. CASE Sleep(h)
  <2>1. /\ healer'[h].at = "executing" /\ healer'[h].err = healer[h].err /\ writer' = writer
        /\ healer[h].at = "waiting" /\ healer'[h].attempt = healer[h].attempt + 1
        /\ healer[h].attempt \in Nat
    BY <1>1, <1>11 DEF Sleep, HealRecords
  <2>2. QED
    BY <1>3, <2>1 DEF ErrInv
<1>12. CASE RecordRecovery(h)
  <2>1. healer'[h].at = "idle" /\ healer'[h].err = Nil
    BY <1>1, <1>12 DEF RecordRecovery, Idle, Nil
  <2>2. QED
    BY <1>3, <1>12, <2>1 DEF RecordRecovery
<1>13. QED
  BY <1>4, <1>5, <1>6, <1>7, <1>8, <1>9, <1>10, <1>11, <1>12 DEF HealerStep

(* The calls that are somewhere with an error of one type. *)
LEMMA Gathered ==
  ASSUME NEW places, NEW e
  PROVE  IsFiniteSet(With(places, e)) /\ Cardinality(With(places, e)) \in Nat
         /\ Cardinality(With(places, e)) <= Cardinality(Healers) /\ Cardinality(Healers) \in Nat
<1>1. With(places, e) \subseteq Healers
  BY DEF With
<1>2. QED
  BY <1>1, SHAssumption, FS_Subset, FS_CardinalityType

LEMMA OneMore ==
  ASSUME NEW S, NEW T, IsFiniteSet(S), NEW h, h \notin S, T = S \cup {h}
  PROVE  Cardinality(T) = Cardinality(S) + 1 /\ Cardinality(S) \in Nat
  BY FS_AddElement, FS_CardinalityType

LEMMA OneLess ==
  ASSUME NEW S, NEW T, IsFiniteSet(S), NEW h \in S, T = S \ {h}
  PROVE  Cardinality(T) = Cardinality(S) - 1 /\ Cardinality(S) \in Nat
  BY FS_RemoveElement, FS_CardinalityType

LEMMA Apart ==
  ASSUME NEW S, NEW T, NEW U, IsFiniteSet(U), S \subseteq U, T \subseteq U, S \cap T = {}
  PROVE  Cardinality(S) + Cardinality(T) <= Cardinality(U)
<1>1. IsFiniteSet(S) /\ IsFiniteSet(T) /\ S \cup T \subseteq U
  BY FS_Subset
<1>2. Cardinality(S \cup T) = Cardinality(S) + Cardinality(T)
  <2>1. Cardinality(S \cup T) = Cardinality(S) + Cardinality(T) - Cardinality(S \cap T)
    BY <1>1, FS_Union
  <2>2. Cardinality(S \cap T) = 0
    BY FS_EmptySet
  <2>3. QED
    BY <1>1, <2>1, <2>2, FS_CardinalityType
<1>3. QED
  BY <1>1, <1>2, FS_Subset, FS_CardinalityType

LEMMA CrashStep ==
  ASSUME HealTypeOK, ErrInv, WriterInv, AloneNeverCrashes, NEW h \in Healers,
         Process(h) \/ HealerStep(h)
  PROVE  AloneNeverCrashes'
<1>1. ~crashed
  BY DEF Process, HealerStep, ExecuteSucceeds, ExecuteFails, UseLearned, NothingLearned, Healing,
     ReadWhileWritten, TryStrategies, TryThese, LearnBegins, LearnEnds, Sleep, RecordRecovery
<1>2. ~ReadWhileWritten(h) => crashed' = crashed
  BY DEF Process, HealerStep, ExecuteSucceeds, ExecuteFails, UseLearned, NothingLearned,
     TryStrategies, TryThese, LearnBegins, LearnEnds, Sleep, RecordRecovery
<1>3. CASE ReadWhileWritten(h)
  <2>1. /\ healer' = healer /\ learning' = learning /\ learning.EnableLearning
        /\ healer[h].at = "failed" /\ writer # "none"
    BY <1>3 DEF ReadWhileWritten, Healing, Unlocked
  <2>2. writer \in Healers /\ healer[writer].at = "learning"
    BY <2>1 DEF WriterInv, HealTypeOK
  <2>3. {h, writer} \subseteq Busy /\ h # writer /\ IsFiniteSet(Busy) /\ Busy' = Busy
    <3>1. Busy \subseteq Healers
      BY DEF Busy
    <3>2. QED
      BY <2>1, <2>2, <3>1, SHAssumption, FS_Subset DEF Busy
  <2>4. Cardinality({h, writer}) = 2
    <3>1. IsFiniteSet({h}) /\ Cardinality({h}) = 1 /\ {h, writer} = {h} \cup {writer}
      BY FS_Singleton
    <3>2. QED
      BY <2>3, <3>1, OneMore
  <2>5. Cardinality(Busy) > 1
    BY <2>3, <2>4, FS_Subset, FS_CardinalityType
  <2>6. QED
    BY <2>1, <2>3, <2>5 DEF AloneNeverCrashes
<1>4. QED
  BY <1>1, <1>2, <1>3 DEF AloneNeverCrashes

(* The history: a call is open from its first error until it returns. *)
LEMMA HistoryStep ==
  ASSUME HealTypeOK, ErrInv, WriterInv, HistoryInv, NEW h \in Healers,
         Process(h) \/ HealerStep(h)
  PROVE  HistoryInv'
<1> USE DEF Healing
<1>1. healer[h] \in HealRecords /\ healer \in [Healers -> HealRecords]
  BY DEF HealTypeOK
<1>2. \A g \in Healers \ {h} : healer'[g] = healer[g]
  BY <1>1, OthersHeal
<1>3. IsFiniteSet(Open) /\ Cardinality(Open) \in Nat
  <2>1. Open \subseteq Healers
    BY DEF Open
  <2>2. QED
    BY <2>1, SHAssumption, FS_Subset, FS_CardinalityType
<1>4. ASSUME healer'[h].err # Nil <=> healer[h].err # Nil, UNCHANGED errors, counts'.met = counts.met
      PROVE  HistoryInv'
  <2>1. Open' = Open
    BY <1>2, <1>4 DEF Open
  <2>2. QED
    BY <1>4, <2>1 DEF HistoryInv
<1>5. CASE Process(h)
  <2>1. healer'[h].err = Nil /\ healer[h].err = Nil
    BY <1>1, <1>5 DEF Process, Idle, ErrInv, Nil
  <2>2. counts'.met = counts.met
    BY <1>5 DEF Process, HealTypeOK, Tallies
  <2>3. QED
    BY <1>4, <1>5, <2>1, <2>2 DEF Process
<1>6. CASE ExecuteSucceeds(h)
  <2>1. counts'.met = counts.met /\ UNCHANGED errors
    BY <1>6 DEF ExecuteSucceeds, HealTypeOK, Tallies
  <2>2. CASE healer[h].attempt > 0
    BY <1>1, <1>4, <1>6, <2>1, <2>2 DEF ExecuteSucceeds, Moves, HealRecords
  <2>3. CASE ~(healer[h].attempt > 0)
    <3>1. healer'[h].err = Nil
      BY <1>1, <1>6, <2>3 DEF ExecuteSucceeds, Idle, Nil
    <3>2. healer[h].attempt = 0 /\ healer[h].err = Nil
      BY <1>1, <1>6, <2>3 DEF ExecuteSucceeds, ErrInv, HealRecords
    <3>3. QED
      BY <1>4, <2>1, <3>1, <3>2
  <2>4. QED
    BY <2>2, <2>3
<1>7. ASSUME NEW e \in ErrorTypes, NEW n \in {0, 1}, ExecuteFails(h, e, n)
      PROVE  HistoryInv'
  <2>1. healer'[h].err # Nil /\ UNCHANGED errors
    BY <1>1, <1>7 DEF ExecuteFails, HealRecords, ErrorTypes, Nil
  <2>2. CASE healer[h].attempt = 0
    <3>1. counts'.met = counts.met + 1
      BY <1>7, <2>2 DEF ExecuteFails, HealTypeOK, Tallies
    <3>2. healer[h].err = Nil
      BY <1>7, <2>2 DEF ExecuteFails, ErrInv
    <3>3. h \notin Open /\ Open' = Open \cup {h}
      BY <1>2, <2>1, <3>2 DEF Open
    <3>4. Cardinality(Open') = Cardinality(Open) + 1
      BY <1>3, <3>3, OneMore
    <3>5. counts.met \in Nat
      BY DEF HealTypeOK, Tallies
    <3>6. QED
      BY <1>3, <2>1, <3>1, <3>4, <3>5 DEF HistoryInv
  <2>3. CASE healer[h].attempt # 0
    <3>1. counts'.met = counts.met
      BY <1>7, <2>3 DEF ExecuteFails, HealTypeOK, Tallies
    <3>2. healer[h].err # Nil
      BY <1>7, <2>3 DEF ExecuteFails, ErrInv
    <3>3. QED
      BY <1>4, <2>1, <3>1, <3>2
  <2>4. QED
    BY <2>2, <2>3
<1>8. CASE UseLearned(h) \/ NothingLearned(h) \/ ReadWhileWritten(h) \/ LearnBegins(h)
            \/ LearnEnds(h) \/ Sleep(h)
  <2>1. healer'[h].err = healer[h].err
    BY <1>1, <1>8 DEF UseLearned, NothingLearned, ReadWhileWritten, LearnBegins, LearnEnds, Sleep,
       Moves, HealRecords
  <2>2. UNCHANGED <<errors, counts>>
    BY <1>8 DEF UseLearned, NothingLearned, ReadWhileWritten, LearnBegins, LearnEnds, Sleep
  <2>3. QED
    BY <1>4, <2>1, <2>2
<1>9. CASE TryStrategies(h)
  <2>1. PICK p : healer' = [healer EXCEPT ![h].used = "retry", ![h].at = p]
    BY <1>9, FirstStrategy
  <2>2. healer'[h].err = healer[h].err
    BY <1>1, <2>1 DEF HealRecords
  <2>3. UNCHANGED <<errors, counts>>
    BY <1>9 DEF TryStrategies, TryThese
  <2>4. QED
    BY <1>4, <2>2, <2>3
<1>10. CASE RecordRecovery(h)
  <2>1. healer'[h].err = Nil /\ healer[h].err # Nil /\ counts' = counts
    BY <1>1, <1>10 DEF RecordRecovery, Idle, Nil, ErrInv
  <2>2. h \in Open /\ Open' = Open \ {h}
    BY <1>2, <2>1 DEF Open
  <2>3. Cardinality(Open') = Cardinality(Open) - 1
    BY <1>3, <2>2, OneLess
  <2>4. Len(errors') = IF Len(errors) + 1 > HistorySize THEN HistorySize ELSE Len(errors) + 1
    <3>1. PICK e \in Entries : errors' = Newest(Append(errors, e))
      BY <1>1, <1>10, RecordsEntry
    <3>2. QED
      BY <3>1, Trims DEF HealTypeOK
  <2>5. counts.met \in Nat /\ errors \in Seq(Entries) /\ HistorySize \in Nat \ {0}
    BY SHAssumption DEF HealTypeOK, Tallies
  <2>6. QED
    BY <1>3, <2>1, <2>3, <2>4, <2>5 DEF HistoryInv
<1>11. QED
  BY <1>5, <1>6, <1>7, <1>8, <1>9, <1>10 DEF HealerStep

(* A step leaves the counts of a type of error alone, unless somebody with  *)
(* that error begins to try or to learn, or ceases to, or it is learned.    *)
LEMMA BlindOthers ==
  ASSUME HealTypeOK, NEW h \in Healers, Process(h) \/ HealerStep(h), NEW e,
         healer[h].err # e \/ healer[h].at \notin {"trying", "learning"},
         healer'[h].err # e \/ healer'[h].at \notin {"trying", "learning"},
         e \in DOMAIN learned' <=> e \in DOMAIN learned
  PROVE  /\ Trying(e)' = Trying(e) /\ Learning(e)' = Learning(e) /\ Both(e)' = Both(e)
         /\ Tried(e)' = Tried(e)
<1>1. \A g \in Healers \ {h} : healer'[g] = healer[g]
  BY OthersHeal DEF HealTypeOK
<1>2. Trying(e)' = Trying(e) /\ Learning(e)' = Learning(e) /\ Both(e)' = Both(e)
  BY <1>1 DEF Trying, Learning, Both, With
<1>3. QED
  BY <1>2 DEF Tried

LEMMA BlindQuiet ==
  ASSUME HealTypeOK, BlindInv, NEW h \in Healers, Process(h) \/ HealerStep(h),
         UNCHANGED <<learning, stats, learned>>,
         healer[h].at \notin {"trying", "learning"}, healer'[h].at \notin {"trying", "learning"}
  PROVE  BlindInv'
<1>1. \A e : Both(e)' = Both(e) /\ Tried(e)' = Tried(e)
  BY BlindOthers
<1>2. \A e : Cardinality(Both(e))' = Cardinality(Both(e))
  BY <1>1
<1>3. QED
  BY <1>1, <1>2 DEF BlindInv

(* The one who steps tried, and has its own type of error. *)
LEMMA TriedType ==
  ASSUME NEW e
  PROVE  Tried(e) \in Nat /\ Tried(e) <= Cardinality(Healers)
         /\ Cardinality(Learning(e)) <= Cardinality(Healers) - Cardinality(Trying(e))
<1>1. Learning(e) \subseteq Healers /\ Trying(e) \subseteq Healers /\ Learning(e) \cap Trying(e) = {}
  BY DEF Learning, Trying, With
<1>2. Cardinality(Learning(e)) + Cardinality(Trying(e)) <= Cardinality(Healers)
  BY <1>1, SHAssumption, Apart
<1>3. /\ Cardinality(Learning(e)) \in Nat /\ Cardinality(Trying(e)) \in Nat
      /\ Cardinality(Healers) \in Nat
  BY Gathered DEF Learning, Trying
<1>4. QED
  BY <1>2, <1>3 DEF Tried

LEMMA BlindTry ==
  ASSUME HealTypeOK, ErrInv, BlindInv, NEW h \in Healers, TryStrategies(h), learning.EnableLearning
  PROVE  BlindInv'
<1>1. healer[h] \in HealRecords /\ healer \in [Healers -> HealRecords]
  BY DEF HealTypeOK
<1>2. PICK e0 \in ErrorTypes \cup {Nil} : e0 = healer[h].err
  BY <1>1 DEF HealRecords
<1>3. /\ healer[h].at = "trying" /\ UNCHANGED <<learning, learned>>
      /\ healer' = [healer EXCEPT ![h].used = "retry", ![h].at = "learning"]
  BY FirstStrategy DEF TryStrategies, TryThese, Healing
<1>4. healer'[h].at = "learning" /\ healer'[h].err = e0
  BY <1>1, <1>2, <1>3 DEF HealRecords
<1>5. \A g \in Healers \ {h} : healer'[g] = healer[g]
  BY <1>1, <1>3
<1>6. \A e : e # e0 => Both(e)' = Both(e) /\ Tried(e)' = Tried(e)
  BY <1>2, <1>3, <1>4, BlindOthers DEF HealerStep
<1>7. Both(e0)' = Both(e0) /\ Trying(e0)' = Trying(e0) \ {h} /\ Learning(e0)' = Learning(e0) \cup {h}
      /\ h \in Trying(e0) /\ h \notin Learning(e0)
  BY <1>2, <1>3, <1>4, <1>5 DEF Both, Trying, Learning, With
<1>8. Tried(e0)' = Tried(e0) + 1
  <2>1. IsFiniteSet(Trying(e0)) /\ IsFiniteSet(Learning(e0)) /\ Cardinality(Healers) \in Nat
    BY Gathered DEF Trying, Learning
  <2>2. Cardinality(Trying(e0)') = Cardinality(Trying(e0)) - 1 /\ Cardinality(Trying(e0)) \in Nat
    BY <1>7, <2>1, OneLess
  <2>3. Cardinality(Learning(e0)') = Cardinality(Learning(e0)) + 1
    BY <1>7, <2>1, OneMore
  <2>4. QED
    BY <1>3, <2>1, <2>2, <2>3 DEF Tried
<1>9. \A e \in DOMAIN learned' :
        learned'[e].confidence + Cardinality(Both(e))' < 5 + Cardinality(Healers)
  <2>1. \A e : Both(e)' = Both(e)
    BY <1>6, <1>7
  <2>2. QED
    BY <1>3, <2>1 DEF BlindInv
<1>10. \A s \in DOMAIN stats' :
         stats'[s].TotalAttempts <= Tried("*fmt.wrapError")' + Tried("*errors.errorString")'
  <2>1. PICK a \in Nat, b \in Nat : a = Tried("*fmt.wrapError") /\ b = Tried("*errors.errorString")
    BY TriedType
  <2>2. Tried("*fmt.wrapError")' + Tried("*errors.errorString")' = a + b + 1
    <3>1. e0 # Nil
      BY <1>2, <1>3 DEF ErrInv
    <3>2. CASE e0 = "*fmt.wrapError"
      BY <1>6, <1>8, <2>1, <3>2
    <3>3. CASE e0 = "*errors.errorString"
      BY <1>6, <1>8, <2>1, <3>3
    <3>4. QED
      BY <1>2, <3>1, <3>2, <3>3 DEF ErrorTypes
  <2>3. stats' = Tally({}, "retry")
    BY FirstStrategy
  <2>4. \A s \in DOMAIN stats : stats[s].TotalAttempts <= a + b /\ stats[s].TotalAttempts \in Nat
    BY <2>1 DEF BlindInv, HealTypeOK
  <2>5. \A s \in DOMAIN stats' : stats'[s].TotalAttempts <= a + b + 1
    BY <2>3, <2>4, Recounts
  <2>6. QED
    BY <2>2, <2>5
<1>11. QED
  BY <1>9, <1>10 DEF BlindInv

LEMMA BlindBegin ==
  ASSUME HealTypeOK, BlindInv, NEW h \in Healers, NothingLearned(h), learning.EnableLearning
  PROVE  BlindInv'
<1>1. healer[h] \in HealRecords /\ healer \in [Healers -> HealRecords]
  BY DEF HealTypeOK
<1>2. PICK e0 : e0 = healer[h].err
  OBVIOUS
<1>3. /\ healer[h].at = "failed" /\ UNCHANGED <<learning, learned, stats>> /\ e0 \notin DOMAIN learned
      /\ healer' = [healer EXCEPT ![h].at = "trying"]
  BY <1>2 DEF NothingLearned, Healing, Moves
<1>4. healer'[h].at = "trying" /\ healer'[h].err = e0
  BY <1>1, <1>2, <1>3 DEF HealRecords
<1>5. \A g \in Healers \ {h} : healer'[g] = healer[g]
  BY <1>1, <1>3
<1>6. \A e : e # e0 => Both(e)' = Both(e) /\ Tried(e)' = Tried(e)
  BY <1>2, <1>3, <1>4, BlindOthers DEF HealerStep
<1>7. Learning(e0)' = Learning(e0)
  BY <1>3, <1>4, <1>5 DEF Learning, With
<1>8. \A e : Tried(e)' = Tried(e)
  BY <1>3, <1>6, <1>7 DEF Tried
<1>9. \A e \in DOMAIN learned : Both(e)' = Both(e)
  BY <1>3, <1>6
<1>10. \A e \in DOMAIN learned : Cardinality(Both(e))' = Cardinality(Both(e))
  BY <1>9
<1>11. QED
  BY <1>3, <1>8, <1>10 DEF BlindInv

LEMMA BlindLearn ==
  ASSUME HealTypeOK, ErrInv, WriterInv, BlindInv, NEW h \in Healers, LearnEnds(h),
         learning.EnableLearning
  PROVE  BlindInv'
<1>1. healer[h] \in HealRecords /\ healer \in [Healers -> HealRecords]
  BY DEF HealTypeOK
<1>2. PICK e0 \in ErrorTypes \cup {Nil} : e0 = healer[h].err
  BY <1>1 DEF HealRecords
<1>3. /\ UNCHANGED <<learning, stats>> /\ healer' = [healer EXCEPT ![h].at = "waiting"]
      /\ healer[h].at = "learning" /\ healer[h].used = "retry"
  BY SHAssumption DEF LearnEnds, Moves, ErrInv, WriterInv
<1>4. healer'[h].at = "waiting" /\ healer'[h].err = e0
  BY <1>1, <1>2, <1>3 DEF HealRecords
<1>5. \A g \in Healers \ {h} : healer'[g] = healer[g]
  BY <1>1, <1>3
<1>6. PICK new : /\ new = IF e0 \in DOMAIN learned THEN Learned(learned[e0], "retry")
                          ELSE [strategy |-> "retry", confidence |-> 5]
                 /\ learned' = [t \in DOMAIN learned \cup {e0} |-> IF t = e0 THEN new ELSE learned[t]]
  BY <1>2, <1>3 DEF LearnEnds
<1>7. /\ DOMAIN learned' = DOMAIN learned \cup {e0} /\ learned'[e0] = new
      /\ \A e \in DOMAIN learned : e # e0 => learned'[e] = learned[e]
  BY <1>6
<1>8. \A e : e # e0 => Both(e)' = Both(e) /\ Tried(e)' = Tried(e)
  BY <1>2, <1>3, <1>4, <1>7, BlindOthers DEF HealerStep
<1>9. Both(e0)' = Both(e0) \ {h} /\ Trying(e0)' = Trying(e0) /\ h \in Both(e0)
  BY <1>2, <1>3, <1>4, <1>5 DEF Both, Trying, With
<1>10. Tried(e0) <= Tried(e0)' /\ Tried(e0)' \in Nat
  <2>1. Tried(e0)' = Cardinality(Healers) - Cardinality(Trying(e0))
    BY <1>7, <1>9 DEF Tried
  <2>2. /\ Cardinality(Learning(e0)) <= Cardinality(Healers) - Cardinality(Trying(e0))
        /\ Cardinality(Learning(e0)) \in Nat /\ Cardinality(Healers) \in Nat
        /\ Cardinality(Trying(e0)) \in Nat
    BY TriedType, Gathered DEF Learning, Trying
  <2>3. QED
    BY <2>1, <2>2 DEF Tried
<1>11. \A s \in DOMAIN stats' :
         stats'[s].TotalAttempts <= Tried("*fmt.wrapError")' + Tried("*errors.errorString")'
  <2>1. PICK a \in Nat, b \in Nat : a = Tried("*fmt.wrapError") /\ b = Tried("*errors.errorString")
    BY TriedType
  <2>2. a + b <= Tried("*fmt.wrapError")' + Tried("*errors.errorString")'
    <3>1. e0 # Nil
      BY <1>2, <1>3 DEF ErrInv
    <3>2. CASE e0 = "*fmt.wrapError"
      BY <1>8, <1>10, <2>1, <3>2
    <3>3. CASE e0 = "*errors.errorString"
      BY <1>8, <1>10, <2>1, <3>3
    <3>4. QED
      BY <1>2, <3>1, <3>2, <3>3 DEF ErrorTypes
  <2>3. PICK c \in Nat : c = Tried("*fmt.wrapError")' + Tried("*errors.errorString")'
    <3>1. e0 # Nil
      BY <1>2, <1>3 DEF ErrInv
    <3>2. CASE e0 = "*fmt.wrapError"
      BY <1>8, <1>10, <2>1, <3>2
    <3>3. CASE e0 = "*errors.errorString"
      BY <1>8, <1>10, <2>1, <3>3
    <3>4. QED
      BY <1>2, <3>1, <3>2, <3>3 DEF ErrorTypes
  <2>4. \A s \in DOMAIN stats : stats[s].TotalAttempts <= a + b /\ stats[s].TotalAttempts \in Nat
    BY <2>1 DEF BlindInv, HealTypeOK
  <2>5. QED
    BY <1>3, <2>2, <2>3, <2>4
<1>12. ASSUME NEW e \in DOMAIN learned'
       PROVE  learned'[e].confidence + Cardinality(Both(e))' < 5 + Cardinality(Healers)
  <2>1. CASE e # e0
    <3>1. Cardinality(Both(e))' = Cardinality(Both(e)) /\ learned'[e] = learned[e]
          /\ e \in DOMAIN learned
      BY <1>7, <1>8, <1>12, <2>1
    <3>2. QED
      BY <3>1 DEF BlindInv
  <2>2. PICK m \in Nat, k \in Nat :
          m = Cardinality(Both(e0)) /\ k = Cardinality(Healers) /\ m <= k
    BY Gathered DEF Both
  <2>3. Cardinality(Both(e0)') = m - 1
    <3>1. IsFiniteSet(Both(e0))
      BY Gathered DEF Both
    <3>2. QED
      BY <1>9, <2>2, <3>1, OneLess
  <2>4. CASE e = e0 /\ e0 \notin DOMAIN learned
    BY <1>6, <1>7, <2>2, <2>3, <2>4
  <2>5. CASE e = e0 /\ e0 \in DOMAIN learned
    <3>1. learned[e0] \in Patterns /\ learned[e0].confidence + m < 5 + k
      BY <2>2, <2>5 DEF HealTypeOK, BlindInv
    <3>2. new.confidence \in Nat /\ new.confidence <= learned[e0].confidence + 1
      <4>1. new = Learned(learned[e0], "retry")
        BY <1>6, <2>5
      <4>2. PICK r \in Patterns : r = learned[e0]
        BY <3>1
      <4>3. new = [r EXCEPT !.confidence = IF @ = 10 THEN 10 ELSE @ + 1]
        BY <4>1, <4>2 DEF Learned, Patterns
      <4>4. new.confidence = IF r.confidence = 10 THEN 10 ELSE r.confidence + 1
        BY <4>3 DEF Patterns
      <4>5. QED
        BY <4>2, <4>4 DEF Patterns
    <3>3. QED
      BY <1>7, <2>2, <2>3, <2>5, <3>1, <3>2 DEF Patterns
  <2>6. QED
    BY <2>1, <2>4, <2>5
<1>13. QED
  BY <1>11, <1>12 DEF BlindInv

LEMMA BlindStep ==
  ASSUME HealTypeOK, ErrInv, WriterInv, BlindInv, NEW h \in Healers, Process(h) \/ HealerStep(h)
  PROVE  BlindInv'
<1> USE DEF Healing
<1>1. healer[h] \in HealRecords /\ healer \in [Healers -> HealRecords]
  BY DEF HealTypeOK
<1>2. UNCHANGED learning
  BY StepsOf
<1>3. CASE Process(h)
  <2>1. healer'[h].at = "executing"
    BY <1>1, <1>3 DEF Process, Idle
  <2>2. QED
    BY <1>2, <1>3, <2>1, BlindQuiet DEF Process
<1>4. CASE ExecuteSucceeds(h)
  <2>1. healer'[h].at \in {"recovered", "idle"}
    BY <1>1, <1>4 DEF ExecuteSucceeds, Moves, HealRecords, Idle
  <2>2. QED
    BY <1>2, <1>4, <2>1, BlindQuiet DEF ExecuteSucceeds
<1>5. ASSUME NEW e \in ErrorTypes, NEW n \in {0, 1}, ExecuteFails(h, e, n) PROVE BlindInv'
  <2>1. healer'[h].at \in {"lost", "failed", "waiting"}
    BY <1>1, <1>5 DEF ExecuteFails, HealRecords
  <2>2. HealerStep(h)
    BY <1>5 DEF HealerStep
  <2>3. QED
    BY <1>2, <1>5, <2>1, <2>2, BlindQuiet DEF ExecuteFails
<1>6. CASE UseLearned(h) \/ ReadWhileWritten(h)
  <2>1. healer'[h].at \in {"waiting", "failed"} /\ healer[h].at = "failed"
        /\ UNCHANGED <<stats, learned>>
    BY <1>1, <1>6 DEF UseLearned, ReadWhileWritten, Moves, HealRecords
  <2>2. QED
    BY <1>2, <2>1, BlindQuiet
<1>7. CASE Sleep(h)
  <2>1. healer'[h].at = "executing"
    BY <1>1, <1>7 DEF Sleep, HealRecords
  <2>2. QED
    BY <1>2, <1>7, <2>1, BlindQuiet DEF Sleep
<1>8. CASE RecordRecovery(h)
  <2>1. healer'[h].at = "idle"
    BY <1>1, <1>8 DEF RecordRecovery, Idle
  <2>2. QED
    BY <1>2, <1>8, <2>1, BlindQuiet DEF RecordRecovery
<1>9. CASE LearnBegins(h)
  BY <1>9 DEF LearnBegins, BlindInv, Tried, Trying, Learning, Both, With
<1>10. CASE NothingLearned(h)
  BY <1>2, <1>10, BlindBegin DEF BlindInv
<1>11. CASE TryStrategies(h)
  BY <1>2, <1>11, BlindTry DEF BlindInv
<1>12. CASE LearnEnds(h)
  BY <1>2, <1>12, BlindLearn DEF BlindInv
<1>13. QED
  BY <1>3, <1>4, <1>5, <1>6, <1>7, <1>8, <1>9, <1>10, <1>11, <1>12 DEF HealerStep

LEMMA HealStarts == learning \in Switches /\ HealAtRest => HealInv
<1> SUFFICES ASSUME learning \in Switches, HealAtRest PROVE HealInv
  OBVIOUS
<1>1. \A h \in Healers : healer[h] = Idle
  BY DEF HealAtRest
<1>2. Idle \in HealRecords /\ Idle.at = "idle" /\ Idle.err = Nil
  BY DEF Idle, HealRecords, Places, Nil
<1>3. NoCounts \in Tallies /\ NoCounts.said = 0 /\ NoCounts.met = 0
  BY DEF NoCounts, Tallies
<1>4. HealTypeOK
  <2>1. wrapped = [Intact EXCEPT !.conversation = counts.said]
    BY <1>3 DEF HealAtRest, Intact
  <2>2. /\ Len(strategies) \in Nat \ {0} /\ DOMAIN strategies = 1 .. Len(strategies)
        /\ strategies[1] = "retry"
    BY DEF HealAtRest, Defaults
  <2>3. DOMAIN learned = {} /\ DOMAIN stats = {} /\ errors \in Seq(Entries)
    BY DEF HealAtRest
  <2>4. healer \in [Healers -> HealRecords] /\ writer = "none" /\ crashed = FALSE
    BY <1>2 DEF HealAtRest
  <2>5. counts \in Tallies
    BY <1>3 DEF HealAtRest
  <2>6. QED
    BY <2>1, <2>2, <2>3, <2>4, <2>5 DEF HealTypeOK
<1>5. ErrInv /\ WriterInv
  BY <1>1, <1>2 DEF HealAtRest, ErrInv, WriterInv
<1>6. AloneNeverCrashes
  BY DEF HealAtRest, AloneNeverCrashes
<1>7. BlindInv
  BY DEF HealAtRest, BlindInv
<1>8. HistoryInv
  <2>1. Open = {}
    BY <1>1, <1>2 DEF Open
  <2>2. Cardinality(Open) = 0 /\ Len(errors) = 0 /\ counts.met = 0
    BY <1>3, <2>1, FS_EmptySet DEF HealAtRest
  <2>3. QED
    BY <2>2, SHAssumption DEF HistoryInv
<1>9. QED
  BY <1>4, <1>5, <1>6, <1>7, <1>8 DEF HealInv

(* A self-healing agent only retries, its statistics end where its learning *)
(* begins, and it ends the program only when several call it at once.       *)
THEOREM HealingCorrect == HealSpec => []HealingIsTrue
<1>1. HealInit => HealInv
  BY HealStarts DEF HealInit, Switches
<1>a. (learning \in Switches /\ HealAtRest)' => HealInv'
  BY HealStarts, PTL
<1>2. HealInv /\ [HealNext]_healVars => HealInv'
  <2> SUFFICES ASSUME HealInv, [HealNext]_healVars PROVE HealInv'
    OBVIOUS
  <2>1. ASSUME NEW h \in Healers, Process(h) \/ HealerStep(h) PROVE HealInv'
    BY <2>1, HealTypes, ErrsAndWriter, CrashStep, BlindStep, HistoryStep DEF HealInv
  <2>2. ASSUME NEW s \in Custom \ ToSet(strategies), RegisterStrategy(s) PROVE HealInv'
    <3>1. /\ Len(strategies') \in Nat \ {0} /\ DOMAIN strategies' = 1 .. Len(strategies')
          /\ strategies'[1] = "retry"
      BY <2>2 DEF RegisterStrategy, HealInv, HealTypeOK
    <3>2. UNCHANGED <<learning, learned, stats, errors, writer, wrapped, healer, crashed, counts>>
      BY <2>2 DEF RegisterStrategy
    <3>3. HealTypeOK'
      BY <3>1, <3>2 DEF HealInv, HealTypeOK
    <3>4. QED
      BY <3>2, <3>3 DEF HealInv, ErrInv, WriterInv, AloneNeverCrashes, BlindInv, HistoryInv,
         Tried, Trying, Learning, Both, With, Open, Busy
  <2>3. CASE StartAnew
    <3>1. HealAtRest' /\ learning' \in Switches
      BY <2>3 DEF StartAnew, HealAtRest, HealInv, HealTypeOK
    <3>2. QED
      BY <1>a, <3>1
  <2>4. CASE UNCHANGED healVars
    BY <2>4 DEF healVars, HealInv, HealTypeOK, ErrInv, WriterInv, AloneNeverCrashes, BlindInv,
       HistoryInv, Tried, Trying, Learning, Both, With, Open, Busy
  <2>5. QED
    BY <2>1, <2>2, <2>3, <2>4 DEF HealNext
<1>3. HealInv => HealingIsTrue
  <2> SUFFICES ASSUME HealInv PROVE HealingIsTrue
    OBVIOUS
  <2>1. AloneNeverCrashes
    BY DEF HealInv
  <2>2. RecoveryIsRetry
    BY DEF HealInv, HealTypeOK, RecoveryIsRetry, Patterns
  <2>3. StatisticsGoBlind
    <3> SUFFICES ASSUME learning.EnableLearning PROVE StatisticsGoBlind
      BY DEF StatisticsGoBlind
    <3>1. PICK N \in Nat : N = Cardinality(Healers)
      BY SHAssumption, FS_CardinalityType
    <3>2. \A e \in DOMAIN learned : learned[e].confidence < 5 + N
      <4>1. \A e : Cardinality(Both(e)) \in Nat
        BY Gathered DEF Both
      <4>2. \A e \in DOMAIN learned : learned[e].confidence \in Nat
        BY DEF HealInv, HealTypeOK, Patterns
      <4>3. QED
        BY <3>1, <4>1, <4>2 DEF HealInv, BlindInv
    <3>3. \A e : e \notin Met => Tried(e) = 0
      <4> SUFFICES ASSUME NEW e, e \notin Met PROVE Tried(e) = 0
        OBVIOUS
      <4>1. e \notin DOMAIN learned /\ Learning(e) = {}
        BY DEF Met, Learning, With
      <4>2. QED
        BY <4>1, FS_EmptySet DEF Tried
    <3>4. Met \subseteq ErrorTypes
      BY DEF Met, HealInv, HealTypeOK, ErrInv, HealRecords
    <3>5. Tried("*fmt.wrapError") + Tried("*errors.errorString") <= N * Cardinality(Met)
      <4>1. PICK a \in 0 .. N, b \in 0 .. N :
              a = Tried("*fmt.wrapError") /\ b = Tried("*errors.errorString")
        BY <3>1, TriedType
      <4>2. CASE Met = {}
        BY <3>3, <4>2, FS_EmptySet
      <4>3. CASE Met = {"*fmt.wrapError"}
        <5>1. Cardinality(Met) = 1
          BY <4>3, FS_Singleton
        <5>2. b = 0 /\ N * 1 = N
          BY <3>1, <3>3, <4>1, <4>3
        <5>3. QED
          BY <4>1, <5>1, <5>2
      <4>4. CASE Met = {"*errors.errorString"}
        <5>1. Cardinality(Met) = 1
          BY <4>4, FS_Singleton
        <5>2. a = 0 /\ N * 1 = N
          BY <3>1, <3>3, <4>1, <4>4
        <5>3. QED
          BY <4>1, <5>1, <5>2
      <4>5. CASE Met = {"*fmt.wrapError"} \cup {"*errors.errorString"}
        <5>1. Cardinality(Met) = 2
          <6>1. /\ IsFiniteSet({"*fmt.wrapError"}) /\ Cardinality({"*fmt.wrapError"}) = 1
                /\ "*errors.errorString" \notin {"*fmt.wrapError"}
            BY FS_Singleton
          <6>2. QED
            BY <4>5, <6>1, OneMore
        <5>2. QED
          BY <4>1, <5>1
      <4>6. QED
        BY <3>4, <4>2, <4>3, <4>4, <4>5 DEF ErrorTypes
    <3>6. PICK a \in Nat, b \in Nat : a = Tried("*fmt.wrapError") /\ b = Tried("*errors.errorString")
      BY TriedType
    <3>7. Cardinality(Met) \in Nat
      <4>1. IsFiniteSet(ErrorTypes)
        <5>1. IsFiniteSet({"*fmt.wrapError"})
          BY FS_Singleton
        <5>2. ErrorTypes = {"*fmt.wrapError"} \cup {"*errors.errorString"}
          BY DEF ErrorTypes
        <5>3. QED
          BY <5>1, <5>2, FS_AddElement
      <4>2. QED
        BY <3>4, <4>1, FS_Subset, FS_CardinalityType
    <3>8. PICK m \in Nat : m = N * Cardinality(Met)
      BY <3>7
    <3>9. \A s \in DOMAIN stats : stats[s].TotalAttempts <= N * Cardinality(Met)
      BY <3>5, <3>6, <3>8 DEF HealInv, HealTypeOK, BlindInv
    <3>10. QED
      BY <3>1, <3>2, <3>9 DEF StatisticsGoBlind
  <2>4. HistoryIsNewest
    <3>1. Open = {h \in Busy : healer[h].err # "nil"}
      BY DEF Open, Busy, Nil, HealInv, ErrInv
    <3>2. QED
      BY <3>1 DEF HealInv, HistoryInv, HistoryIsNewest, Returned
  <2>5. QED
    BY <2>1, <2>2, <2>3, <2>4 DEF HealingIsTrue
<1>4. QED
  BY <1>1, <1>2, <1>3, PTL DEF HealSpec
=============================================================================
