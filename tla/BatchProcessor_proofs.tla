----------------------- MODULE BatchProcessor_proofs -----------------------
(***************************************************************************)
(* Safety of the batch processor for any set of requests and any limits,   *)
(* of the budget of the cost tracker for any callers and any limit, of the *)
(* execution manager for any set of ids, finite or not, and any limit, with *)
(* the proof that it implements AdmissionControl, and of the middlewares   *)
(* for any requesters and any chain.                                       *)
(***************************************************************************)
EXTENDS BatchProcessor, CostTracker, ExecutionManager, Middleware, FiniteSetTheorems, TLAPS

QueueInv == IsFiniteSet(queue) /\ QueueBelowLimit

(* In a processor that met no full queue and no Flush, a timer or a fetch   *)
(* is due exactly while requests wait.                                      *)
TimerInv ==
  (~filled /\ ~flushed) => /\ (timer = "nil") <=> (queue = {})
                           /\ (timer = "dead") => (due > 0)

IInv == BatchTypeOK /\ OnePlace /\ QueueInv /\ OnlyFullLoses /\ TimerInv

-----------------------------------------------------------------------------
(* The queue that Submit finds too short to be full. *)
LEMMA QueueGrows ==
  ASSUME IInv, NEW r \in Requests, SubmitQueue(r)
  PROVE  QueueInv'
<1>1. IsFiniteSet(queue \union {r})
  BY FS_AddElement DEF IInv, QueueInv
<1>2. QED
  BY <1>1 DEF SubmitQueue, QueueInv, QueueBelowLimit

(* Every step keeps the queue finite and short of a batch. *)
LEMMA QueueStep == IInv /\ [BatchNext]_batchVars => QueueInv'
<1> SUFFICES ASSUME IInv, [BatchNext]_batchVars
             PROVE  QueueInv'
  OBVIOUS
<1>1. ASSUME queue' = {}  PROVE QueueInv'
  BY <1>1, FS_EmptySet DEF QueueInv, QueueBelowLimit
<1>2. ASSUME queue' = queue  PROVE QueueInv'
  BY <1>2 DEF IInv, QueueInv, QueueBelowLimit
<1>3. ASSUME NEW r \in Requests, SubmitQueue(r)  PROVE QueueInv'
  BY <1>3, QueueGrows
<1>4. ASSUME NEW r \in Requests, SubmitImmediate(r) \/ SubmitFull(r)
      PROVE  queue' = {} \/ queue' = queue
  BY <1>4 DEF SubmitImmediate, SubmitFull
<1>5. ASSUME TimerFires \/ OrphanFires \/ ProcessBatch \/ ProcessNothing \/ Flush
      PROVE  queue' = {} \/ queue' = queue
  BY <1>5 DEF TimerFires, OrphanFires, ProcessBatch, ProcessNothing, Flush
<1>6. ASSUME NEW b \in batches, NEW r \in b, StartWorker(b, r) \/ Answer(b, r)
      PROVE  queue' = queue
  BY <1>6 DEF StartWorker, Answer
<1>7. ASSUME UNCHANGED batchVars  PROVE queue' = queue
  BY <1>7 DEF batchVars
<1>8. QED
  BY <1>1, <1>2, <1>3, <1>4, <1>5, <1>6, <1>7 DEF BatchNext

-----------------------------------------------------------------------------
(* Taking the whole queue as a new batch keeps every request in one place. *)
LEMMA TakeQueue ==
  ASSUME BatchTypeOK, OnePlace,
         batches' = batches \union {queue}, queue' = {},
         UNCHANGED <<working, submitted, answered>>
  PROVE  /\ OnePlace'
         /\ batches' \in SUBSET (SUBSET Requests)
         /\ working' \in SUBSET InBatch'
<1>1. InBatch' = InBatch \union queue
  BY DEF InBatch
<1>2. \A b \in batches : b \intersect queue = {}
  BY DEF OnePlace, InBatch
<1>3. QED
  BY <1>1, <1>2 DEF OnePlace, BatchTypeOK

(* Answering a request moves it from its one batch to the answered ones. *)
LEMMA AnswerOne ==
  ASSUME BatchTypeOK, OnePlace, NEW b \in batches, NEW r \in b, Answer(b, r)
  PROVE  BatchTypeOK' /\ OnePlace'
<1>1. \A c \in batches : c # b => r \notin c
  BY DEF OnePlace
<1>2. InBatch' = InBatch \ {r}
  <2>1. ASSUME NEW x \in InBatch', x \notin InBatch \ {r}  PROVE FALSE
    <3>1. PICK c \in batches' : x \in c
      BY <2>1 DEF InBatch
    <3>2. (c \in batches /\ c # b) \/ c = b \ {r}
      BY <3>1 DEF Answer
    <3>3. QED
      BY <1>1, <2>1, <3>1, <3>2 DEF InBatch
  <2>2. ASSUME NEW x \in InBatch \ {r}  PROVE x \in InBatch'
    <3>1. PICK c \in batches : x \in c
      BY <2>2 DEF InBatch
    <3>2. CASE c = b
      <4>1. x \in b \ {r}
        BY <2>2, <3>1, <3>2
      <4>2. b \ {r} \in batches'
        BY <4>1 DEF Answer
      <4>3. QED
        BY <4>1, <4>2 DEF InBatch
    <3>3. CASE c # b
      BY <3>1, <3>3 DEF InBatch, Answer
    <3>4. QED
      BY <3>2, <3>3
  <2>3. QED
    BY <2>1, <2>2
<1>3. \A c \in batches' : (c \in batches /\ c # b) \/ c = b \ {r}
  BY DEF Answer
<1>4. \A b1, b2 \in batches' : b1 # b2 => b1 \intersect b2 = {}
  BY <1>3 DEF OnePlace
<1>5. r \in InBatch
  BY DEF InBatch
<1>6. OnePlace'
  BY <1>2, <1>4, <1>5 DEF OnePlace, Answer
<1>7. BatchTypeOK'
  <2>1. batches' \in SUBSET (SUBSET Requests)
    BY <1>3 DEF BatchTypeOK
  <2>2. working' \in SUBSET InBatch'
    BY <1>2 DEF BatchTypeOK, others, happened, Answer
  <2>3. r \in Requests
    BY DEF BatchTypeOK
  <2>4. QED
    BY <2>1, <2>2, <2>3 DEF BatchTypeOK, others, happened, Answer
<1>8. QED
  BY <1>6, <1>7

-----------------------------------------------------------------------------
(* No step but SubmitFull takes a request out of queue, batches and answers. *)
LEMMA LossStep == IInv /\ [BatchNext]_batchVars => OnlyFullLoses'
<1> SUFFICES ASSUME IInv, [BatchNext]_batchVars, ~filled'
             PROVE  NoRequestLost'
  BY DEF OnlyFullLoses
<1> DEFINE Held == queue \union InBatch \union answered
<1>a. ~filled
  <2>1. ASSUME NEW r \in Requests, SubmitFull(r)  PROVE FALSE
    BY <2>1 DEF SubmitFull
  <2>2. QED
    BY <2>1 DEF BatchNext, batchVars, others, happened, SubmitImmediate, SubmitQueue, TimerFires,
                OrphanFires, ProcessBatch, ProcessNothing, Flush, StartWorker, Answer
<1>b. submitted \subseteq Held
  BY <1>a DEF IInv, OnlyFullLoses, NoRequestLost
<1>1. ASSUME NEW r \in Requests, SubmitImmediate(r)  PROVE NoRequestLost'
  <2>1. InBatch' = InBatch \union {r}
    BY <1>1 DEF SubmitImmediate, InBatch
  <2>2. QED
    BY <1>1, <1>b, <2>1 DEF SubmitImmediate, Accept, NoRequestLost
<1>2. ASSUME NEW r \in Requests, SubmitQueue(r) \/ SubmitFull(r)  PROVE NoRequestLost'
  <2>1. SubmitQueue(r) /\ InBatch' = InBatch
    BY <1>2 DEF SubmitQueue, SubmitFull, InBatch
  <2>2. QED
    BY <1>b, <2>1 DEF SubmitQueue, Accept, NoRequestLost
<1>3. CASE TimerFires \/ OrphanFires \/ ProcessNothing \/ UNCHANGED batchVars
  <2>1. InBatch' = InBatch
    BY <1>3 DEF TimerFires, OrphanFires, ProcessNothing, batchVars, InBatch
  <2>2. QED
    BY <1>3, <1>b, <2>1 DEF TimerFires, OrphanFires, ProcessNothing, batchVars, NoRequestLost
<1>4. CASE ProcessBatch \/ Flush
  <2>1. InBatch' = InBatch \union queue
    BY <1>4 DEF ProcessBatch, Flush, InBatch
  <2>2. QED
    BY <1>4, <1>b, <2>1 DEF ProcessBatch, Flush, NoRequestLost
<1>5. ASSUME NEW b \in batches, NEW r \in b, StartWorker(b, r)  PROVE NoRequestLost'
  <2>1. InBatch' = InBatch
    BY <1>5 DEF StartWorker, InBatch
  <2>2. QED
    BY <1>5, <1>b, <2>1 DEF StartWorker, NoRequestLost
<1>6. ASSUME NEW b \in batches, NEW r \in b, Answer(b, r)  PROVE NoRequestLost'
  <2>1. ASSUME NEW x \in InBatch, x # r  PROVE x \in InBatch'
    <3>1. PICK c \in batches : x \in c
      BY DEF InBatch
    <3>2. CASE c = b
      <4>1. x \in b \ {r}
        BY <2>1, <3>1, <3>2
      <4>2. b \ {r} \in batches'
        BY <1>6, <4>1 DEF Answer
      <4>3. QED
        BY <4>1, <4>2 DEF InBatch
    <3>3. CASE c # b
      BY <1>6, <3>1, <3>3 DEF InBatch, Answer
    <3>4. QED
      BY <3>2, <3>3
  <2>2. QED
    BY <1>6, <1>b, <2>1 DEF Answer, NoRequestLost
<1>7. QED
  BY <1>1, <1>2, <1>3, <1>4, <1>5, <1>6 DEF BatchNext

(* Timers and fetches stay in step with the queue. *)
LEMMA TimerStep == IInv /\ [BatchNext]_batchVars => TimerInv'
<1> SUFFICES ASSUME IInv, [BatchNext]_batchVars
             PROVE  TimerInv'
  OBVIOUS
<1>a. timer \in {"nil", "live", "dead"} /\ orphans \in Nat /\ due \in Nat
  BY DEF IInv, BatchTypeOK
<1>b. TimerInv
  BY DEF IInv
<1> USE <1>a, <1>b DEF TimerInv, others, happened
<1>1. ASSUME NEW r \in Requests, SubmitImmediate(r) \/ SubmitQueue(r) \/ SubmitFull(r)
      PROVE  TimerInv'
  <2>1. CASE SubmitImmediate(r)
    BY <2>1 DEF SubmitImmediate, Accept
  <2>2. CASE SubmitQueue(r)
    <3>1. queue' # {} /\ timer' # "nil" /\ (timer' = "dead" => timer = "dead")
      BY <2>2 DEF SubmitQueue
    <3>2. due' = due /\ (filled' <=> filled) /\ (flushed' <=> flushed)
      BY <2>2 DEF SubmitQueue, Accept
    <3>3. QED
      BY <3>1, <3>2
  <2>3. CASE SubmitFull(r)
    BY <2>3 DEF SubmitFull
  <2>4. QED
    BY <1>1, <2>1, <2>2, <2>3
<1>2. CASE TimerFires
  BY <1>2 DEF TimerFires
<1>3. CASE OrphanFires
  <2>1. due' > 0
    BY <1>3 DEF OrphanFires
  <2>2. timer' = timer /\ queue' = queue /\ (filled' <=> filled) /\ (flushed' <=> flushed)
    BY <1>3 DEF OrphanFires
  <2>3. QED
    BY <2>1, <2>2
<1>4. CASE ProcessBatch
  BY <1>4 DEF ProcessBatch
<1>5. CASE ProcessNothing
  BY <1>5 DEF ProcessNothing
<1>6. CASE Flush
  BY <1>6 DEF Flush
<1>7. ASSUME NEW b \in batches, NEW r \in b, StartWorker(b, r) \/ Answer(b, r)
      PROVE  TimerInv'
  BY <1>7 DEF StartWorker, Answer
<1>8. CASE UNCHANGED batchVars
  BY <1>8 DEF batchVars
<1>9. QED
  BY <1>1, <1>2, <1>3, <1>4, <1>5, <1>6, <1>7, <1>8 DEF BatchNext

-----------------------------------------------------------------------------
LEMMA InitInv == BatchInit => IInv
<1> SUFFICES ASSUME BatchInit
             PROVE  IInv
  OBVIOUS
<1>1. InBatch = {}
  BY DEF BatchInit, InBatch
<1>2. BatchTypeOK
  BY <1>1 DEF BatchInit, BatchTypeOK
<1>3. OnePlace
  BY <1>1 DEF BatchInit, OnePlace
<1>4. QueueInv
  BY FS_EmptySet DEF BatchInit, QueueInv, QueueBelowLimit
<1>5. OnlyFullLoses /\ TimerInv
  BY DEF BatchInit, OnlyFullLoses, NoRequestLost, TimerInv
<1>6. QED
  BY <1>2, <1>3, <1>4, <1>5 DEF IInv

LEMMA StepInv == IInv /\ [BatchNext]_batchVars => IInv'
<1> SUFFICES ASSUME IInv, [BatchNext]_batchVars
             PROVE  BatchTypeOK' /\ OnePlace'
  BY QueueStep, LossStep, TimerStep DEF IInv
<1> DEFINE Rest == BatchTypeOK /\ OnePlace
<1> SUFFICES Rest'
  OBVIOUS
<1>a. BatchTypeOK /\ OnePlace
  BY DEF IInv
<1>1. ASSUME NEW r \in Requests, SubmitImmediate(r)  PROVE Rest'
  <2>1. r \notin InBatch /\ r \notin queue /\ r \notin answered
    BY <1>1, <1>a DEF SubmitImmediate, Accept, OnePlace
  <2>2. InBatch' = InBatch \union {r}
    BY <1>1 DEF SubmitImmediate, InBatch
  <2>3. \A b \in batches : r \notin b
    BY <2>1 DEF InBatch
  <2>4. \A b1, b2 \in batches' : b1 # b2 => b1 \intersect b2 = {}
    BY <1>1, <1>a, <2>3 DEF SubmitImmediate, OnePlace
  <2>5. OnePlace'
    BY <1>1, <1>a, <2>1, <2>2, <2>4 DEF SubmitImmediate, Accept, OnePlace
  <2>6. batches' \in SUBSET (SUBSET Requests)
    BY <1>1, <1>a DEF SubmitImmediate, BatchTypeOK, others, happened
  <2>7. BatchTypeOK'
    BY <1>1, <1>a, <2>2, <2>6 DEF SubmitImmediate, Accept, BatchTypeOK, others, happened
  <2>8. QED
    BY <2>5, <2>7
<1>2. ASSUME NEW r \in Requests, SubmitQueue(r) \/ SubmitFull(r)  PROVE Rest'
  <2>1. r \notin InBatch /\ r \notin answered
    BY <1>2, <1>a DEF SubmitQueue, SubmitFull, Accept, OnePlace
  <2>2. InBatch' = InBatch
    BY <1>2 DEF SubmitQueue, SubmitFull, InBatch
  <2>3. OnePlace'
    BY <1>2, <1>a, <2>1, <2>2 DEF SubmitQueue, SubmitFull, Accept, OnePlace
  <2>4. BatchTypeOK'
    <3>1. CASE SubmitQueue(r)
      BY <3>1, <1>a, <2>2 DEF SubmitQueue, Accept, BatchTypeOK, others, happened
    <3>2. CASE SubmitFull(r)
      BY <3>2, <1>a, <2>2 DEF SubmitFull, Accept, BatchTypeOK, others, happened
    <3>3. QED
      BY <1>2, <3>1, <3>2
  <2>5. QED
    BY <2>3, <2>4
<1>3. CASE TimerFires \/ OrphanFires \/ ProcessNothing
  <2>1. InBatch' = InBatch
    BY <1>3 DEF TimerFires, OrphanFires, ProcessNothing, InBatch
  <2>2. QED
    BY <1>3, <1>a, <2>1 DEF TimerFires, OrphanFires, ProcessNothing, BatchTypeOK, others, happened, OnePlace
<1>4. CASE ProcessBatch
  BY <1>4, <1>a, TakeQueue DEF ProcessBatch, BatchTypeOK, others, happened
<1>5. CASE Flush
  BY <1>5, <1>a, TakeQueue DEF Flush, BatchTypeOK, others, happened
<1>6. ASSUME NEW b \in batches, NEW r \in b, StartWorker(b, r)  PROVE Rest'
  <2>1. InBatch' = InBatch /\ r \in InBatch
    BY <1>6 DEF StartWorker, InBatch
  <2>2. QED
    BY <1>6, <1>a, <2>1 DEF StartWorker, BatchTypeOK, others, happened, OnePlace
<1>7. ASSUME NEW b \in batches, NEW r \in b, Answer(b, r)  PROVE Rest'
  BY <1>7, <1>a, AnswerOne
<1>8. CASE UNCHANGED batchVars
  <2>1. InBatch' = InBatch
    BY <1>8 DEF batchVars, InBatch
  <2>2. QED
    BY <1>8, <1>a, <2>1 DEF batchVars, BatchTypeOK, others, happened, OnePlace
<1>9. QED
  BY <1>1, <1>2, <1>3, <1>4, <1>5, <1>6, <1>7, <1>8 DEF BatchNext

LEMMA Inductive == BatchSpec => []IInv
<1>1. QED
  BY InitInv, StepInv, PTL DEF BatchSpec

-----------------------------------------------------------------------------
(* Every variable keeps its type; only requests of a batch are worked on.   *)
THEOREM TypeCorrect == BatchSpec => []BatchTypeOK
<1>1. IInv => BatchTypeOK
  BY DEF IInv
<1>2. QED
  BY <1>1, Inductive, PTL

(* No request is ever in two places: none is processed or answered twice.   *)
THEOREM OnePlaceCorrect == BatchSpec => []OnePlace
<1>1. IInv => OnePlace
  BY DEF IInv
<1>2. QED
  BY <1>1, Inductive, PTL

(* The queue stays below the batch size. *)
THEOREM QueueCorrect == BatchSpec => []QueueBelowLimit
<1>1. IInv => QueueBelowLimit
  BY DEF IInv, QueueInv
<1>2. QED
  BY <1>1, Inductive, PTL

(* Whatever timers, Flush and workers do, only a full queue loses requests. *)
THEOREM LossCorrect == BatchSpec => []OnlyFullLoses
<1>1. IInv => OnlyFullLoses
  BY DEF IInv
<1>2. QED
  BY <1>1, Inductive, PTL

(* Without full queues and Flush, something will fetch a waiting request.   *)
THEOREM SomeoneCorrect == BatchSpec => []SomeoneComes
<1>1. IInv => SomeoneComes
  <2> SUFFICES ASSUME IInv, queue # {}, ~filled, ~flushed
               PROVE  timer = "live" \/ due > 0
    BY DEF SomeoneComes
  <2>1. timer # "nil" /\ (timer = "dead" => due > 0)
    BY DEF IInv, TimerInv
  <2>2. QED
    <3>1. timer \in {"nil", "live", "dead"}
      BY DEF IInv, BatchTypeOK
    <3>2. QED
      BY <2>1, <3>1
<1>2. QED
  BY <1>1, Inductive, PTL
-----------------------------------------------------------------------------
(* The cost tracker.  A record of the budget is one of those it counts.     *)
Budgets == [spend : Nat, reset : Int, resets : Nat]

BudgetTypeOK ==
  /\ IsFiniteSet(usages)
  /\ \A u \in usages : u.follows \in Nat /\ u.nth \in Nat
  /\ budget \in Budgets
  /\ now \in Int
  /\ payer \in [Payers -> {"idle", "calling", "recording"}]

Current == {u \in usages : u.follows = budget.resets}

RecordsInv ==
  /\ \A u \in usages : u.follows <= budget.resets
  /\ \A u \in Current : u.nth <= budget.spend
  /\ dropped \/ budget.spend = Cardinality(Current)

SpendInv == budget.spend + Cardinality(Busy) < Limit + Cardinality(Payers)

BudgetInv == BudgetTypeOK /\ RecordsInv /\ SpendInv

LEMMA BusyFinite == IsFiniteSet(Busy) /\ Cardinality(Busy) \in Nat /\ Cardinality(Payers) \in Nat
                    /\ Cardinality(Busy) <= Cardinality(Payers)
<1>1. Busy \subseteq Payers
  BY DEF Busy
<1>2. QED
  BY <1>1, CostAssumption, FS_Subset, FS_CardinalityType

LEMMA RecordStep ==
  ASSUME BudgetInv, NEW p \in Payers, RecordUsage(p)
  PROVE  BudgetInv'
<1> USE DEF BudgetInv, BudgetTypeOK
<1>a. PICK over \in BOOLEAN : over = (now - budget.reset > Period)
  <2>1. CASE now - budget.reset > Period
    <3>1. (now - budget.reset > Period) = TRUE
      BY <2>1
    <3>2. QED
      BY <3>1, Zenon
  <2>2. CASE ~(now - budget.reset > Period)
    <3>1. (now - budget.reset > Period) = FALSE
      BY <2>2, CostAssumption DEF Budgets
    <3>2. QED
      BY <3>1, Zenon
  <2>3. QED
    BY <2>1, <2>2
<1>b. PICK b : b = Spent(IF over THEN Renewed ELSE budget)
  BY Zenon
<1>1. over = (now - budget.reset > Period) /\ b = Spent(IF over THEN Renewed ELSE budget)
  BY <1>a, <1>b, Zenon
<1>2. /\ budget' = b /\ usages' = usages \cup {Record(b)} /\ dropped' = (dropped /\ ~over)
      /\ payer[p] = "recording" /\ payer' = [payer EXCEPT ![p] = "idle"] /\ now' = now
  BY <1>1, Zenon DEF RecordUsage, Locks
<1>3. b \in Budgets /\ b.resets = (IF over THEN budget.resets + 1 ELSE budget.resets)
      /\ b.spend = (IF over THEN 1 ELSE budget.spend + 1)
  BY <1>1 DEF Spent, Renewed, Budgets
<1>c. PICK r : r = Record(b)
  BY Zenon
<1>4. r = Record(b) /\ r.follows = b.resets /\ r.nth = b.spend
  BY <1>c DEF Record
<1>5. BudgetTypeOK'
  <2>1. IsFiniteSet(usages \cup {r})
    BY FS_AddElement
  <2>2. r.follows \in Nat /\ r.nth \in Nat
    BY <1>3, <1>4 DEF Budgets
  <2>3. QED
    BY <1>2, <1>3, <1>4, <2>1, <2>2
<1>6. RecordsInv'
  <2>1. CASE over
    <3>1. budget'.resets = budget.resets + 1 /\ budget'.spend = 1
      BY <1>2, <1>3, <2>1
    <3>2. Current' = {r}
      BY <1>2, <1>4, <3>1 DEF Current, RecordsInv, Budgets
    <3>3. Cardinality(Current') = 1
      BY <3>2, FS_Singleton
    <3>4. QED
      BY <1>2, <1>3, <1>4, <3>1, <3>2, <3>3 DEF RecordsInv, Budgets
  <2>2. CASE ~over
    <3>1. budget'.resets = budget.resets /\ budget'.spend = budget.spend + 1
      BY <1>2, <1>3, <2>2
    <3>2. Current' = Current \cup {r} /\ r \notin Current
      BY <1>2, <1>3, <1>4, <3>1 DEF Current, RecordsInv, Budgets
    <3>3. IsFiniteSet(Current)
      BY FS_Subset DEF Current
    <3>4. Cardinality(Current') = Cardinality(Current) + 1
      BY <3>2, <3>3, FS_AddElement
    <3>5. \A u \in usages' : u.follows <= budget'.resets
      BY <1>2, <1>4, <3>1 DEF RecordsInv, Budgets
    <3>6. \A u \in Current' : u.nth <= budget'.spend
      BY <1>2, <1>4, <3>1, <3>2 DEF RecordsInv, Budgets, Current
    <3>7. dropped' \/ budget'.spend = Cardinality(Current')
      BY <1>2, <2>2, <3>1, <3>4 DEF RecordsInv
    <3>8. QED
      BY <3>5, <3>6, <3>7 DEF RecordsInv
  <2>3. QED
    BY <1>1, <2>1, <2>2
<1>7. SpendInv'
  <2>1. p \in Busy /\ Busy' = Busy \ {p}
    BY <1>2 DEF Busy
  <2>2. Cardinality(Busy') = Cardinality(Busy) - 1
    BY <2>1, BusyFinite, FS_RemoveElement
  <2>3. b.spend <= budget.spend + 1
    BY <1>1, <1>3 DEF Budgets
  <2>4. b.spend \in Nat /\ budget.spend \in Nat /\ Limit \in Nat
    BY <1>3, CostAssumption DEF Budgets
  <2>5. QED
    BY <1>2, <2>2, <2>3, <2>4, BusyFinite DEF SpendInv
<1>8. QED
  BY <1>5, <1>6, <1>7

LEMMA CleanStep ==
  ASSUME BudgetInv, CleanUp
  PROVE  BudgetInv'
<1> USE DEF BudgetInv, BudgetTypeOK
<1>1. /\ usages' \subseteq usages /\ UNCHANGED <<budget, payer, now>>
      /\ dropped' = (dropped \/ \E u \in usages \ usages' : u.follows = budget.resets)
  BY DEF CleanUp, Locks
<1>2. IsFiniteSet(usages')
  BY <1>1, FS_Subset
<1>3. BudgetTypeOK' /\ SpendInv'
  BY <1>1, <1>2 DEF SpendInv, Busy
<1>4. Current' \subseteq Current /\ (dropped' \/ Current' = Current)
  BY <1>1 DEF Current
<1>5. dropped => dropped'
  BY <1>1
<1>6. dropped' \/ budget'.spend = Cardinality(Current')
  BY <1>1, <1>4, <1>5 DEF RecordsInv
<1>7. RecordsInv'
  BY <1>1, <1>4, <1>6 DEF RecordsInv
<1>8. QED
  BY <1>3, <1>7

LEMMA BudgetStep ==
  ASSUME BudgetInv, [CostNext]_costVars
  PROVE  BudgetInv'
<1> USE DEF BudgetInv, BudgetTypeOK
<1>1. ASSUME NEW p \in Payers, CheckBudget(p) PROVE BudgetInv'
  <2>1. /\ payer[p] = "idle" /\ budget.spend < Limit /\ UNCHANGED <<usages, budget, now, dropped>>
        /\ payer' = [payer EXCEPT ![p] = "calling"]
    BY <1>1 DEF CheckBudget
  <2>2. BudgetTypeOK' /\ RecordsInv'
    BY <2>1 DEF RecordsInv, Current
  <2>3. p \notin Busy /\ Busy' = Busy \cup {p} /\ Busy' \subseteq Payers
    BY <2>1 DEF Busy
  <2>4. Cardinality(Busy') <= Cardinality(Payers) /\ Cardinality(Busy') \in Nat
    BY <2>3, CostAssumption, FS_Subset, FS_CardinalityType
  <2>5. SpendInv'
    BY <2>1, <2>4, BusyFinite, CostAssumption DEF SpendInv, Budgets
  <2>6. QED
    BY <2>2, <2>5
<1>2. ASSUME NEW p \in Payers, CallEnds(p) PROVE BudgetInv'
  <2>1. /\ payer[p] = "calling" /\ UNCHANGED <<usages, budget, now, dropped>>
        /\ payer' = [payer EXCEPT ![p] = "recording"]
    BY <1>2 DEF CallEnds, Wants
  <2>2. Busy' = Busy
    BY <2>1 DEF Busy
  <2>3. QED
    BY <2>1, <2>2 DEF RecordsInv, Current, SpendInv
<1>3. ASSUME NEW p \in Payers, RecordUsage(p) PROVE BudgetInv'
  BY <1>3, RecordStep
<1>4. CASE SetBudget
  <2>1. budget' = Renewed /\ dropped' = FALSE /\ UNCHANGED <<usages, payer, now>>
    BY <1>4 DEF SetBudget, Locks
  <2>2. budget' \in Budgets /\ budget'.resets = budget.resets + 1 /\ budget'.spend = 0
    BY <2>1 DEF Renewed, Budgets
  <2>3. Current' = {}
    BY <2>1, <2>2 DEF Current, RecordsInv, Budgets
  <2>4. RecordsInv'
    BY <2>1, <2>2, <2>3, FS_EmptySet DEF RecordsInv, Budgets
  <2>5. SpendInv'
    BY <2>1, <2>2, BusyFinite, CostAssumption DEF SpendInv, Busy
  <2>6. QED
    BY <2>1, <2>2, <2>4, <2>5
<1>5. CASE CleanUp
  BY <1>5, CleanStep
<1>6. ASSUME UNCHANGED <<usages, budget, payer, dropped>>, now' \in Int PROVE BudgetInv'
  BY <1>6 DEF RecordsInv, Current, SpendInv, Busy
<1>7. CASE CostTick
  BY <1>6, <1>7 DEF CostTick
<1>8. ASSUME NEW a \in Advisors, Advise(a) PROVE BudgetInv'
  BY <1>6, <1>8 DEF Advise
<1>9. ASSUME NEW w \in {Owner, Cleaner}, OwnerOrCleaner(w) PROVE BudgetInv'
  BY <1>6, <1>9 DEF OwnerOrCleaner, Wants
<1>10. CASE UNCHANGED costVars
  BY <1>6, <1>10 DEF costVars
<1>11. QED
  BY <1>1, <1>2, <1>3, <1>4, <1>5, <1>7, <1>8, <1>9, <1>10 DEF CostNext

(* A budget has spent what is on record, and callers at once exceed it by   *)
(* less than one call each.                                                 *)
THEOREM BudgetCorrect == CostSpec => []BudgetIsTrue
<1>1. CostAtRest => BudgetInv
  <2> SUFFICES ASSUME CostAtRest PROVE BudgetInv
    OBVIOUS
  <2>1. usages = {} /\ budget.spend = 0 /\ budget \in Budgets /\ now \in Int
    BY DEF CostAtRest, Budgets
  <2>2. BudgetTypeOK
    BY <2>1, FS_EmptySet DEF CostAtRest, BudgetTypeOK
  <2>3. RecordsInv
    BY <2>1, FS_EmptySet DEF RecordsInv, Current
  <2>4. SpendInv
    <3>1. Busy = {}
      BY DEF CostAtRest, Busy
    <3>2. QED
      BY <2>1, <3>1, FS_EmptySet, BusyFinite, CostAssumption DEF SpendInv
  <2>5. QED
    BY <2>2, <2>3, <2>4 DEF BudgetInv
<1>2. BudgetInv /\ [CostNext]_costVars => BudgetInv'
  BY BudgetStep
<1>3. BudgetInv => BudgetIsTrue
  BY DEF BudgetInv, RecordsInv, SpendInv, Current, BudgetIsTrue
<1>4. QED
  BY <1>1, <1>2, <1>3, PTL DEF CostSpec
-----------------------------------------------------------------------------
(* The execution manager. *)
(* Only ended executions are stale, so the clean-up spares running ones. *)
StaleInv == \A id \in stale : executions[id] \in Ended

(* A set without finite bound has no meaningful cardinality. *)
BoundInv == IsFiniteSet(Running) /\ ActiveBounded

(* An id that was never started has no entry and was never cancelled. *)
FreshInv == \A id \in Ids : owner[id] = "none" => /\ executions[id] = Absent
                                                 /\ id \notin told

ExecInv == TypeOK /\ StaleInv /\ BoundInv /\ FreshInv /\ CancelHolds /\ NoLeakedSlot

-----------------------------------------------------------------------------
(* Fewer running executions are still within the bound. *)
LEMMA FewerRunning ==
  ASSUME TypeOK, BoundInv, Running' \subseteq Running
  PROVE  BoundInv'
<1>1. IsFiniteSet(Running') /\ Cardinality(Running') <= Cardinality(Running)
  BY FS_Subset DEF BoundInv
<1>2. Cardinality(Running) \in Nat /\ Cardinality(Running') \in Nat
  BY <1>1, FS_CardinalityType DEF BoundInv
<1>3. QED
  BY <1>1, <1>2, EMAssumption DEF BoundInv, ActiveBounded

(* StartExecution adds one running execution below the limit. *)
LEMMA OneMoreRunning ==
  ASSUME ExecInv, NEW id \in Ids, StartExecution(id)
  PROVE  /\ id \notin Running
         /\ Running' = Running \union {id}
         /\ BoundInv'
<1>1. id \notin Running
  BY DEF StartExecution, ExecInv, FreshInv, Running, Absent
<1>2. Running' = Running \union {id}
  BY DEF StartExecution, ExecInv, TypeOK, Running
<1>3. IsFiniteSet(Running') /\ Cardinality(Running') = Cardinality(Running) + 1
  BY <1>1, <1>2, FS_AddElement DEF ExecInv, BoundInv
<1>4. Cardinality(Running) \in Nat /\ Cardinality(Running) < MaxActive
  BY FS_CardinalityType DEF ExecInv, BoundInv, StartExecution
<1>5. QED
  BY <1>1, <1>2, <1>3, <1>4, EMAssumption DEF BoundInv, ActiveBounded

(* No other step adds to the running executions. *)
LEMMA NoOtherStart ==
  ASSUME ExecInv, [Next]_vars, \A id \in Ids : ~StartExecution(id)
  PROVE  Running' \subseteq Running
<1>1. ASSUME NEW id \in Ids, UpdateActivity(id)  PROVE Running' \subseteq Running
  BY <1>1 DEF UpdateActivity, vars, Running
<1>2. ASSUME NEW id \in Ids, CompleteExecution(id)  PROVE Running' \subseteq Running
  BY <1>2 DEF CompleteExecution, ExecInv, TypeOK, Running
<1>3. ASSUME NEW id \in Ids, CancelExecution(id)  PROVE Running' \subseteq Running
  BY <1>3 DEF CancelExecution, ExecInv, TypeOK, Running
<1>4. ASSUME NEW id \in Ids, Deadline(id) \/ Age(id)  PROVE Running' \subseteq Running
  BY <1>4 DEF Deadline, Age, Running
<1>5. CASE Cleanup
  BY <1>5 DEF Cleanup, Running, Absent
<1>6. CASE Stop
  BY <1>6 DEF Stop, Running
<1>7. CASE UNCHANGED vars
  BY <1>7 DEF vars, Running
<1>8. QED
  BY <1>1, <1>2, <1>3, <1>4, <1>5, <1>6, <1>7 DEF Next

-----------------------------------------------------------------------------
LEMMA InitExecInv == Init => ExecInv
<1> SUFFICES ASSUME Init PROVE ExecInv
  OBVIOUS
<1>1. Running = {}
  BY DEF Init, Running, Absent
<1>2. BoundInv
  BY <1>1, FS_EmptySet, EMAssumption DEF BoundInv, ActiveBounded
<1>3. QED
  BY <1>1, <1>2 DEF Init, ExecInv, TypeOK, StaleInv, FreshInv, CancelHolds,
                    NoLeakedSlot, Entry, Running

LEMMA StepExecInv == ExecInv /\ [Next]_vars => ExecInv'
<1> SUFFICES ASSUME ExecInv, [Next]_vars
             PROVE  ExecInv'
  OBVIOUS
<1>1. BoundInv'
  <2>1. CASE \E id \in Ids : StartExecution(id)
    BY <2>1, OneMoreRunning
  <2>2. CASE \A id \in Ids : ~StartExecution(id)
    BY <2>2, NoOtherStart, FewerRunning DEF ExecInv
  <2>3. QED
    BY <2>1, <2>2
<1> DEFINE Rest == TypeOK /\ StaleInv /\ FreshInv /\ CancelHolds /\ NoLeakedSlot
<1> USE DEF ExecInv, TypeOK, StaleInv, FreshInv, CancelHolds, NoLeakedSlot,
            Running, Entry, Ended, Absent
<1>2. Rest'
  <2>1. ASSUME NEW id \in Ids, StartExecution(id)  PROVE Rest'
    <3>1. executions[id] = Absent /\ id \notin told
      BY <2>1 DEF StartExecution
    <3>2. TypeOK' /\ FreshInv' /\ NoLeakedSlot'
      BY <2>1 DEF StartExecution
    <3>3. StaleInv' /\ CancelHolds'
      BY <2>1, <3>1 DEF StartExecution
    <3>4. QED
      BY <3>2, <3>3
  <2>2. ASSUME NEW id \in Ids, UpdateActivity(id)  PROVE Rest'
    BY <2>2 DEF UpdateActivity, vars
  <2>3. ASSUME NEW id \in Ids, CompleteExecution(id)  PROVE Rest'
    <3>1. CASE executions[id] = Absent
      BY <2>3, <3>1 DEF CompleteExecution
    <3>2. CASE executions[id] # Absent
      BY <2>3, <3>2 DEF CompleteExecution
    <3>3. QED
      BY <3>1, <3>2
  <2>4. ASSUME NEW id \in Ids, CancelExecution(id)  PROVE Rest'
    BY <2>4 DEF CancelExecution
  <2>5. ASSUME NEW id \in Ids, Deadline(id)  PROVE Rest'
    BY <2>5 DEF Deadline
  <2>6. ASSUME NEW id \in Ids, Age(id)  PROVE Rest'
    BY <2>6 DEF Age
  <2>7. CASE Cleanup
    BY <2>7 DEF Cleanup
  <2>8. CASE Stop
    BY <2>8 DEF Stop
  <2>9. CASE UNCHANGED vars
    BY <2>9 DEF vars
  <2>10. QED
    BY <2>1, <2>2, <2>3, <2>4, <2>5, <2>6, <2>7, <2>8, <2>9 DEF Next
<1>3. QED
  BY <1>1, <1>2

LEMMA ExecInductive == Spec => []ExecInv
<1>1. QED
  BY InitExecInv, StepExecInv, PTL DEF Spec

-----------------------------------------------------------------------------
(* Every variable keeps its type, for any set of ids and any limit. *)
THEOREM ExecTypeCorrect == Spec => []TypeOK
<1>1. ExecInv => TypeOK
  BY DEF ExecInv
<1>2. QED
  BY <1>1, ExecInductive, PTL

(* No more than MaxActive executions ever run at once. *)
THEOREM LimitCorrect == Spec => []ActiveBounded
<1>1. ExecInv => ActiveBounded
  BY DEF ExecInv, BoundInv
<1>2. QED
  BY <1>1, ExecInductive, PTL

(* A cancellation that was reported holds for ever. *)
THEOREM CancelCorrect == Spec => []CancelHolds
<1>1. ExecInv => CancelHolds
  BY DEF ExecInv
<1>2. QED
  BY <1>1, ExecInductive, PTL

(* Only an execution whose goroutine still streams holds a slot. *)
THEOREM SlotsCorrect == Spec => []NoLeakedSlot
<1>1. ExecInv => NoLeakedSlot
  BY DEF ExecInv
<1>2. QED
  BY <1>1, ExecInductive, PTL

(* An ended execution stays ended, and in the table until it is stale. *)
THEOREM EndedCorrect == Spec => EndedIsKept
<1> DEFINE Kept == \A id \in Ids : executions[id] \in Ended =>
                      \/ executions'[id] \in Ended
                      \/ executions'[id] = Absent /\ id \in stale
<1>1. ExecInv /\ [Next]_vars => [Kept]_vars
  <2> SUFFICES ASSUME ExecInv, Next PROVE Kept
    BY DEF vars
  <2> USE DEF ExecInv, TypeOK, FreshInv, Entry, Ended, Absent, Running
  <2>1. ASSUME NEW id \in Ids, StartExecution(id)  PROVE Kept
    BY <2>1 DEF StartExecution
  <2>2. ASSUME NEW id \in Ids, UpdateActivity(id)  PROVE Kept
    BY <2>2 DEF UpdateActivity, vars
  <2>3. ASSUME NEW id \in Ids, CompleteExecution(id)  PROVE Kept
    BY <2>3 DEF CompleteExecution
  <2>4. ASSUME NEW id \in Ids, CancelExecution(id)  PROVE Kept
    BY <2>4 DEF CancelExecution
  <2>5. ASSUME NEW id \in Ids, Deadline(id) \/ Age(id)  PROVE Kept
    BY <2>5 DEF Deadline, Age
  <2>6. CASE Cleanup
    BY <2>6 DEF Cleanup
  <2>7. CASE Stop
    BY <2>7 DEF Stop
  <2>8. QED
    BY <2>1, <2>2, <2>3, <2>4, <2>5, <2>6, <2>7 DEF Next
<1>2. QED
  BY <1>1, ExecInductive, PTL DEF Spec, EndedIsKept

(* The running executions behave as the active items of AdmissionControl:   *)
(* starting enters one below the limit, and every other step lets some      *)
(* leave or none.                                                           *)
THEOREM RefinesAdmissionControl == Spec => ImplementsAC
<1>1. Init => AC!ACInit
  BY DEF Init, AC!ACInit, Running, Absent
<1>2. ExecInv /\ [Next]_vars => [AC!ACNext]_Running
  <2> SUFFICES ASSUME ExecInv, [Next]_vars PROVE AC!ACNext
    OBVIOUS
  <2>1. CASE \E id \in Ids : StartExecution(id)
    <3>1. PICK id \in Ids : StartExecution(id)
      BY <2>1
    <3>2. AC!Enter(id)
      BY <3>1, OneMoreRunning
         DEF AC!Enter, StartExecution, AC!Cardinality, Cardinality
    <3>3. QED
      BY <3>2 DEF AC!ACNext
  <2>2. CASE \A id \in Ids : ~StartExecution(id)
    <3>1. Running' \subseteq Running
      BY <2>2, NoOtherStart
    <3>2. Running' = Running \ (Running \ Running')
      BY <3>1
    <3>3. AC!Leave
      BY <3>2 DEF AC!Leave
    <3>4. QED
      BY <3>3 DEF AC!ACNext
  <2>3. QED
    BY <2>1, <2>2
<1>3. QED
  BY <1>1, <1>2, ExecInductive, PTL DEF Spec, ImplementsAC, AC!ACSpec

-----------------------------------------------------------------------------
(* The middlewares.  What a request has cost so far follows from where it   *)
(* is in the chain.                                                         *)
LayerNames == {"cache", "limit", "cost", "retry", "timeout"}
RequestRecords == [at : Nat, going : {"idle", "down", "up", "waiting"}, attempt : Nat,
                   resp : {"none", "answer", "cached", "error", "deadline"},
                   expired : BOOLEAN, calls : Nat, sent : Nat]

LayersTypeOK ==
  /\ layers \in Stacks
  /\ limiter \in [kind : {"bucket", "window"}, n : Nat, age : Nat]
  /\ cacheAge \in Int /\ totalCost \in Nat /\ ticks \in Nat /\ paid \in Nat
  /\ granted \in [0 .. Span - 1 -> Nat]
  /\ request \in [Requesters -> RequestRecords]
  /\ \A c \in Requesters : request[c].at \in 0 .. Len(layers) + 1

(* What a bucket has given since some tick and what it still has, it had or  *)
(* gained; a window has granted at most its own count since it began, and   *)
(* the one before it no more than one may.                                  *)
LimiterInv ==
  /\ limiter.kind = "bucket" => \A k \in 0 .. Span - 1 : granted[k] + limiter.n <= Allowance + Refill * k
  /\ limiter.kind = "window" =>
       /\ limiter.n <= Allowance /\ limiter.age <= Span
       /\ limiter.age = Span => granted[0] = 0
       /\ \A k \in 0 .. Span - 1 : /\ k <= limiter.age => granted[k] <= limiter.n
                                   /\ granted[k] <= limiter.n + Allowance

(* An answer from the cache comes back outside of it. *)
CachedInv ==
  /\ IsFiniteSet(Uncharged)
  /\ \A c \in Requesters : request[c].going = "up" /\ request[c].resp = "cached" =>
       \E j \in Positions("cache") : request[c].at < j

(* Each retry allows one more call of the model. *)
CallsFit(r) ==
  /\ Positions("retry") = {} => /\ r.going \in {"idle", "down"} => r.calls = 0
                                /\ r.calls <= 1 /\ r.going # "waiting"
  /\ \A p \in Positions("retry") :
       /\ r.going = "idle" \/ (r.going = "down" /\ r.at <= p) => r.calls = 0
       /\ r.going = "down" /\ r.at > p => r.calls <= r.attempt /\ r.attempt <= MaxRetries
       /\ r.going = "up" /\ r.at >= p => r.calls <= r.attempt + 1 /\ r.attempt <= MaxRetries
       /\ r.going = "waiting" => r.at = p /\ r.calls <= r.attempt + 1 /\ r.attempt < MaxRetries
       /\ r.calls <= MaxRetries + 1

Owes(r) == r.going = "up" /\ r.resp = "answer" /\ \E i \in Positions("cost") : r.at >= i

CostInv == CostInside => totalCost + Cardinality(Uncharged) = paid

LayersInv == LayersTypeOK /\ LimiterInv /\ CachedInv /\ CostInv /\ \A c \in Requesters : CallsFit(request[c])

(* A layer has one place in the chain. *)
LEMMA OnePosition ==
  ASSUME LayersTypeOK
  PROVE  /\ layers \in Seq(LayerNames) /\ Len(layers) \in Nat
         /\ \A l : Positions(l) \subseteq 1 .. Len(layers)
         /\ \A l : \A i, j \in Positions(l) : i = j
         /\ \A c \in Requesters : \A l \in LayerNames :
              Layer(c) = l <=> request[c].at \in Positions(l)
<1>1. layers \in Seq(LayerNames) /\ \A i, j \in DOMAIN layers : layers[i] = layers[j] => i = j
  BY MWAssumption DEF LayersTypeOK, LayerNames
<1>2. Len(layers) \in Nat /\ DOMAIN layers = 1 .. Len(layers)
  BY <1>1
<1>3. \A c \in Requesters : \A l \in LayerNames : Layer(c) = l <=> request[c].at \in Positions(l)
  BY <1>1, <1>2 DEF Layer, Positions, LayerNames
<1>4. QED
  BY <1>1, <1>2, <1>3 DEF Positions

(* A step of one request. *)
Granting == /\ limiter \in [kind : {"bucket", "window"}, n : Nat, age : Nat]
            /\ granted \in [0 .. Span - 1 -> Nat] /\ LimiterInv
LEMMA RequestStep ==
  ASSUME LayersInv, NEW c \in Requesters, NEW r \in RequestRecords, Turns(c, r),
         UNCHANGED <<layers, ticks>>, UNCHANGED <<limiter, granted>> \/ Granting',
         cacheAge' \in Int, totalCost' \in Nat, paid' \in Nat,
         r.at \in 0 .. Len(layers) + 1,
         r.going = "up" /\ r.resp = "cached" => \E j \in Positions("cache") : r.at < j,
         CostInside => totalCost' + (IF Owes(r) THEN 1 ELSE 0) - paid'
                       = totalCost + (IF Owes(request[c]) THEN 1 ELSE 0) - paid,
         CallsFit(r)
  PROVE  LayersInv'
<1>1. /\ LayersTypeOK /\ LimiterInv /\ CachedInv /\ CostInv /\ \A d \in Requesters : CallsFit(request[d])
      /\ request' = [request EXCEPT ![c] = r]
  BY DEF LayersInv, Turns
<1>2. request'[c] = r /\ (\A d \in Requesters \ {c} : request'[d] = request[d])
      /\ request' \in [Requesters -> RequestRecords]
  BY <1>1 DEF LayersTypeOK
<1>4. Granting'
  BY <1>1 DEF LimiterInv, LayersTypeOK, Granting
<1>3. LayersTypeOK'
  BY <1>1, <1>2, <1>4 DEF LayersTypeOK, Granting
<1>5. \A l : Positions(l)' = Positions(l)
  BY DEF Positions
<1>6. /\ Uncharged' \ {c} = Uncharged \ {c}
      /\ c \in Uncharged' <=> Owes(r)
      /\ c \in Uncharged <=> Owes(request[c])
  BY <1>2, <1>5 DEF Uncharged, Owes
<1>7. /\ IsFiniteSet(Uncharged) /\ IsFiniteSet(Uncharged \ {c})
      /\ Cardinality(Uncharged) = Cardinality(Uncharged \ {c}) + (IF c \in Uncharged THEN 1 ELSE 0)
  <2>1. IsFiniteSet(Uncharged) /\ Cardinality(Uncharged) \in Nat
    BY <1>1, FS_CardinalityType DEF CachedInv
  <2>2. /\ IsFiniteSet(Uncharged \ {c})
        /\ c \in Uncharged => Cardinality(Uncharged \ {c}) = Cardinality(Uncharged) - 1
    BY <2>1, FS_RemoveElement
  <2>3. c \notin Uncharged => Uncharged \ {c} = Uncharged
    OBVIOUS
  <2>4. CASE c \in Uncharged
    BY <2>1, <2>2, <2>4
  <2>5. CASE c \notin Uncharged
    <3>1. IsFiniteSet(Uncharged \ {c}) /\ Cardinality(Uncharged \ {c}) = Cardinality(Uncharged)
      BY <2>1, <2>3, <2>5, Zenon
    <3>2. QED
      BY <2>1, <2>5, <3>1
  <2>6. QED
    BY <2>4, <2>5
<1>8. /\ IsFiniteSet(Uncharged')
      /\ Cardinality(Uncharged') = Cardinality(Uncharged \ {c}) + (IF c \in Uncharged' THEN 1 ELSE 0)
  <2>1. CASE c \in Uncharged'
    <3>1. Uncharged' = (Uncharged \ {c}) \cup {c}
      BY <1>6, <2>1
    <3>2. QED
      BY <1>7, <2>1, <3>1, FS_AddElement
  <2>2. CASE c \notin Uncharged'
    <3>1. Uncharged' = Uncharged \ {c}
      BY <1>6, <2>2
    <3>2. QED
      BY <1>7, <2>2, <3>1, FS_CardinalityType
  <2>3. QED
    BY <2>1, <2>2
<1>9. CachedInv'
  BY <1>1, <1>2, <1>5, <1>8 DEF CachedInv
<1>10. CostInv'
  <2>1. CostInside' = CostInside
    BY <1>5 DEF CostInside
  <2>2. Cardinality(Uncharged \ {c}) \in Nat
    BY <1>7, FS_CardinalityType
  <2>a. PICK a \in {0, 1} : a = IF c \in Uncharged THEN 1 ELSE 0
    OBVIOUS
  <2>b. PICK b \in {0, 1} : b = IF c \in Uncharged' THEN 1 ELSE 0
    OBVIOUS
  <2>n. PICK n \in Nat : n = Cardinality(Uncharged \ {c})
    BY <2>2
  <2>3. ASSUME CostInside
        PROVE  totalCost' + Cardinality(Uncharged') = paid'
    <3>1. totalCost + Cardinality(Uncharged) = paid
      BY <1>1, <2>3 DEF CostInv
    <3>2. Cardinality(Uncharged) = n + a /\ Cardinality(Uncharged') = n + b
      BY <1>7, <1>8, <2>a, <2>b, <2>n
    <3>3. totalCost' + b - paid' = totalCost + a - paid
      BY <1>6, <2>3, <2>a, <2>b
    <3>4. totalCost \in Nat /\ totalCost' \in Nat /\ paid \in Nat /\ paid' \in Nat
      BY <1>1 DEF LayersTypeOK
    <3>5. totalCost + (n + a) = paid
      BY <3>1, <3>2
    <3>6. totalCost' + (n + b) = paid'
      <4>1. a \in Nat /\ b \in Nat /\ n \in Nat
        BY <2>a, <2>b, <2>n
      <4>2. QED
        <5>t. PICK t \in Nat : t = totalCost
          BY <3>4
        <5>u. PICK u \in Nat : u = totalCost'
          BY <3>4
        <5>p. PICK p \in Nat : p = paid
          BY <3>4
        <5>v. PICK v \in Nat : v = paid'
          BY <3>4
        <5>1. u + b - v = t + a - p /\ t + (n + a) = p
          BY <3>3, <3>5, <5>t, <5>u, <5>p, <5>v
        <5>2. u + (n + b) = v
          BY <4>1, <5>1
        <5>3. QED
          BY <5>2, <5>u, <5>v
    <3>7. QED
      BY <3>2, <3>6
  <2>4. QED
    BY <2>1, <2>3 DEF CostInv
<1>11. \A d \in Requesters : CallsFit(request[d])'
  <2>1. ASSUME NEW d \in Requesters \ {c}
        PROVE  CallsFit(request[d])'
    BY <1>1, <1>2, <1>5 DEF CallsFit
  <2>2. CallsFit(request[c])'
    BY <1>2, <1>5 DEF CallsFit
  <2>3. QED
    BY <2>1, <2>2
<1>12. QED
  BY <1>3, <1>4, <1>9, <1>10, <1>11 DEF LayersInv, Granting

(* What one layer, or the model, makes of the request of one of them. *)
Placed(q) ==
  /\ q \in RequestRecords /\ q.at \in 0 .. Len(layers) + 1 /\ CallsFit(q)
  /\ Len(layers) \in Nat /\ MaxRetries \in Nat
  /\ q.going = "up" /\ q.resp = "cached" => \E j \in Positions("cache") : q.at < j
  /\ \A l, m \in LayerNames : l # m => Positions(l) \cap Positions(m) = {}
  /\ \A l \in LayerNames : Positions(l) \subseteq 1 .. Len(layers) /\ \A i, j \in Positions(l) : i = j

LEMMA WhereItIs ==
  ASSUME LayersInv, NEW c \in Requesters
  PROVE  /\ Placed(request[c])
         /\ \A l \in LayerNames : Layer(c) = l <=> request[c].at \in Positions(l)
<1>1. \A l, m \in LayerNames : l # m => Positions(l) \cap Positions(m) = {}
  BY DEF Positions
<1>2. LayersTypeOK /\ CachedInv /\ CallsFit(request[c]) /\ MaxRetries \in Nat
  BY MWAssumption DEF LayersInv
<1>3. QED
  BY <1>1, <1>2, OnePosition DEF LayersTypeOK, CachedInv, Placed

LEMMA SendStep ==
  ASSUME LayersInv, NEW c \in Requesters, SendRequest(c)
  PROVE  LayersInv'
<1>q. PICK q : q = request[c]
  BY Zenon
<1>1. Placed(q)
  BY <1>q, WhereItIs
<1>2. UNCHANGED <<layers, limiter, ticks, granted, totalCost, cacheAge, paid>>
      /\ cacheAge \in Int /\ totalCost \in Nat /\ paid \in Nat
  BY DEF SendRequest, LayersInv, LayersTypeOK
<1>3. ASSUME Turns(c, [NoRequest EXCEPT !.at = 1, !.going = "down", !.sent = q.sent + 1]), q.going = "idle"
      PROVE  LayersInv'
  <2>r. PICK r : r = [NoRequest EXCEPT !.at = 1, !.going = "down", !.sent = q.sent + 1]
    BY Zenon
  <2>g. q.going = "idle"
    BY <1>3, <1>q, WhereItIs DEF Going, LayerNames
  <2>1. r = [at |-> 1, going |-> "down", attempt |-> 0, resp |-> "none",
             expired |-> FALSE, calls |-> 0, sent |-> q.sent + 1]
    BY <1>1, <2>r DEF Placed, RequestRecords, NoRequest
  <2>2. /\ r \in RequestRecords /\ r.at = 1 /\ r.going = "down" /\ r.attempt = 0
        /\ r.resp = "none" /\ r.calls = 0 /\ r.at \in 0 .. Len(layers) + 1
    BY <1>1, <2>g, <2>1 DEF Placed, RequestRecords, LayerNames
  <2>3. /\ r.going = "up" /\ r.resp = "cached" => \E j \in Positions("cache") : r.at < j
        /\ ~Owes(r) /\ ~Owes(q)
    BY <1>1, <2>g, <2>2 DEF Placed, Owes, LayerNames, RequestRecords
  <2>4. CallsFit(r)
    BY <1>1, <2>g, <2>2 DEF Placed, CallsFit, RequestRecords, LayerNames
  <2>5. QED
    BY <1>2, <1>3, <1>q, <2>g, <2>r, <2>2, <2>3, <2>4, RequestStep
<1>4. QED
  BY <1>q, <1>3 DEF SendRequest

LEMMA LookUpStep ==
  ASSUME LayersInv, NEW c \in Requesters, LookUp(c)
  PROVE  LayersInv'
<1>q. PICK q : q = request[c]
  BY Zenon
<1>1. Placed(q)
  BY <1>q, WhereItIs
<1>2. UNCHANGED <<layers, limiter, ticks, granted, totalCost, cacheAge, paid>>
      /\ cacheAge \in Int /\ totalCost \in Nat /\ paid \in Nat
  BY DEF LookUp, LayersInv, LayersTypeOK
<1>3. ASSUME Going(c, "down", "cache"), Turns(c, Back(q, "cached"))
      PROVE  LayersInv'
  <2>r. PICK r : r = Back(q, "cached")
    BY Zenon
  <2>g. q.going = "down" /\ q.at \in Positions("cache")
    BY <1>3, <1>q, WhereItIs DEF Going, LayerNames
  <2>1. r = [at |-> q.at - 1, going |-> "up", attempt |-> q.attempt, resp |-> "cached",
             expired |-> q.expired, calls |-> q.calls, sent |-> q.sent]
    BY <1>1, <2>r DEF Placed, RequestRecords, Back, Outer
  <2>2. /\ r \in RequestRecords /\ r.at = q.at - 1 /\ r.going = "up" /\ r.attempt = q.attempt
        /\ r.resp = "cached" /\ r.calls = q.calls /\ r.at \in 0 .. Len(layers) + 1
    BY <1>1, <2>g, <2>1 DEF Placed, RequestRecords, LayerNames
  <2>3. /\ r.going = "up" /\ r.resp = "cached" => \E j \in Positions("cache") : r.at < j
        /\ ~Owes(r) /\ ~Owes(q)
    BY <1>1, <2>g, <2>2 DEF Placed, Owes, LayerNames, RequestRecords
  <2>4. CallsFit(r)
    BY <1>1, <2>g, <2>2 DEF Placed, CallsFit, RequestRecords, LayerNames
  <2>5. QED
    BY <1>2, <1>3, <1>q, <2>g, <2>r, <2>2, <2>3, <2>4, RequestStep
<1>4. ASSUME Going(c, "down", "cache"), Turns(c, Inner(q))
      PROVE  LayersInv'
  <2>r. PICK r : r = Inner(q)
    BY Zenon
  <2>g. q.going = "down" /\ q.at \in Positions("cache")
    BY <1>4, <1>q, WhereItIs DEF Going, LayerNames
  <2>1. r = [at |-> q.at + 1, going |-> q.going, attempt |-> q.attempt, resp |-> q.resp,
             expired |-> q.expired, calls |-> q.calls, sent |-> q.sent]
    BY <1>1, <2>r DEF Placed, RequestRecords, Inner
  <2>2. /\ r \in RequestRecords /\ r.at = q.at + 1 /\ r.going = q.going /\ r.attempt = q.attempt
        /\ r.resp = q.resp /\ r.calls = q.calls /\ r.at \in 0 .. Len(layers) + 1
    BY <1>1, <2>g, <2>1 DEF Placed, RequestRecords, LayerNames
  <2>3. /\ r.going = "up" /\ r.resp = "cached" => \E j \in Positions("cache") : r.at < j
        /\ ~Owes(r) /\ ~Owes(q)
    BY <1>1, <2>g, <2>2 DEF Placed, Owes, LayerNames, RequestRecords
  <2>4. CallsFit(r)
    BY <1>1, <2>g, <2>2 DEF Placed, CallsFit, RequestRecords, LayerNames
  <2>5. QED
    BY <1>2, <1>4, <1>q, <2>g, <2>r, <2>2, <2>3, <2>4, RequestStep
<1>5. QED
  BY <1>q, <1>3, <1>4 DEF LookUp

LEMMA StoreStep ==
  ASSUME LayersInv, NEW c \in Requesters, Store(c)
  PROVE  LayersInv'
<1>q. PICK q : q = request[c]
  BY Zenon
<1>1. Placed(q)
  BY <1>q, WhereItIs
<1>2. UNCHANGED <<layers, limiter, ticks, granted, totalCost, paid>>
      /\ cacheAge \in Int /\ totalCost \in Nat /\ paid \in Nat
  BY DEF Store, LayersInv, LayersTypeOK
<1>3. ASSUME Going(c, "up", "cache"), Turns(c, Outer(q)), cacheAge' \in Int
      PROVE  LayersInv'
  <2>r. PICK r : r = Outer(q)
    BY Zenon
  <2>g. q.going = "up" /\ q.at \in Positions("cache")
    BY <1>3, <1>q, WhereItIs DEF Going, LayerNames
  <2>1. r = [at |-> q.at - 1, going |-> q.going, attempt |-> q.attempt, resp |-> q.resp,
             expired |-> q.expired, calls |-> q.calls, sent |-> q.sent]
    BY <1>1, <2>r DEF Placed, RequestRecords, Outer
  <2>2. /\ r \in RequestRecords /\ r.at = q.at - 1 /\ r.going = q.going /\ r.attempt = q.attempt
        /\ r.resp = q.resp /\ r.calls = q.calls /\ r.at \in 0 .. Len(layers) + 1
    BY <1>1, <2>g, <2>1 DEF Placed, RequestRecords, LayerNames
  <2>3. /\ r.going = "up" /\ r.resp = "cached" => \E j \in Positions("cache") : r.at < j
        /\ Owes(r) <=> Owes(q)
    BY <1>1, <2>g, <2>2 DEF Placed, Owes, LayerNames, RequestRecords
  <2>4. CallsFit(r)
    BY <1>1, <2>g, <2>2 DEF Placed, CallsFit, RequestRecords, LayerNames
  <2>5. QED
    BY <1>2, <1>3, <1>q, <2>g, <2>r, <2>2, <2>3, <2>4, RequestStep
<1>4. QED
  BY <1>q, <1>2, <1>3 DEF Store

LEMMA PassStep ==
  ASSUME LayersInv, NEW c \in Requesters, Pass(c)
  PROVE  LayersInv'
<1>q. PICK q : q = request[c]
  BY Zenon
<1>1. Placed(q)
  BY <1>q, WhereItIs
<1>2. UNCHANGED <<layers, limiter, ticks, granted, totalCost, cacheAge, paid>>
      /\ cacheAge \in Int /\ totalCost \in Nat /\ paid \in Nat
  BY DEF Pass, LayersInv, LayersTypeOK
<1>3. ASSUME Going(c, "up", "limit"), Turns(c, Outer(q))
      PROVE  LayersInv'
  <2>r. PICK r : r = Outer(q)
    BY Zenon
  <2>g. q.going = "up" /\ q.at \in Positions("limit")
    BY <1>3, <1>q, WhereItIs DEF Going, LayerNames
  <2>1. r = [at |-> q.at - 1, going |-> q.going, attempt |-> q.attempt, resp |-> q.resp,
             expired |-> q.expired, calls |-> q.calls, sent |-> q.sent]
    BY <1>1, <2>r DEF Placed, RequestRecords, Outer
  <2>2. /\ r \in RequestRecords /\ r.at = q.at - 1 /\ r.going = q.going /\ r.attempt = q.attempt
        /\ r.resp = q.resp /\ r.calls = q.calls /\ r.at \in 0 .. Len(layers) + 1
    BY <1>1, <2>g, <2>1 DEF Placed, RequestRecords, LayerNames
  <2>3. /\ r.going = "up" /\ r.resp = "cached" => \E j \in Positions("cache") : r.at < j
        /\ Owes(r) <=> Owes(q)
    BY <1>1, <2>g, <2>2 DEF Placed, Owes, LayerNames, RequestRecords
  <2>4. CallsFit(r)
    BY <1>1, <2>g, <2>2 DEF Placed, CallsFit, RequestRecords, LayerNames
  <2>5. QED
    BY <1>2, <1>3, <1>q, <2>g, <2>r, <2>2, <2>3, <2>4, RequestStep
<1>4. ASSUME Going(c, "down", "cost"), Turns(c, Inner(q))
      PROVE  LayersInv'
  <2>r. PICK r : r = Inner(q)
    BY Zenon
  <2>g. q.going = "down" /\ q.at \in Positions("cost")
    BY <1>4, <1>q, WhereItIs DEF Going, LayerNames
  <2>1. r = [at |-> q.at + 1, going |-> q.going, attempt |-> q.attempt, resp |-> q.resp,
             expired |-> q.expired, calls |-> q.calls, sent |-> q.sent]
    BY <1>1, <2>r DEF Placed, RequestRecords, Inner
  <2>2. /\ r \in RequestRecords /\ r.at = q.at + 1 /\ r.going = q.going /\ r.attempt = q.attempt
        /\ r.resp = q.resp /\ r.calls = q.calls /\ r.at \in 0 .. Len(layers) + 1
    BY <1>1, <2>g, <2>1 DEF Placed, RequestRecords, LayerNames
  <2>3. /\ r.going = "up" /\ r.resp = "cached" => \E j \in Positions("cache") : r.at < j
        /\ ~Owes(r) /\ ~Owes(q)
    BY <1>1, <2>g, <2>2 DEF Placed, Owes, LayerNames, RequestRecords
  <2>4. CallsFit(r)
    BY <1>1, <2>g, <2>2 DEF Placed, CallsFit, RequestRecords, LayerNames
  <2>5. QED
    BY <1>2, <1>4, <1>q, <2>g, <2>r, <2>2, <2>3, <2>4, RequestStep
<1>5. ASSUME Going(c, "down", "retry"), Turns(c, [Inner(q) EXCEPT !.attempt = 0])
      PROVE  LayersInv'
  <2>r. PICK r : r = [Inner(q) EXCEPT !.attempt = 0]
    BY Zenon
  <2>g. q.going = "down" /\ q.at \in Positions("retry")
    BY <1>5, <1>q, WhereItIs DEF Going, LayerNames
  <2>1. r = [at |-> q.at + 1, going |-> q.going, attempt |-> 0, resp |-> q.resp,
             expired |-> q.expired, calls |-> q.calls, sent |-> q.sent]
    BY <1>1, <2>r DEF Placed, RequestRecords, Inner
  <2>2. /\ r \in RequestRecords /\ r.at = q.at + 1 /\ r.going = q.going /\ r.attempt = 0
        /\ r.resp = q.resp /\ r.calls = q.calls /\ r.at \in 0 .. Len(layers) + 1
    BY <1>1, <2>g, <2>1 DEF Placed, RequestRecords, LayerNames
  <2>3. /\ r.going = "up" /\ r.resp = "cached" => \E j \in Positions("cache") : r.at < j
        /\ ~Owes(r) /\ ~Owes(q)
    BY <1>1, <2>g, <2>2 DEF Placed, Owes, LayerNames, RequestRecords
  <2>4. CallsFit(r)
    BY <1>1, <2>g, <2>2 DEF Placed, CallsFit, RequestRecords, LayerNames
  <2>5. QED
    BY <1>2, <1>5, <1>q, <2>g, <2>r, <2>2, <2>3, <2>4, RequestStep
<1>6. ASSUME Going(c, "down", "timeout"), Turns(c, [Inner(q) EXCEPT !.expired = FALSE])
      PROVE  LayersInv'
  <2>r. PICK r : r = [Inner(q) EXCEPT !.expired = FALSE]
    BY Zenon
  <2>g. q.going = "down" /\ q.at \in Positions("timeout")
    BY <1>6, <1>q, WhereItIs DEF Going, LayerNames
  <2>1. r = [at |-> q.at + 1, going |-> q.going, attempt |-> q.attempt, resp |-> q.resp,
             expired |-> FALSE, calls |-> q.calls, sent |-> q.sent]
    BY <1>1, <2>r DEF Placed, RequestRecords, Inner
  <2>2. /\ r \in RequestRecords /\ r.at = q.at + 1 /\ r.going = q.going /\ r.attempt = q.attempt
        /\ r.resp = q.resp /\ r.calls = q.calls /\ r.at \in 0 .. Len(layers) + 1
    BY <1>1, <2>g, <2>1 DEF Placed, RequestRecords, LayerNames
  <2>3. /\ r.going = "up" /\ r.resp = "cached" => \E j \in Positions("cache") : r.at < j
        /\ ~Owes(r) /\ ~Owes(q)
    BY <1>1, <2>g, <2>2 DEF Placed, Owes, LayerNames, RequestRecords
  <2>4. CallsFit(r)
    BY <1>1, <2>g, <2>2 DEF Placed, CallsFit, RequestRecords, LayerNames
  <2>5. QED
    BY <1>2, <1>6, <1>q, <2>g, <2>r, <2>2, <2>3, <2>4, RequestStep
<1>7. ASSUME Going(c, "up", "timeout"), Turns(c, [Outer(q) EXCEPT !.expired = FALSE])
      PROVE  LayersInv'
  <2>r. PICK r : r = [Outer(q) EXCEPT !.expired = FALSE]
    BY Zenon
  <2>g. q.going = "up" /\ q.at \in Positions("timeout")
    BY <1>7, <1>q, WhereItIs DEF Going, LayerNames
  <2>1. r = [at |-> q.at - 1, going |-> q.going, attempt |-> q.attempt, resp |-> q.resp,
             expired |-> FALSE, calls |-> q.calls, sent |-> q.sent]
    BY <1>1, <2>r DEF Placed, RequestRecords, Outer
  <2>2. /\ r \in RequestRecords /\ r.at = q.at - 1 /\ r.going = q.going /\ r.attempt = q.attempt
        /\ r.resp = q.resp /\ r.calls = q.calls /\ r.at \in 0 .. Len(layers) + 1
    BY <1>1, <2>g, <2>1 DEF Placed, RequestRecords, LayerNames
  <2>3. /\ r.going = "up" /\ r.resp = "cached" => \E j \in Positions("cache") : r.at < j
        /\ Owes(r) <=> Owes(q)
    BY <1>1, <2>g, <2>2 DEF Placed, Owes, LayerNames, RequestRecords
  <2>4. CallsFit(r)
    BY <1>1, <2>g, <2>2 DEF Placed, CallsFit, RequestRecords, LayerNames
  <2>5. QED
    BY <1>2, <1>7, <1>q, <2>g, <2>r, <2>2, <2>3, <2>4, RequestStep
<1>8. QED
  BY <1>q, <1>3, <1>4, <1>5, <1>6, <1>7 DEF Pass

LEMMA ModelStep ==
  ASSUME LayersInv, NEW c \in Requesters, ModelResponds(c)
  PROVE  LayersInv'
<1>q. PICK q : q = request[c]
  BY Zenon
<1>1. Placed(q)
  BY <1>q, WhereItIs
<1>2. UNCHANGED <<layers, limiter, ticks, granted, totalCost, cacheAge>>
      /\ cacheAge \in Int /\ totalCost \in Nat /\ paid \in Nat
  BY DEF ModelResponds, LayersInv, LayersTypeOK
<1>3. ASSUME q.going = "down", q.at = Len(layers) + 1, NEW resp \in {"answer", "error", "deadline"},
             Turns(c, [Back(q, resp) EXCEPT !.calls = @ + 1]),
             paid' = IF resp = "answer" THEN paid + 1 ELSE paid
      PROVE  LayersInv'
  <2>r. PICK r : r = [Back(q, resp) EXCEPT !.calls = @ + 1]
    BY Zenon
  <2>g. q.going = "down" /\ q.at = Len(layers) + 1
    BY <1>3, <1>q, WhereItIs DEF Going, LayerNames
  <2>1. r = [at |-> q.at - 1, going |-> "up", attempt |-> q.attempt, resp |-> resp,
             expired |-> q.expired, calls |-> q.calls + 1, sent |-> q.sent]
    BY <1>1, <2>r DEF Placed, RequestRecords, Back, Outer
  <2>2. /\ r \in RequestRecords /\ r.at = q.at - 1 /\ r.going = "up" /\ r.attempt = q.attempt
        /\ r.resp = resp /\ r.calls = q.calls + 1 /\ r.at \in 0 .. Len(layers) + 1
    BY <1>1, <2>g, <2>1 DEF Placed, RequestRecords, LayerNames
  <2>3. /\ r.going = "up" /\ r.resp = "cached" => \E j \in Positions("cache") : r.at < j
        /\ CostInside => totalCost' + (IF Owes(r) THEN 1 ELSE 0) - paid'
                       = totalCost + (IF Owes(q) THEN 1 ELSE 0) - paid
        /\ paid' \in Nat
    BY <1>1, <2>g, <2>2, <1>2, <1>3 DEF Placed, Owes, CostInside, LayerNames, RequestRecords
  <2>4. CallsFit(r)
    BY <1>1, <2>g, <2>2 DEF Placed, CallsFit, RequestRecords, LayerNames
  <2>5. /\ CostInside => totalCost' + (IF Owes(r) THEN 1 ELSE 0) - paid'
                          = totalCost + (IF Owes(request[c]) THEN 1 ELSE 0) - paid
        /\ cacheAge' \in Int /\ totalCost' \in Nat /\ paid' \in Nat
    <3>1. CostInside => totalCost' + (IF Owes(r) THEN 1 ELSE 0) - paid'
                          = totalCost + (IF Owes(request[c]) THEN 1 ELSE 0) - paid
      BY <1>q, <2>3, Zenon
    <3>2. cacheAge' \in Int /\ totalCost' \in Nat /\ paid' \in Nat
      <4>1. paid' \in Nat
        BY <2>3, Zenon
      <4>2. cacheAge' \in Int /\ totalCost' \in Nat
        BY <1>2
      <4>3. QED
        BY <4>1, <4>2
    <3>3. QED
      BY <3>1, <3>2
  <2>6. r.going = "up" /\ r.resp = "cached" => \E j \in Positions("cache") : r.at < j
    BY <2>3
  <2>7. UNCHANGED <<layers, ticks>> /\ UNCHANGED <<limiter, granted>> /\ Turns(c, r)
    BY <1>2, <1>3, <2>r
  <2>8. QED
    BY <2>2, <2>4, <2>5, <2>6, <2>7, RequestStep
<1>4. QED
  BY <1>q, <1>3 DEF ModelResponds

LEMMA ChargeStep ==
  ASSUME LayersInv, NEW c \in Requesters, Charge(c)
  PROVE  LayersInv'
<1>q. PICK q : q = request[c]
  BY Zenon
<1>1. Placed(q)
  BY <1>q, WhereItIs
<1>2. UNCHANGED <<layers, limiter, ticks, granted, cacheAge, paid>>
      /\ cacheAge \in Int /\ totalCost \in Nat /\ paid \in Nat
  BY DEF Charge, LayersInv, LayersTypeOK
<1>3. ASSUME Going(c, "up", "cost"), Turns(c, Outer(q)), totalCost' = IF Good(q) THEN totalCost + 1 ELSE totalCost
      PROVE  LayersInv'
  <2>r. PICK r : r = Outer(q)
    BY Zenon
  <2>g. q.going = "up" /\ q.at \in Positions("cost")
    BY <1>3, <1>q, WhereItIs DEF Going, LayerNames
  <2>1. r = [at |-> q.at - 1, going |-> q.going, attempt |-> q.attempt, resp |-> q.resp,
             expired |-> q.expired, calls |-> q.calls, sent |-> q.sent]
    BY <1>1, <2>r DEF Placed, RequestRecords, Outer
  <2>2. /\ r \in RequestRecords /\ r.at = q.at - 1 /\ r.going = q.going /\ r.attempt = q.attempt
        /\ r.resp = q.resp /\ r.calls = q.calls /\ r.at \in 0 .. Len(layers) + 1
    BY <1>1, <2>g, <2>1 DEF Placed, RequestRecords, LayerNames
  <2>3. /\ r.going = "up" /\ r.resp = "cached" => \E j \in Positions("cache") : r.at < j
        /\ CostInside => totalCost' + (IF Owes(r) THEN 1 ELSE 0) - paid'
                       = totalCost + (IF Owes(q) THEN 1 ELSE 0) - paid
        /\ totalCost' \in Nat
    BY <1>1, <2>g, <2>2, <1>2, <1>3 DEF Placed, Owes, CostInside, Good, LayerNames, RequestRecords
  <2>4. CallsFit(r)
    BY <1>1, <2>g, <2>2 DEF Placed, CallsFit, RequestRecords, LayerNames
  <2>5. QED
    BY <1>2, <1>3, <1>q, <2>g, <2>r, <2>2, <2>3, <2>4, RequestStep
<1>4. QED
  BY <1>q, <1>3 DEF Charge

LEMMA RetryStep ==
  ASSUME LayersInv, NEW c \in Requesters, MayRetry(c)
  PROVE  LayersInv'
<1>q. PICK q : q = request[c]
  BY Zenon
<1>1. Placed(q)
  BY <1>q, WhereItIs
<1>2. UNCHANGED <<layers, limiter, ticks, granted, totalCost, cacheAge, paid>>
      /\ cacheAge \in Int /\ totalCost \in Nat /\ paid \in Nat
  BY DEF MayRetry, LayersInv, LayersTypeOK
<1>3. ASSUME Going(c, "up", "retry"), q.resp = "deadline", q.attempt < MaxRetries, Turns(c, [q EXCEPT !.going = "waiting"])
      PROVE  LayersInv'
  <2>r. PICK r : r = [q EXCEPT !.going = "waiting"]
    BY Zenon
  <2>g. q.going = "up" /\ q.at \in Positions("retry") /\ q.resp = "deadline" /\ q.attempt < MaxRetries
    BY <1>3, <1>q, WhereItIs DEF Going, LayerNames
  <2>1. r = [at |-> q.at, going |-> "waiting", attempt |-> q.attempt, resp |-> q.resp,
             expired |-> q.expired, calls |-> q.calls, sent |-> q.sent]
    BY <1>1, <2>r DEF Placed, RequestRecords
  <2>2. /\ r \in RequestRecords /\ r.at = q.at /\ r.going = "waiting" /\ r.attempt = q.attempt
        /\ r.resp = q.resp /\ r.calls = q.calls /\ r.at \in 0 .. Len(layers) + 1
    BY <1>1, <2>g, <2>1 DEF Placed, RequestRecords, LayerNames
  <2>3. /\ r.going = "up" /\ r.resp = "cached" => \E j \in Positions("cache") : r.at < j
        /\ ~Owes(r) /\ ~Owes(q)
    BY <1>1, <2>g, <2>2 DEF Placed, Owes, LayerNames, RequestRecords
  <2>4. CallsFit(r)
    BY <1>1, <2>g, <2>2 DEF Placed, CallsFit, RequestRecords, LayerNames
  <2>5. QED
    BY <1>2, <1>3, <1>q, <2>g, <2>r, <2>2, <2>3, <2>4, RequestStep
<1>4. ASSUME Going(c, "up", "retry"), Turns(c, Outer(q))
      PROVE  LayersInv'
  <2>r. PICK r : r = Outer(q)
    BY Zenon
  <2>g. q.going = "up" /\ q.at \in Positions("retry")
    BY <1>4, <1>q, WhereItIs DEF Going, LayerNames
  <2>1. r = [at |-> q.at - 1, going |-> q.going, attempt |-> q.attempt, resp |-> q.resp,
             expired |-> q.expired, calls |-> q.calls, sent |-> q.sent]
    BY <1>1, <2>r DEF Placed, RequestRecords, Outer
  <2>2. /\ r \in RequestRecords /\ r.at = q.at - 1 /\ r.going = q.going /\ r.attempt = q.attempt
        /\ r.resp = q.resp /\ r.calls = q.calls /\ r.at \in 0 .. Len(layers) + 1
    BY <1>1, <2>g, <2>1 DEF Placed, RequestRecords, LayerNames
  <2>3. /\ r.going = "up" /\ r.resp = "cached" => \E j \in Positions("cache") : r.at < j
        /\ Owes(r) <=> Owes(q)
    BY <1>1, <2>g, <2>2 DEF Placed, Owes, LayerNames, RequestRecords
  <2>4. CallsFit(r)
    BY <1>1, <2>g, <2>2 DEF Placed, CallsFit, RequestRecords, LayerNames
  <2>5. QED
    BY <1>2, <1>4, <1>q, <2>g, <2>r, <2>2, <2>3, <2>4, RequestStep
<1>5. QED
  BY <1>q, <1>3, <1>4 DEF MayRetry

LEMMA WaitStep ==
  ASSUME LayersInv, NEW c \in Requesters, Wait(c)
  PROVE  LayersInv'
<1>q. PICK q : q = request[c]
  BY Zenon
<1>1. Placed(q)
  BY <1>q, WhereItIs
<1>2. UNCHANGED <<layers, limiter, ticks, granted, totalCost, cacheAge, paid>>
      /\ cacheAge \in Int /\ totalCost \in Nat /\ paid \in Nat
  BY DEF Wait, LayersInv, LayersTypeOK
<1>3. ASSUME Going(c, "waiting", "retry"), Turns(c, Back(q, "deadline"))
      PROVE  LayersInv'
  <2>r. PICK r : r = Back(q, "deadline")
    BY Zenon
  <2>g. q.going = "waiting" /\ q.at \in Positions("retry")
    BY <1>3, <1>q, WhereItIs DEF Going, LayerNames
  <2>1. r = [at |-> q.at - 1, going |-> "up", attempt |-> q.attempt, resp |-> "deadline",
             expired |-> q.expired, calls |-> q.calls, sent |-> q.sent]
    BY <1>1, <2>r DEF Placed, RequestRecords, Back, Outer
  <2>2. /\ r \in RequestRecords /\ r.at = q.at - 1 /\ r.going = "up" /\ r.attempt = q.attempt
        /\ r.resp = "deadline" /\ r.calls = q.calls /\ r.at \in 0 .. Len(layers) + 1
    BY <1>1, <2>g, <2>1 DEF Placed, RequestRecords, LayerNames
  <2>3. /\ r.going = "up" /\ r.resp = "cached" => \E j \in Positions("cache") : r.at < j
        /\ ~Owes(r) /\ ~Owes(q)
    BY <1>1, <2>g, <2>2 DEF Placed, Owes, LayerNames, RequestRecords
  <2>4. CallsFit(r)
    BY <1>1, <2>g, <2>2 DEF Placed, CallsFit, RequestRecords, LayerNames
  <2>5. QED
    BY <1>2, <1>3, <1>q, <2>g, <2>r, <2>2, <2>3, <2>4, RequestStep
<1>4. ASSUME Going(c, "waiting", "retry"), Turns(c, [Inner(q) EXCEPT !.going = "down", !.attempt = @ + 1])
      PROVE  LayersInv'
  <2>r. PICK r : r = [Inner(q) EXCEPT !.going = "down", !.attempt = @ + 1]
    BY Zenon
  <2>g. q.going = "waiting" /\ q.at \in Positions("retry")
    BY <1>4, <1>q, WhereItIs DEF Going, LayerNames
  <2>1. r = [at |-> q.at + 1, going |-> "down", attempt |-> q.attempt + 1, resp |-> q.resp,
             expired |-> q.expired, calls |-> q.calls, sent |-> q.sent]
    BY <1>1, <2>r DEF Placed, RequestRecords, Inner
  <2>2. /\ r \in RequestRecords /\ r.at = q.at + 1 /\ r.going = "down" /\ r.attempt = q.attempt + 1
        /\ r.resp = q.resp /\ r.calls = q.calls /\ r.at \in 0 .. Len(layers) + 1
    BY <1>1, <2>g, <2>1 DEF Placed, RequestRecords, LayerNames
  <2>3. /\ r.going = "up" /\ r.resp = "cached" => \E j \in Positions("cache") : r.at < j
        /\ ~Owes(r) /\ ~Owes(q)
    BY <1>1, <2>g, <2>2 DEF Placed, Owes, LayerNames, RequestRecords
  <2>4. CallsFit(r)
    BY <1>1, <2>g, <2>2 DEF Placed, CallsFit, RequestRecords, LayerNames
  <2>5. QED
    BY <1>2, <1>4, <1>q, <2>g, <2>r, <2>2, <2>3, <2>4, RequestStep
<1>5. QED
  BY <1>q, <1>3, <1>4 DEF Wait

LEMMA ReturnedStep ==
  ASSUME LayersInv, NEW c \in Requesters, Returned(c)
  PROVE  LayersInv'
<1>q. PICK q : q = request[c]
  BY Zenon
<1>1. Placed(q)
  BY <1>q, WhereItIs
<1>2. UNCHANGED <<layers, limiter, ticks, granted, totalCost, cacheAge, paid>>
      /\ cacheAge \in Int /\ totalCost \in Nat /\ paid \in Nat
  BY DEF Returned, LayersInv, LayersTypeOK
<1>3. ASSUME q.going = "up", q.at = 0, Turns(c, [NoRequest EXCEPT !.sent = q.sent])
      PROVE  LayersInv'
  <2>r. PICK r : r = [NoRequest EXCEPT !.sent = q.sent]
    BY Zenon
  <2>g. q.going = "up" /\ q.at = 0
    BY <1>3, <1>q, WhereItIs DEF Going, LayerNames
  <2>1. r = [at |-> 0, going |-> "idle", attempt |-> 0, resp |-> "none",
             expired |-> FALSE, calls |-> 0, sent |-> q.sent]
    BY <1>1, <2>r DEF Placed, RequestRecords, NoRequest
  <2>2. /\ r \in RequestRecords /\ r.at = 0 /\ r.going = "idle" /\ r.attempt = 0
        /\ r.resp = "none" /\ r.calls = 0 /\ r.at \in 0 .. Len(layers) + 1
    BY <1>1, <2>g, <2>1 DEF Placed, RequestRecords, LayerNames
  <2>3. /\ r.going = "up" /\ r.resp = "cached" => \E j \in Positions("cache") : r.at < j
        /\ ~Owes(r) /\ ~Owes(q)
    BY <1>1, <2>g, <2>2 DEF Placed, Owes, LayerNames, RequestRecords
  <2>4. CallsFit(r)
    BY <1>1, <2>g, <2>2 DEF Placed, CallsFit, RequestRecords, LayerNames
  <2>5. QED
    BY <1>2, <1>3, <1>q, <2>g, <2>r, <2>2, <2>3, <2>4, RequestStep
<1>4. QED
  BY <1>q, <1>3 DEF Returned

LEMMA DeadlineStep ==
  ASSUME LayersInv, NEW c \in Requesters, DeadlinePasses(c)
  PROVE  LayersInv'
<1>q. PICK q : q = request[c]
  BY Zenon
<1>1. Placed(q)
  BY <1>q, WhereItIs
<1>2. UNCHANGED <<layers, limiter, ticks, granted, totalCost, cacheAge, paid>>
      /\ cacheAge \in Int /\ totalCost \in Nat /\ paid \in Nat
  BY DEF DeadlinePasses, LayersInv, LayersTypeOK
<1>3. ASSUME q.going \in {"down", "waiting"}, Turns(c, [q EXCEPT !.expired = TRUE])
      PROVE  LayersInv'
  <2>r. PICK r : r = [q EXCEPT !.expired = TRUE]
    BY Zenon
  <2>g. q.going \in {"down", "waiting"}
    BY <1>3, <1>q, WhereItIs DEF Going, LayerNames
  <2>1. r = [at |-> q.at, going |-> q.going, attempt |-> q.attempt, resp |-> q.resp,
             expired |-> TRUE, calls |-> q.calls, sent |-> q.sent]
    BY <1>1, <2>r DEF Placed, RequestRecords
  <2>2. /\ r \in RequestRecords /\ r.at = q.at /\ r.going = q.going /\ r.attempt = q.attempt
        /\ r.resp = q.resp /\ r.calls = q.calls /\ r.at \in 0 .. Len(layers) + 1
    BY <1>1, <2>g, <2>1 DEF Placed, RequestRecords, LayerNames
  <2>3. /\ r.going = "up" /\ r.resp = "cached" => \E j \in Positions("cache") : r.at < j
        /\ ~Owes(r) /\ ~Owes(q)
    BY <1>1, <2>g, <2>2 DEF Placed, Owes, LayerNames, RequestRecords
  <2>4. CallsFit(r)
    BY <1>1, <2>g, <2>2 DEF Placed, CallsFit, RequestRecords, LayerNames
  <2>5. QED
    BY <1>2, <1>3, <1>q, <2>g, <2>r, <2>2, <2>3, <2>4, RequestStep
<1>4. QED
  BY <1>q, <1>3 DEF DeadlinePasses

(* The limiter lets a request through, or sends it back. *)
LEMMA TakenFits ==
  ASSUME LayersInv, Allowed(limiter), limiter' = Taken(limiter),
         granted' = [k \in DOMAIN granted |-> granted[k] + 1]
  PROVE  Granting'
<1>1. /\ limiter \in [kind : {"bucket", "window"}, n : Nat, age : Nat] /\ granted \in [0 .. Span - 1 -> Nat]
      /\ LimiterInv /\ Allowance \in Nat \ {0} /\ Refill \in Nat /\ Span \in Nat \ {0}
  BY MWAssumption DEF LayersInv, LayersTypeOK
<1>2. granted' \in [0 .. Span - 1 -> Nat] /\ \A k \in 0 .. Span - 1 : granted'[k] = granted[k] + 1
  BY <1>1
<1>l. PICK l : l = limiter'
  BY Zenon
<1>3. CASE limiter.kind = "bucket"
  <2>1. limiter.n >= 1 /\ l = [limiter EXCEPT !.n = @ - 1]
    BY <1>3, <1>l DEF Allowed, Taken, NewWindow
  <2>2. l \in [kind : {"bucket", "window"}, n : Nat, age : Nat] /\ l.kind = "bucket" /\ l.n = limiter.n - 1
    BY <1>1, <1>3, <2>1
  <2>3. \A k \in 0 .. Span - 1 : granted[k] + limiter.n <= Allowance + Refill * k
    BY <1>1, <1>3 DEF LimiterInv
  <2>4. \A k \in 0 .. Span - 1 : granted'[k] + l.n <= Allowance + Refill * k
    BY <1>1, <1>2, <2>2, <2>3
  <2>5. QED
    BY <1>2, <1>l, <2>2, <2>4 DEF Granting, LimiterInv
<1>4. CASE limiter.kind = "window"
  <2>1. /\ limiter.n <= Allowance /\ limiter.age <= Span
        /\ limiter.age = Span => granted[0] = 0
        /\ \A k \in 0 .. Span - 1 : /\ k <= limiter.age => granted[k] <= limiter.n
                                    /\ granted[k] <= limiter.n + Allowance
    BY <1>1, <1>4 DEF LimiterInv
  <2>2. CASE NewWindow(limiter)
    <3>1. l = [limiter EXCEPT !.n = 1, !.age = 0] /\ limiter.age = Span
      BY <1>1, <1>4, <1>l, <2>1, <2>2 DEF Taken, NewWindow
    <3>2. l \in [kind : {"bucket", "window"}, n : Nat, age : Nat] /\ l.kind = "window" /\ l.n = 1 /\ l.age = 0
      BY <1>1, <1>4, <3>1
    <3>3. /\ \A k \in 0 .. Span - 1 : granted'[k] <= 1 + Allowance
          /\ granted'[0] <= 1
      BY <1>1, <1>2, <2>1, <3>1
    <3>4. \A k \in 0 .. Span - 1 : k <= 0 => k = 0
      OBVIOUS
    <3>5. l.n <= Allowance /\ l.age <= Span /\ l.age # Span
      BY <1>1, <3>2
    <3>6. QED
      BY <1>2, <1>l, <3>2, <3>3, <3>4, <3>5 DEF Granting, LimiterInv
  <2>3. CASE ~NewWindow(limiter)
    <3>1. l = [limiter EXCEPT !.n = @ + 1] /\ limiter.age < Span /\ limiter.n < Allowance
      BY <1>1, <1>4, <1>l, <2>1, <2>3 DEF Taken, NewWindow, Allowed
    <3>2. /\ l \in [kind : {"bucket", "window"}, n : Nat, age : Nat] /\ l.kind = "window"
          /\ l.n = limiter.n + 1 /\ l.age = limiter.age
      <4>1. limiter.n \in Nat /\ limiter.age \in Nat
            /\ limiter = [kind |-> "window", n |-> limiter.n, age |-> limiter.age]
        BY <1>1, <1>4
      <4>2. l = [kind |-> "window", n |-> limiter.n + 1, age |-> limiter.age]
        BY <3>1, <4>1
      <4>3. QED
        BY <4>1, <4>2
    <3>3. \A k \in 0 .. Span - 1 : /\ k <= l.age => granted'[k] <= l.n
                                  /\ granted'[k] <= l.n + Allowance
      BY <1>1, <1>2, <2>1, <3>2
    <3>4. l.n <= Allowance /\ l.age <= Span /\ l.age # Span
      BY <1>1, <3>1, <3>2
    <3>5. QED
      BY <1>2, <1>l, <3>2, <3>3, <3>4 DEF Granting, LimiterInv
  <2>4. QED
    BY <2>2, <2>3
<1>5. QED
  BY <1>1, <1>3, <1>4

LEMMA RationStep ==
  ASSUME LayersInv, NEW c \in Requesters, Ration(c)
  PROVE  LayersInv'
<1>q. PICK q : q = request[c]
  BY Zenon
<1>1. Placed(q)
  BY <1>q, WhereItIs
<1>2. UNCHANGED <<layers, ticks, totalCost, cacheAge, paid>>
      /\ cacheAge \in Int /\ totalCost \in Nat /\ paid \in Nat
  BY DEF Ration, LayersInv, LayersTypeOK
<1>3. ASSUME Going(c, "down", "limit"), Allowed(limiter), limiter' = Taken(limiter),
             granted' = [k \in DOMAIN granted |-> granted[k] + 1], Turns(c, Inner(q))
      PROVE  LayersInv'
  <2>r. PICK r : r = Inner(q)
    BY Zenon
  <2>g. q.going = "down" /\ q.at \in Positions("limit")
    BY <1>3, <1>q, WhereItIs DEF Going, LayerNames
  <2>1. r = [at |-> q.at + 1, going |-> q.going, attempt |-> q.attempt, resp |-> q.resp,
             expired |-> q.expired, calls |-> q.calls, sent |-> q.sent]
    BY <1>1, <2>r DEF Placed, RequestRecords, Inner
  <2>2. /\ r \in RequestRecords /\ r.at = q.at + 1 /\ r.going = q.going /\ r.attempt = q.attempt
        /\ r.resp = q.resp /\ r.calls = q.calls /\ r.at \in 0 .. Len(layers) + 1
    BY <1>1, <2>g, <2>1 DEF Placed, RequestRecords, LayerNames
  <2>3. /\ r.going = "up" /\ r.resp = "cached" => \E j \in Positions("cache") : r.at < j
        /\ ~Owes(r) /\ ~Owes(q)
    BY <1>1, <2>g, <2>2 DEF Placed, Owes, LayerNames, RequestRecords
  <2>4. CallsFit(r)
    BY <1>1, <2>g, <2>2 DEF Placed, CallsFit, RequestRecords, LayerNames
  <2>5. QED
    BY <1>2, <1>3, <1>q, <2>g, <2>r, <2>2, <2>3, <2>4, TakenFits, RequestStep
<1>4. ASSUME Going(c, "down", "limit"), Turns(c, Back(q, "error")), UNCHANGED <<limiter, granted>>
      PROVE  LayersInv'
  <2>r. PICK r : r = Back(q, "error")
    BY Zenon
  <2>g. q.going = "down" /\ q.at \in Positions("limit")
    BY <1>4, <1>q, WhereItIs DEF Going, LayerNames
  <2>1. r = [at |-> q.at - 1, going |-> "up", attempt |-> q.attempt, resp |-> "error",
             expired |-> q.expired, calls |-> q.calls, sent |-> q.sent]
    BY <1>1, <2>r DEF Placed, RequestRecords, Back, Outer
  <2>2. /\ r \in RequestRecords /\ r.at = q.at - 1 /\ r.going = "up" /\ r.attempt = q.attempt
        /\ r.resp = "error" /\ r.calls = q.calls /\ r.at \in 0 .. Len(layers) + 1
    BY <1>1, <2>g, <2>1 DEF Placed, RequestRecords, LayerNames
  <2>3. /\ r.going = "up" /\ r.resp = "cached" => \E j \in Positions("cache") : r.at < j
        /\ ~Owes(r) /\ ~Owes(q)
    BY <1>1, <2>g, <2>2 DEF Placed, Owes, LayerNames, RequestRecords
  <2>4. CallsFit(r)
    BY <1>1, <2>g, <2>2 DEF Placed, CallsFit, RequestRecords, LayerNames
  <2>5. QED
    BY <1>2, <1>4, <1>q, <2>g, <2>r, <2>2, <2>3, <2>4, RequestStep
<1>5. QED
  BY <1>q, <1>3, <1>4 DEF Ration

(* Time passes. *)
LEMMA TickFits ==
  ASSUME LayersInv, MwTick
  PROVE  Granting'
<1>1. /\ limiter \in [kind : {"bucket", "window"}, n : Nat, age : Nat] /\ granted \in [0 .. Span - 1 -> Nat]
      /\ LimiterInv /\ Allowance \in Nat \ {0} /\ Refill \in Nat /\ Span \in Nat \ {0}
  BY MWAssumption DEF LayersInv, LayersTypeOK
<1>2. /\ granted' \in [0 .. Span - 1 -> Nat] /\ granted'[0] = 0
      /\ \A k \in 1 .. Span - 1 : granted'[k] = granted[k - 1] /\ k - 1 \in 0 .. Span - 1
  BY <1>1 DEF MwTick
<1>l. PICK l : l = limiter'
  BY Zenon
<1>3. CASE limiter.kind = "bucket"
  <2>1. l = [limiter EXCEPT !.n = Smaller(Allowance, @ + Refill)]
    BY <1>3, <1>l DEF MwTick
  <2>2. /\ l \in [kind : {"bucket", "window"}, n : Nat, age : Nat] /\ l.kind = "bucket"
        /\ l.n <= limiter.n + Refill /\ l.n <= Allowance
    BY <1>1, <1>3, <2>1 DEF Smaller
  <2>3. \A k \in 0 .. Span - 1 : granted[k] + limiter.n <= Allowance + Refill * k
    BY <1>1, <1>3 DEF LimiterInv
  <2>4. ASSUME NEW k \in 0 .. Span - 1
        PROVE  granted'[k] + l.n <= Allowance + Refill * k
    <3>1. CASE k = 0
      BY <1>1, <1>2, <2>2, <3>1
    <3>2. CASE k # 0
      <4>1. k \in 1 .. Span - 1 /\ k - 1 \in 0 .. Span - 1
        BY <1>1, <3>2
      <4>2. granted[k - 1] + limiter.n <= Allowance + Refill * (k - 1)
        BY <2>3, <4>1
      <4>3. Refill * (k - 1) + Refill = Refill * k /\ Refill * k \in Nat /\ Refill * (k - 1) \in Nat
        BY <1>1, <4>1
      <4>4. granted[k - 1] \in Nat /\ l.n \in Nat /\ limiter.n \in Nat
        BY <1>1, <2>2, <4>1
      <4>5. granted[k - 1] + l.n <= Allowance + Refill * k
        BY <1>1, <2>2, <4>2, <4>3, <4>4
      <4>6. QED
        BY <1>2, <4>1, <4>5
    <3>3. QED
      BY <3>1, <3>2
  <2>5. QED
    BY <1>2, <1>l, <2>2, <2>4 DEF Granting, LimiterInv
<1>4. CASE limiter.kind = "window"
  <2>1. /\ limiter.n <= Allowance /\ limiter.age <= Span
        /\ limiter.age = Span => granted[0] = 0
        /\ \A k \in 0 .. Span - 1 : /\ k <= limiter.age => granted[k] <= limiter.n
                                    /\ granted[k] <= limiter.n + Allowance
    BY <1>1, <1>4 DEF LimiterInv
  <2>2. l = [limiter EXCEPT !.age = Smaller(Span, @ + 1)]
    BY <1>4, <1>l DEF MwTick
  <2>3. /\ l \in [kind : {"bucket", "window"}, n : Nat, age : Nat] /\ l.kind = "window" /\ l.n = limiter.n
        /\ l.age <= limiter.age + 1 /\ l.age <= Span
    BY <1>1, <1>4, <2>2 DEF Smaller
  <2>4. ASSUME NEW k \in 0 .. Span - 1
        PROVE  /\ k <= l.age => granted'[k] <= l.n
               /\ granted'[k] <= l.n + Allowance
    <3>1. CASE k = 0
      BY <1>1, <1>2, <2>3, <3>1
    <3>2. CASE k # 0
      <4>1. k \in 1 .. Span - 1 /\ k - 1 \in 0 .. Span - 1
        BY <1>1, <3>2
      <4>2. QED
        BY <1>1, <1>2, <2>1, <2>3, <4>1
    <3>3. QED
      BY <3>1, <3>2
  <2>5. QED
    BY <1>2, <1>l, <2>1, <2>3, <2>4 DEF Granting, LimiterInv
<1>5. QED
  BY <1>1, <1>3, <1>4

LEMMA TickStep ==
  ASSUME LayersInv, MwTick
  PROVE  LayersInv'
<1>1. /\ UNCHANGED <<layers, totalCost, request, paid>> /\ Granting' /\ ticks' = ticks + 1
      /\ cacheAge' = IF cacheAge \in 0 .. TTL - 1 THEN cacheAge + 1 ELSE -1
  BY TickFits DEF MwTick
<1>2. LayersTypeOK /\ CachedInv /\ CostInv /\ \A c \in Requesters : CallsFit(request[c])
  BY DEF LayersInv
<1>3. LayersTypeOK'
  BY <1>1, <1>2 DEF LayersTypeOK, Granting
<1>4. /\ \A l : Positions(l)' = Positions(l)
      /\ Uncharged' = Uncharged
  BY <1>1 DEF Positions, Uncharged
<1>5. CachedInv' /\ CostInv'
  BY <1>1, <1>2, <1>4 DEF CachedInv, CostInv, CostInside
<1>6. \A c \in Requesters : CallsFit(request[c])'
  BY <1>1, <1>2, <1>4 DEF CallsFit
<1>7. QED
  BY <1>1, <1>3, <1>5, <1>6 DEF LayersInv, Granting

LEMMA InitLayersInv == LayersInit => LayersInv
<1> SUFFICES ASSUME LayersInit
             PROVE  LayersInv
  OBVIOUS
<1>1. /\ Allowance \in Nat \ {0} /\ Refill \in Nat /\ Span \in Nat \ {0} /\ MaxRetries \in Nat
      /\ layers \in Stacks /\ layers \in Seq(LayerNames)
  BY MWAssumption DEF LayersInit, LayerNames
<1>2. /\ cacheAge = -1 /\ totalCost = 0 /\ ticks = 0 /\ paid = 0
      /\ request = [c \in Requesters |-> NoRequest] /\ granted = [k \in 0 .. Span - 1 |-> 0]
      /\ limiter \in {[kind |-> "bucket", n |-> Allowance, age |-> 0],
                      [kind |-> "window", n |-> 0, age |-> Span]}
  BY DEF LayersInit, LayersAtRest
<1>3. NoRequest \in RequestRecords /\ NoRequest.at = 0 /\ NoRequest.going = "idle" /\ NoRequest.calls = 0
  BY DEF NoRequest, RequestRecords
<1>4. LayersTypeOK
  BY <1>1, <1>2, <1>3 DEF LayersTypeOK
<1>5. LimiterInv
  <2>1. ASSUME NEW k \in 0 .. Span - 1
        PROVE  granted[k] = 0 /\ Refill * k \in Nat
    BY <1>1, <1>2
  <2>2. CASE limiter = [kind |-> "bucket", n |-> Allowance, age |-> 0]
    BY <1>1, <2>1, <2>2 DEF LimiterInv
  <2>3. CASE limiter = [kind |-> "window", n |-> 0, age |-> Span]
    BY <1>1, <2>1, <2>3 DEF LimiterInv
  <2>4. QED
    BY <1>2, <2>2, <2>3
<1>6. Uncharged = {}
  BY <1>2, <1>3 DEF Uncharged
<1>7. CachedInv /\ CostInv
  BY <1>2, <1>3, <1>6, FS_EmptySet DEF CachedInv, CostInv
<1>8. \A c \in Requesters : CallsFit(request[c])
  <2>1. Positions("retry") \subseteq Nat
    BY <1>1 DEF Positions
  <2>2. QED
    BY <1>1, <1>2, <1>3, <2>1 DEF CallsFit
<1>9. QED
  BY <1>4, <1>5, <1>7, <1>8 DEF LayersInv

LEMMA NextLayersInv == LayersInv /\ [MwNext]_mwVars => LayersInv'
<1> SUFFICES ASSUME LayersInv, [MwNext]_mwVars
             PROVE  LayersInv'
  OBVIOUS
<1>1. ASSUME NEW c \in Requesters, SendRequest(c) \/ MwStep(c) \/ DeadlinePasses(c)
      PROVE  LayersInv'
  BY <1>1, SendStep, LookUpStep, StoreStep, RationStep, PassStep, ModelStep, ChargeStep, RetryStep, WaitStep,
     ReturnedStep, DeadlineStep DEF MwStep
<1>2. CASE MwTick
  BY <1>2, TickStep
<1>3. CASE UNCHANGED mwVars
  <2>1. UNCHANGED <<layers, limiter, cacheAge, totalCost, request, ticks, granted, paid>>
    BY <1>3 DEF mwVars
  <2>2. (\A l : Positions(l)' = Positions(l)) /\ Uncharged' = Uncharged
    BY <2>1 DEF Positions, Uncharged
  <2>3. LayersTypeOK' /\ LimiterInv'
    BY <2>1 DEF LayersInv, LayersTypeOK, LimiterInv
  <2>4. CachedInv' /\ CostInv' /\ \A c \in Requesters : CallsFit(request[c])'
    BY <2>1, <2>2 DEF LayersInv, CachedInv, CostInv, CostInside, CallsFit
  <2>5. QED
    BY <2>3, <2>4 DEF LayersInv
<1>4. QED
  BY <1>1, <1>2, <1>3 DEF MwNext

(* For any requesters, any chains in any order, any limits and for as long   *)
(* as time goes on: no limiter lets more through in a span than it promises, *)
(* the cost middleware inside the cache charges every answer once, and a    *)
(* request calls the model at most once more than it may be retried.        *)
THEOREM LayersCorrect == MwSpec => []LayersHold
<1>1. LayersInit => LayersInv
  BY InitLayersInv
<1>2. LayersInv /\ [MwNext]_mwVars => LayersInv'
  BY NextLayersInv
<1>3. LayersInv => LayersHold
  <2> SUFFICES ASSUME LayersInv
               PROVE  LayersHold
    OBVIOUS
  <2>1. /\ LayersTypeOK /\ LimiterInv /\ CostInv /\ \A c \in Requesters : CallsFit(request[c])
        /\ Allowance \in Nat /\ Refill \in Nat /\ Span \in Nat \ {0} /\ MaxRetries \in Nat
    BY MWAssumption DEF LayersInv
  <2>2. /\ limiter \in [kind : {"bucket", "window"}, n : Nat, age : Nat]
        /\ Span - 1 \in 0 .. Span - 1 /\ granted[Span - 1] \in Nat
    BY <2>1 DEF LayersTypeOK
  <2>3. granted[Span - 1] <= IF limiter.kind = "bucket" THEN Allowance + Refill * (Span - 1) ELSE 2 * Allowance
    <3>1. CASE limiter.kind = "bucket"
      <4>1. granted[Span - 1] + limiter.n <= Allowance + Refill * (Span - 1) /\ Refill * (Span - 1) \in Nat
        BY <2>1, <2>2, <3>1 DEF LimiterInv
      <4>2. QED
        BY <2>1, <2>2, <3>1, <4>1
    <3>2. CASE limiter.kind = "window"
      BY <2>1, <2>2, <3>2 DEF LimiterInv
    <3>3. QED
      BY <2>2, <3>1, <3>2
  <2>4. ASSUME NEW c \in Requesters
        PROVE  request[c].calls <= IF Positions("retry") = {} THEN 1 ELSE MaxRetries + 1
    BY <2>1 DEF CallsFit
  <2>5. QED
    BY <2>1, <2>3, <2>4 DEF LayersHold, CostInv
<1>4. QED
  BY <1>1, <1>2, <1>3, PTL DEF MwSpec
=============================================================================
