--------------------------- MODULE BatchProcessor ---------------------------
(***************************************************************************)
(* The BatchProcessor of batch.go: requests collect in a queue until the   *)
(* queue is full, a timer fires or Flush is called; a batch taken off the  *)
(* queue is then processed by at most maxConcurrency workers at a time.    *)
(*                                                                         *)
(* Submit, Flush and the head of processBatch hold bp.mu, so each is one   *)
(* action.  "go bp.processBatch()" and a timer that fires start a          *)
(* goroutine that reaches the lock some time later: due counts those.      *)
(* bp.processingTimer stays non-nil after the timer was stopped or has     *)
(* fired, until a processBatch that finds work clears it.                  *)
(*                                                                         *)
(* The order of a queue is of no consequence here, so queue and batches    *)
(* are sets; a request is submitted once.                                  *)
(***************************************************************************)
EXTENDS Naturals, FiniteSets

CONSTANTS Requests,
          MaxBatchSize,    \* bp.maxBatchSize
          MaxConcurrency   \* bp.maxConcurrency

ASSUME BPAssumption == /\ MaxBatchSize \in Nat \ {0}
                       /\ MaxConcurrency \in Nat \ {0}

VARIABLES enableBatching,  \* bp.enableBatching, set once by NewBatchProcessor
          queue,      \* bp.queue
          timer,      \* bp.processingTimer: nil, live (armed), dead (fired or stopped)
          orphans,    \* armed timers that bp.processingTimer no longer points to
          due,        \* processBatch calls under way to the lock
          batches,    \* requests each ProcessBatch call has still to answer
          working,    \* requests a worker is processing
          submitted,  \* requests Submit has accepted
          answered,   \* requests whose result or error was sent
          filled,     \* history: Submit has met a full queue
          flushed     \* history: Flush has taken a queue

happened == <<filled, flushed>>
others   == <<enableBatching, happened>>
batchVars     == <<others, queue, timer, orphans, due, batches, working, submitted, answered>>

InBatch == UNION batches

BatchTypeOK ==
  /\ enableBatching \in BOOLEAN
  /\ queue \in SUBSET Requests
  /\ timer \in {"nil", "live", "dead"}
  /\ orphans \in Nat
  /\ due \in Nat
  /\ batches \in SUBSET (SUBSET Requests)
  /\ working \in SUBSET InBatch
  /\ submitted \in SUBSET Requests
  /\ answered \in SUBSET Requests
  /\ filled \in BOOLEAN
  /\ flushed \in BOOLEAN

-----------------------------------------------------------------------------
BatchInit ==
  /\ enableBatching \in BOOLEAN
  /\ queue = {}
  /\ timer = "nil"
  /\ orphans = 0
  /\ due = 0
  /\ batches = {}
  /\ working = {}
  /\ submitted = {}
  /\ answered = {}
  /\ filled = FALSE
  /\ flushed = FALSE

Accept(r) == /\ r \in Requests \ submitted
             /\ submitted' = submitted \union {r}
             /\ UNCHANGED <<enableBatching, working, answered, flushed>>

(* A variant that returns without processing. *)
SubmitImmediateForgets(r) ==
  /\ ~enableBatching
  /\ Accept(r)
  /\ UNCHANGED <<batches, queue, timer, orphans, due, filled>>

(* Submit with batching disabled: processImmediate in the caller. *)
SubmitImmediate(r) ==
  /\ ~enableBatching
  /\ Accept(r)
  /\ batches' = batches \union {{r}}
  /\ UNCHANGED <<queue, timer, orphans, due, filled>>

(* Submit that leaves room in the queue; it arms a timer only if there is   *)
(* none, dead or alive.                                                     *)
SubmitQueue(r) ==
  /\ enableBatching
  /\ Accept(r)
  /\ Cardinality(queue \union {r}) < MaxBatchSize
  /\ queue' = queue \union {r}
  /\ timer' = IF timer = "nil" THEN "live" ELSE timer
  /\ UNCHANGED <<orphans, due, batches, filled>>

(* Submit that fills the queue: it starts a processBatch, which needs the   *)
(* lock that Submit holds, and then puts an empty queue in place of the     *)
(* full one.                                                                *)
SubmitFull(r) ==
  /\ enableBatching
  /\ Accept(r)
  /\ Cardinality(queue \union {r}) >= MaxBatchSize
  /\ due' = due + 1
  /\ queue' = {}
  /\ timer' = IF timer = "nil" THEN "nil" ELSE "dead"
  /\ filled' = TRUE
  /\ UNCHANGED <<orphans, batches>>

TimerFires ==
  /\ timer = "live"
  /\ timer' = "dead"
  /\ due' = due + 1
  /\ UNCHANGED <<others, queue, orphans, batches, working, submitted, answered>>

OrphanFires ==
  /\ orphans > 0
  /\ orphans' = orphans - 1
  /\ due' = due + 1
  /\ UNCHANGED <<others, queue, timer, batches, working, submitted, answered>>

(* processBatch up to bp.mu.Unlock, with work to do: the timer is forgotten *)
(* without being stopped.                                                   *)
ProcessBatch ==
  /\ due > 0
  /\ queue # {}
  /\ due' = due - 1
  /\ batches' = batches \union {queue}
  /\ queue' = {}
  /\ timer' = "nil"
  /\ orphans' = IF timer = "live" THEN orphans + 1 ELSE orphans
  /\ UNCHANGED <<others, working, submitted, answered>>

(* processBatch on an empty queue returns at once: the timer is not cleared. *)
ProcessNothing ==
  /\ due > 0
  /\ queue = {}
  /\ due' = due - 1
  /\ UNCHANGED <<others, queue, timer, orphans, batches, working, submitted, answered>>

(* Flush takes the queue and leaves the timer alone. *)
Flush ==
  /\ queue # {}
  /\ batches' = batches \union {queue}
  /\ queue' = {}
  /\ flushed' = TRUE
  /\ UNCHANGED <<enableBatching, timer, orphans, due, working, submitted, answered,
                 filled>>

(* ProcessBatch acquires the semaphore and starts a worker for a request. *)
StartWorker(b, r) ==
  /\ r \in b \ working
  /\ Cardinality(b \intersect working) < MaxConcurrency
  /\ working' = working \union {r}
  /\ UNCHANGED <<others, queue, timer, orphans, due, batches, submitted, answered>>

(* A variant that returns from ProcessBatch at the first answer. *)
AnswerEndsBatch(b, r) ==
  /\ r \in b \intersect working
  /\ working' = working \ b
  /\ batches' = batches \ {b}
  /\ answered' = answered \union {r}
  /\ UNCHANGED <<others, queue, timer, orphans, due, submitted>>

(* The worker sends the result or the error and releases the semaphore. *)
Answer(b, r) ==
  /\ r \in b \intersect working
  /\ working' = working \ {r}
  /\ batches' = (batches \ {b}) \union ({b \ {r}} \ {{}})
  /\ answered' = answered \union {r}
  /\ UNCHANGED <<others, queue, timer, orphans, due, submitted>>

BatchNext ==
  \/ \E r \in Requests : SubmitImmediate(r) \/ SubmitQueue(r) \/ SubmitFull(r)
  \/ TimerFires \/ OrphanFires \/ ProcessBatch \/ ProcessNothing \/ Flush
  \/ \E b \in batches : \E r \in b : StartWorker(b, r) \/ Answer(b, r)

(* Timers fire, goroutines run, and the model answers or fails every call.  *)
BatchFairness ==
  /\ WF_batchVars(TimerFires) /\ WF_batchVars(OrphanFires)
  /\ WF_batchVars(ProcessBatch \/ ProcessNothing)
  /\ WF_batchVars(\E b \in batches : \E r \in b : StartWorker(b, r) \/ Answer(b, r))

BatchSpec     == BatchInit /\ [][BatchNext]_batchVars
BatchFairSpec == BatchSpec /\ BatchFairness

-----------------------------------------------------------------------------
(* A request is in one place at a time: in the queue, in one batch, or      *)
(* answered.  So no request is processed or answered twice, whichever of    *)
(* Flush, timers and full queues race for it.                               *)
OnePlace ==
  /\ \A b1, b2 \in batches : b1 # b2 => b1 \intersect b2 = {}
  /\ queue \intersect InBatch = {}
  /\ answered \intersect (queue \union InBatch) = {}
  /\ queue \union InBatch \union answered \subseteq submitted

(* The queue never reaches the batch size when the lock is free. *)
QueueBelowLimit == queue # {} => Cardinality(queue) < MaxBatchSize

(* Every accepted request is still somewhere.  The comment in Submit says   *)
(* "Process if batch is full"; the requests of a full queue are in no batch. *)
NoRequestLost == submitted \subseteq queue \union InBatch \union answered

(* A full queue is the only way for a request to get lost: timers, orphaned *)
(* timers, Flush and the workers drop none between them.                    *)
OnlyFullLoses == ~filled => NoRequestLost

(* Requests wait in the queue only while something will come to fetch them, *)
(* as long as neither a full queue nor Flush has left a dead timer behind.  *)
SomeoneComes ==
  (queue # {} /\ ~filled /\ ~flushed) => (timer = "live" \/ due > 0 \/ orphans > 0)

(* Every accepted request gets its result or its error, in a processor      *)
(* whose queue never fills and that nobody flushes, or without batching.    *)
AllAnswered ==
  \A r \in Requests :
    (r \in submitted) ~> (r \in answered \/ filled \/ flushed)
=============================================================================
