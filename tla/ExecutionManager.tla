-------------------------- MODULE ExecutionManager --------------------------
(***************************************************************************)
(* The ExecutionManager of execution_manager.go: the table of stream       *)
(* executions, the limit on those running, cancellation, and the clean-up  *)
(* of old entries.  Every method holds em.mu throughout, so each is one    *)
(* action; what interleaves are the streaming goroutine that owns an       *)
(* execution, clients that cancel it, the clean-up ticker, the deadline of *)
(* its context, and Stop.                                                  *)
(*                                                                         *)
(* An id is a fresh UUID, so an id is started at most once.  Instants are  *)
(* abstracted to what the code asks of them: an entry is stale once its    *)
(* EndTime lies before now - StaleExecutionAge.                            *)
(***************************************************************************)
EXTENDS Naturals, FiniteSets

CONSTANTS Ids,          \* execution ids the UUID generator will hand out
          MaxActive     \* config.MaxActiveExecutions

(* The configured limit; 0 would mean unlimited. *)
ASSUME EMAssumption == MaxActive \in Nat \ {0}

VARIABLES executions,   \* em.executions: what the table holds for each id
          owner,        \* the goroutine that streams: not yet, busy or gone
          ctxDone,      \* ids whose context is cancelled or past its deadline
          stale,        \* ended ids older than StaleExecutionAge
          stopped,      \* Stop has run: no clean-up any more
          told          \* ids for which CancelExecution returned true

vars == <<executions, owner, ctxDone, stale, stopped, told>>

Absent == "absent"
Ended  == {"completed", "cancelled", "error"}
Entry  == Ended \union {"running"}

Running == {id \in Ids : executions[id] = "running"}

TypeOK ==
  /\ executions \in [Ids -> Entry \union {Absent}]
  /\ owner \in [Ids -> {"none", "streaming", "gone"}]
  /\ ctxDone \in SUBSET Ids
  /\ stale \in SUBSET Ids
  /\ stopped \in BOOLEAN
  /\ told \in SUBSET Ids

-----------------------------------------------------------------------------
Init ==
  /\ executions = [id \in Ids |-> Absent]
  /\ owner = [id \in Ids |-> "none"]
  /\ ctxDone = {}
  /\ stale = {}
  /\ stopped = FALSE
  /\ told = {}

(* A variant with the limit off by one. *)
StartExecutionOneMore(id) ==
  /\ owner[id] = "none"
  /\ Cardinality(Running) <= MaxActive
  /\ executions' = [executions EXCEPT ![id] = "running"]
  /\ owner' = [owner EXCEPT ![id] = "streaming"]
  /\ UNCHANGED <<ctxDone, stale, stopped, told>>

(* StartExecution.  At the limit it returns ErrMaxExecutionsReached and     *)
(* changes nothing.  It does not ask whether the manager was stopped.       *)
StartExecution(id) ==
  /\ owner[id] = "none"
  /\ Cardinality(Running) < MaxActive
  /\ executions' = [executions EXCEPT ![id] = "running"]
  /\ owner' = [owner EXCEPT ![id] = "streaming"]
  /\ UNCHANGED <<ctxDone, stale, stopped, told>>

(* A variant in which a progress report brings the entry back to running.   *)
UpdateActivityRevives(id) ==
  /\ owner[id] = "streaming"
  /\ executions[id] # Absent
  /\ executions' = [executions EXCEPT ![id] = "running"]
  /\ UNCHANGED <<owner, ctxDone, stale, stopped, told>>

(* UpdateActivity touches LastActivity and the token count only, which no   *)
(* other operation reads.                                                   *)
UpdateActivity(id) ==
  /\ owner[id] = "streaming"
  /\ executions[id] # Absent
  /\ UNCHANGED vars

(* A variant that leaves the entry running when the stream failed.          *)
CompleteExecutionOnSuccess(id) ==
  /\ owner[id] = "streaming"
  /\ owner' = [owner EXCEPT ![id] = "gone"]
  /\ \E ok \in BOOLEAN :
       IF executions[id] = Absent \/ ~ok
         THEN UNCHANGED <<executions, stale>>
         ELSE /\ executions' = [executions EXCEPT ![id] = "completed"]
              /\ stale' = stale \ {id}
  /\ UNCHANGED <<ctxDone, stopped, told>>

(* CompleteExecution, by the streaming goroutine when its stream ends.  It  *)
(* has no look at the state it overwrites: a cancelled execution becomes    *)
(* completed or error, with a new EndTime.                                  *)
CompleteExecution(id) ==
  /\ owner[id] = "streaming"
  /\ owner' = [owner EXCEPT ![id] = "gone"]
  /\ IF executions[id] = Absent
       THEN UNCHANGED <<executions, stale>>
       ELSE /\ \E s \in {"completed", "error"} :
                 executions' = [executions EXCEPT ![id] = s]
            /\ stale' = stale \ {id}
  /\ UNCHANGED <<ctxDone, stopped, told>>

(* CancelExecution returning true; on any other entry it returns false and  *)
(* changes nothing.                                                         *)
CancelExecution(id) ==
  /\ executions[id] = "running"
  /\ ctxDone' = ctxDone \union {id}
  /\ executions' = [executions EXCEPT ![id] = "cancelled"]
  /\ told' = told \union {id}
  /\ UNCHANGED <<owner, stale, stopped>>

(* ExecutionTimeout, or the caller's own context: the entry is not told.    *)
Deadline(id) ==
  /\ owner[id] # "none"
  /\ ctxDone' = ctxDone \union {id}
  /\ UNCHANGED <<executions, owner, stale, stopped, told>>

Age(id) ==
  /\ executions[id] \in Ended
  /\ stale' = stale \union {id}
  /\ UNCHANGED <<executions, owner, ctxDone, stopped, told>>

(* cleanup, on each tick of cleanupLoop. *)
Cleanup ==
  /\ ~stopped
  /\ executions' = [id \in Ids |-> IF id \in stale THEN Absent ELSE executions[id]]
  /\ stale' = {}
  /\ UNCHANGED <<owner, ctxDone, stopped, told>>

(* Stop.  A second call would panic on the closed channel, so callers stop  *)
(* the manager once.                                                        *)
Stop ==
  /\ ~stopped
  /\ stopped' = TRUE
  /\ ctxDone' = ctxDone \union Running
  /\ executions' = [id \in Ids |-> IF id \in Running THEN "cancelled"
                                   ELSE executions[id]]
  /\ UNCHANGED <<owner, stale, told>>

Next ==
  \/ \E id \in Ids : \/ StartExecution(id) \/ UpdateActivity(id)
                     \/ CompleteExecution(id) \/ CancelExecution(id)
                     \/ Deadline(id) \/ Age(id)
  \/ Cleanup
  \/ Stop

(* Streams end, time passes, and the ticker ticks. *)
Fairness ==
  /\ WF_vars(Cleanup)
  /\ \A id \in Ids : WF_vars(CompleteExecution(id)) /\ WF_vars(Age(id))

Spec     == Init /\ [][Next]_vars
FairSpec == Spec /\ Fairness

-----------------------------------------------------------------------------
(* No more than MaxActive executions run at once, whatever starts, ends,    *)
(* cancellations and clean-ups interleave (StartExecution counts under the  *)
(* lock it inserts under).                                                  *)
ActiveBounded == Cardinality(Running) <= MaxActive

(* Once CancelExecution has returned true the execution's context is        *)
(* cancelled and the entry never shows it running again, not even when its  *)
(* goroutine reports progress or completes afterwards.                      *)
CancelHolds == \A id \in told : id \in ctxDone /\ executions[id] # "running"

(* An execution whose goroutine has finished is not left running in the     *)
(* table, where it would hold a slot for ever.                              *)
NoLeakedSlot == \A id \in Running : owner[id] = "streaming"

(* An ended execution stays in the table, ended, until it is stale: a       *)
(* client can still ask how it ended, and a late CompleteExecution on a     *)
(* cancelled one starts its age afresh.                                     *)
EndedIsKept ==
  [][\A id \in Ids : executions[id] \in Ended =>
        \/ executions'[id] \in Ended
        \/ executions'[id] = Absent /\ id \in stale]_vars

(* A full manager has room again. *)
SlotsComeBack == (Cardinality(Running) = MaxActive) ~> (Cardinality(Running) < MaxActive)

(* The running executions are the active items of AdmissionControl. *)
AC == INSTANCE AdmissionControl WITH Items <- Ids, Limit <- MaxActive, active <- Running

(* The manager is a limiter of MaxActive concurrent executions. *)
ImplementsAC == AC!ACSpec
=============================================================================
