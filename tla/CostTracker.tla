----------------------------- MODULE CostTracker -----------------------------
(***************************************************************************)
(* CostTracker (cost.go) as the gate of calls to a model: a caller asks    *)
(* CheckBudget, calls, and records the usage.  A budget is reset by the    *)
(* first RecordUsage after its period; CheckBudget never resets it.        *)
(*                                                                         *)
(* The lock is a Go RWMutex: a writer that waits keeps new readers out,    *)
(* and GetOptimizationRecommendations takes the read lock a second time,   *)
(* in GetUsageByModel, while it holds it.                                  *)
(*                                                                         *)
(* There is one budget, every call costs one unit, and prices, insights    *)
(* and statistics, which only read, are left out.  A record is its time    *)
(* and, to tell it from others, which of the budget it is and since which  *)
(* reset; their order plays no role.                                       *)
(***************************************************************************)
EXTENDS Integers, FiniteSets

CONSTANTS Payers,     \* callers of the model
          Advisors,   \* callers of GetOptimizationRecommendations
          Limit,      \* budget.Limit
          Period,     \* budget.Period
          Retention,  \* opts.RetentionPeriod
          MaxCalls,   \* bound: how many calls there are
          MaxTime,    \* bound: how long time goes on
          MaxBudgets  \* bound: how often SetBudget is called

ASSUME CostAssumption == /\ Limit \in Nat \ {0}
                         /\ Period \in Nat
                         /\ Retention \in Nat \ {0}
                         /\ IsFiniteSet(Payers)

VARIABLES usages,   \* ct.usages
          budget,   \* CurrentSpend, LastReset and, an observer, how often it was reset
          now,      \* the time
          payer,    \* what each payer is doing
          advisor,  \* how many read locks each advisor holds, or "done"
          waiting,  \* who waits for the write lock
          calls,    \* how many calls were admitted
          budgets,  \* how often SetBudget was called
          dropped   \* observer: a record of the budget since its reset was cleaned up

costVars == <<usages, budget, now, payer, advisor, waiting, calls, budgets, dropped>>

Owner   == "application"   \* calls SetBudget
Cleaner == "cleaner"       \* the goroutine of cleanupOldRecords

CostAtRest ==
  /\ usages = {}
  /\ budget = [spend |-> 0, reset |-> 0, resets |-> 0]
  /\ now = 0
  /\ payer = [p \in Payers |-> "idle"]
  /\ advisor = [a \in Advisors |-> 0]
  /\ waiting = {}
  /\ calls = 0
  /\ budgets = 0
  /\ dropped = FALSE

Readable == waiting = {}
Readers  == {a \in Advisors : advisor[a] > 0}

(* A variant of CheckBudget that lets spending reach beyond the limit. *)
CheckBeyondLimit(p) ==
  /\ payer[p] = "idle"
  /\ Readable
  /\ calls < MaxCalls
  /\ IF budget.spend > Limit
       THEN UNCHANGED <<payer, calls>>
       ELSE payer' = [payer EXCEPT ![p] = "calling"] /\ calls' = calls + 1
  /\ UNCHANGED <<usages, budget, now, advisor, waiting, budgets, dropped>>

(* CheckBudget, and the call of the model that follows it. *)
CheckBudget(p) ==
  /\ payer[p] = "idle"
  /\ Readable
  /\ calls < MaxCalls
  /\ budget.spend < Limit
  /\ payer' = [payer EXCEPT ![p] = "calling"]
  /\ calls' = calls + 1
  /\ UNCHANGED <<usages, budget, now, advisor, waiting, budgets, dropped>>

(* The call is over, and RecordUsage, SetBudget or the cleaner wants the    *)
(* write lock.                                                             *)
Wants(w) ==
  /\ waiting' = waiting \cup {w}
  /\ UNCHANGED <<usages, budget, now, advisor, calls, budgets, dropped>>

CallEnds(p) ==
  /\ payer[p] = "calling"
  /\ payer' = [payer EXCEPT ![p] = "recording"]
  /\ Wants(p)

OwnerOrCleaner(w) ==
  /\ w \notin waiting
  /\ w = Owner => budgets < MaxBudgets
  /\ w = Cleaner => usages # {}
  /\ Wants(w)
  /\ UNCHANGED payer

Locks(w) ==
  /\ w \in waiting
  /\ Readers = {}
  /\ waiting' = waiting \ {w}
  /\ UNCHANGED <<now, advisor, calls>>

Renewed == [spend |-> 0, reset |-> now, resets |-> budget.resets + 1]

(* What RecordUsage adds to a budget b, and the record of it. *)
Spent(b)  == [b EXCEPT !.spend = @ + 1]
Record(b) == [at |-> now, follows |-> b.resets, nth |-> b.spend]

(* A variant of RecordUsage that resets the budget after it has added. *)
RecordThenReset(p) ==
  /\ payer[p] = "recording"
  /\ Locks(p)
  /\ LET due == now - budget.reset > Period
         b   == IF due THEN Renewed ELSE Spent(budget)
     IN /\ budget' = b
        /\ usages' = usages \cup {Record(b)}
        /\ dropped' = (dropped /\ ~due)
  /\ payer' = [payer EXCEPT ![p] = "idle"]
  /\ UNCHANGED budgets

(* RecordUsage: the budget is reset when its period is over. *)
RecordUsage(p) ==
  /\ payer[p] = "recording"
  /\ Locks(p)
  /\ LET due == now - budget.reset > Period
         b   == Spent(IF due THEN Renewed ELSE budget)
     IN /\ budget' = b
        /\ usages' = usages \cup {Record(b)}
        /\ dropped' = (dropped /\ ~due)
  /\ payer' = [payer EXCEPT ![p] = "idle"]
  /\ UNCHANGED budgets

(* SetBudget replaces the budget, what was spent included. *)
SetBudget ==
  /\ Locks(Owner)
  /\ budget' = Renewed
  /\ dropped' = FALSE
  /\ budgets' = budgets + 1
  /\ UNCHANGED <<usages, payer>>

(* cleanupOldRecords keeps what is younger than the retention period. *)
CleanUp ==
  /\ Locks(Cleaner)
  /\ usages' = {u \in usages : u.at > now - Retention}
  /\ dropped' = (dropped \/ \E u \in usages \ usages' : u.follows = budget.resets)
  /\ UNCHANGED <<budget, payer, budgets>>

(* A variant of Advise that does not give its locks back. *)
AdviseKeepsLocks(a) ==
  /\ advisor[a] < 2
  /\ Readable
  /\ advisor' = [advisor EXCEPT ![a] = @ + 1]
  /\ UNCHANGED <<usages, budget, now, payer, waiting, calls, budgets, dropped>>

(* GetOptimizationRecommendations: its own read lock, that of               *)
(* GetUsageByModel, and both back.                                         *)
Advise(a) ==
  /\ \/ advisor[a] < 2 /\ Readable /\ advisor' = [advisor EXCEPT ![a] = @ + 1]
     \/ advisor[a] = 2 /\ advisor' = [advisor EXCEPT ![a] = 0]
  /\ UNCHANGED <<usages, budget, now, payer, waiting, calls, budgets, dropped>>

CostTick ==
  /\ now < MaxTime
  /\ now' = now + 1
  /\ UNCHANGED <<usages, budget, payer, advisor, waiting, calls, budgets, dropped>>

CostNext ==
  \/ \E p \in Payers : CheckBudget(p) \/ CallEnds(p) \/ RecordUsage(p)
  \/ \E w \in {Owner, Cleaner} : OwnerOrCleaner(w)
  \/ SetBudget \/ CleanUp \/ CostTick
  \/ \E a \in Advisors : Advise(a)

(* The lock goes to those that wait, and a reader goes on. *)
CostFairness ==
  /\ \A p \in Payers : WF_costVars(RecordUsage(p))
  /\ WF_costVars(SetBudget) /\ WF_costVars(CleanUp)
  /\ \A a \in Advisors : WF_costVars(Advise(a) /\ advisor[a] > 0)

CostSpec == CostAtRest /\ [][CostNext]_costVars /\ CostFairness

-----------------------------------------------------------------------------
Busy == {p \in Payers : payer[p] # "idle"}

(* What a budget has spent is what was recorded since its reset, unless     *)
(* records of that time were cleaned up, and callers that checked it        *)
(* before the others recorded take it beyond its limit by less than one    *)
(* call each (CheckBudget, RecordUsage, SetBudget, cleanupOldRecords).      *)
BudgetIsTrue ==
  /\ dropped \/ budget.spend = Cardinality({u \in usages : u.follows = budget.resets})
  /\ budget.spend + Cardinality(Busy) < Limit + Cardinality(Payers)

(* An advisor that a writer overtook between its two read locks: it waits   *)
(* for the writer, and the writer for it.                                  *)
Overtaken == waiting # {} /\ \E a \in Advisors : advisor[a] = 1

(* Whoever waits for the lock gets it, unless an advisor was overtaken      *)
(* (GetOptimizationRecommendations, RecordUsage).                          *)
WritersGetThrough ==
  \A w \in Payers \cup {Owner, Cleaner} : w \in waiting ~> (w \notin waiting \/ Overtaken)

(* CheckBudget reports a budget as exceeded for what was spent in its       *)
(* period.                                                                 *)
ExceededIsRecent ==
  budget.spend >= Limit => now - budget.reset <= Period
=============================================================================
