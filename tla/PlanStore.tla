----------------------------- MODULE PlanStore -----------------------------
(***************************************************************************)
(* PlanStoreWrapper of plan_store.go over an InMemoryPlanStore.            *)
(*                                                                         *)
(* The store has its own lock, the cache another, and every operation of   *)
(* the wrapper takes the two one after the other.  Save and Delete write   *)
(* the store first; Load looks into the cache, then reads the store, then  *)
(* fills the cache.  A client's operation is here its record op[k], which  *)
(* says what it still has to do.  A plan's content is the revision of it   *)
(* that was saved.                                                         *)
(***************************************************************************)
EXTENDS Naturals, FiniteSets

CONSTANTS Plans,      \* plan IDs
          Clients,    \* goroutines that use the wrapper
          Revisions,  \* what a plan may contain
          None,       \* no such plan
          CacheSize   \* w.cacheSize

ASSUME PSAssumption == None \notin Revisions /\ CacheSize \in Nat \ {0}

VARIABLES stored,     \* the revision of each plan in the store
          cache,      \* the revision of each plan in w.cache
          op,         \* the operation each client is in
          overlapped  \* plans whose last write began during another operation on them

planStore == <<stored, cache, op, overlapped>>

Content == Revisions \union {None}
Idle    == [kind |-> "idle"]
Ops     == {Idle} \union [kind : {"missed"}, plan : Plans]
                  \union [kind : {"save", "load"}, plan : Plans, content : Revisions]
                  \union [kind : {"delete"}, plan : Plans, content : {None}]

PlanStoreTypeOK ==
  /\ stored \in [Plans -> Content]
  /\ cache \in [Plans -> Content]
  /\ op \in [Clients -> Ops]
  /\ overlapped \in SUBSET Plans

-----------------------------------------------------------------------------
PlanStoreInit ==
  /\ stored = [p \in Plans |-> None]
  /\ cache = [p \in Plans |-> None]
  /\ op = [k \in Clients |-> Idle]
  /\ overlapped = {}

(* Clients that have done the store's part of an operation on p and have   *)
(* the cache's part before them; and those of them that wrote.             *)
Between(p) == {k \in Clients : op[k].kind \in {"save", "load", "delete"} /\ op[k].plan = p}
Writing(p) == {k \in Between(p) : op[k].kind # "load"}

(* A write that begins while another operation on the plan is under way    *)
(* may reach the cache in the other order; one that begins alone does not, *)
(* and makes up for those before it.                                       *)
Overlaps(p) == overlapped' = IF Between(p) = {} THEN overlapped \ {p}
                                               ELSE overlapped \union {p}

(* w.store.Save(plan) *)
StoreSave(k, p, r) ==
  /\ op[k] = Idle
  /\ stored' = [stored EXCEPT ![p] = r]
  /\ op' = [op EXCEPT ![k] = [kind |-> "save", plan |-> p, content |-> r]]
  /\ Overlaps(p)
  /\ UNCHANGED cache

Cached(c) == {p \in Plans : c[p] # None}

(***************************************************************************)
(* The cache's part of Save: the plan is put there, and if there are now   *)
(* too many the oldest goes.  Which one that is, save that it is not the   *)
(* newest, makes no difference to what is said here of the cache.          *)
(***************************************************************************)
CacheSave(k) ==
  /\ op[k].kind = "save"
  /\ LET p    == op[k].plan
         full == [cache EXCEPT ![p] = op[k].content]
     IN IF Cardinality(Cached(full)) <= CacheSize
          THEN cache' = full
          ELSE \E oldest \in Cached(full) \ {p} : cache' = [full EXCEPT ![oldest] = None]
  /\ op' = [op EXCEPT ![k] = Idle]
  /\ UNCHANGED <<stored, overlapped>>

(* Load does not find the plan in the cache.  (A hit changes nothing.) *)
Miss(k, p) ==
  /\ op[k] = Idle
  /\ cache[p] = None
  /\ op' = [op EXCEPT ![k] = [kind |-> "missed", plan |-> p]]
  /\ UNCHANGED <<stored, cache, overlapped>>

(* w.store.Load(planID), which may fail with ErrPlanNotFound. *)
StoreLoad(k) ==
  /\ op[k].kind = "missed"
  /\ LET p == op[k].plan
     IN op' = [op EXCEPT ![k] = IF stored[p] = None THEN Idle
                  ELSE [kind |-> "load", plan |-> p, content |-> stored[p]]]
  /\ UNCHANGED <<stored, cache, overlapped>>

(* The cache's part of Load.  Nothing is evicted here. *)
CacheLoad(k) ==
  /\ op[k].kind = "load"
  /\ cache' = [cache EXCEPT ![op[k].plan] = op[k].content]
  /\ op' = [op EXCEPT ![k] = Idle]
  /\ UNCHANGED <<stored, overlapped>>

(* w.store.Delete(planID): a plan that is not in the store is ErrPlanNotFound *)
(* and stays in the cache.                                                    *)
StoreDelete(k, p) ==
  /\ op[k] = Idle
  /\ stored[p] # None
  /\ stored' = [stored EXCEPT ![p] = None]
  /\ op' = [op EXCEPT ![k] = [kind |-> "delete", plan |-> p, content |-> None]]
  /\ Overlaps(p)
  /\ UNCHANGED cache

(* A variant that leaves the plan in the cache. *)
CacheKeeps(k) ==
  /\ op[k].kind = "delete"
  /\ op' = [op EXCEPT ![k] = Idle]
  /\ UNCHANGED <<stored, cache, overlapped>>

CacheDelete(k) ==
  /\ op[k].kind = "delete"
  /\ cache' = [cache EXCEPT ![op[k].plan] = None]
  /\ op' = [op EXCEPT ![k] = Idle]
  /\ UNCHANGED <<stored, overlapped>>

ClearCache ==
  /\ cache' = [p \in Plans |-> None]
  /\ overlapped' = {p \in overlapped : Between(p) # {}}
  /\ UNCHANGED <<stored, op>>

CacheStep(k) == CacheSave(k) \/ CacheLoad(k) \/ CacheDelete(k)

-----------------------------------------------------------------------------
(* The cache answers with what the store holds, or not at all, except while *)
(* a write of that plan is between store and cache, and after a write that  *)
(* began during another operation on the plan, until the next one that did  *)
(* not.  Such an exception is a stale plan, or a deleted one that Load still *)
(* finds and Delete no longer does (plan_store.go, Save, Load and Delete).  *)
CacheAgrees ==
  \A p \in Plans : p \notin overlapped /\ Writing(p) = {} => cache[p] \in {None, stored[p]}
=============================================================================
