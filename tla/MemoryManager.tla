---------------------------- MODULE MemoryManager ----------------------------
(***************************************************************************)
(* The MemoryManager of memory.go and the functions of memory_integration  *)
(* that strategies store and recall with.  New memories are in working     *)
(* memory; when it is over its capacity, Store moves the least valuable    *)
(* ones that have an embedding to the vector store.  Store, Forget,        *)
(* CreateEpisode and Clear hold mm.mu, and so do the calls of the vector   *)
(* store in them; Recall holds the read lock; Promote is a Recall and then *)
(* a critical section.                                                     *)
(*                                                                         *)
(* A memory is known by its ID, a number counted from 1 by each process,   *)
(* and by the process that stored it.  What entries are worth is left      *)
(* open: any may be the least valuable.                                    *)
(***************************************************************************)
EXTENDS Naturals, FiniteSets, FiniteSetsExt

CONSTANTS Readers,      \* goroutines that call Recall and Promote
          Capacity,     \* mm.workingCapacity
          MaxMemories,  \* bound: memories stored by a process
          MaxProcesses, \* bound: processes, one after the other
          MaxRecalls    \* bound: calls of a reader

ASSUME MMAssumption == Capacity \in Nat \ {0} /\ IsFiniteSet(Readers)

VARIABLES process,      \* which process runs
          counter,      \* mm.idCounter
          working,      \* mm.working: entries by ID
          vectors,      \* the vector store: memories by ID
          reader,       \* the call each reader makes
          fate,         \* of each memory stored: kept, or how it went
          recalls,      \* how often each memory in working memory was recalled
          clashed,      \* entries whose count two readers updated at once
          stopped       \* the last consolidation stopped at an error

memVars == <<process, counter, working, vectors, reader, fate, recalls, clashed, stopped>>

NoReader == [at |-> "idle", then |-> "idle", todo |-> {}, one |-> 0, seen |-> 0, target |-> <<>>, calls |-> 0]

MemInit ==
  /\ process = 1 /\ counter = 0
  /\ working = <<>> /\ vectors = <<>>
  /\ reader = [r \in Readers |-> NoReader]
  /\ fate = <<>>
  /\ recalls = <<>>
  /\ clashed = {}
  /\ stopped = FALSE

(* mm.mu: nobody else has it, or nobody else but readers. *)
Reading  == {r \in Readers : reader[r].at \in {"recalled", "counting"}}
Unlocked == Reading = {}

Me(id)       == <<process, id>>
Entry(e)  == [what |-> Me(counter + 1), embedded |-> e, tier |-> "working", count |-> 0]
With(f, i, x) == [j \in DOMAIN f \union {i} |-> IF j = i THEN x ELSE f[j]]
But(f, S)     == [j \in DOMAIN f \ S |-> f[j]]

(* What becomes of the memories that an operation removes, and of those of  *)
(* earlier processes whose ID it takes for another's.                       *)
Has(f, m) == \E i \in DOMAIN f : f[i].what = m
Fates(how, ids) ==
  fate' = [m \in DOMAIN fate |->
             IF fate[m] # "kept" \/ m[2] \notin ids \/ Has(working', m) \/ Has(vectors', m) THEN fate[m]
             ELSE IF m[1] = process THEN how ELSE "mistaken"]

-----------------------------------------------------------------------------
(* consolidateWorking: the least valuable entries that have an embedding    *)
(* move, as many as are too many.  An upsert that fails, executed or not,   *)
(* ends it: its entry is marked and stays, and the rest is left for later.  *)
Short(w, ids) == [i \in ids |-> [what |-> w[i].what, tier |-> "short"]]

Upserted(u) == [i \in DOMAIN vectors \union DOMAIN u |-> IF i \in DOMAIN u THEN u[i] ELSE vectors[i]]

ConsolidateWorking(w) ==
  LET movable == {i \in DOMAIN w : w[i].embedded}
      toMove  == Min({Cardinality(DOMAIN w) - Capacity, Cardinality(movable)})
  IN \E moved, failed \in SUBSET movable, executed \in BOOLEAN :
       /\ moved \intersect failed = {} /\ Cardinality(failed) <= 1
       /\ IF failed = {} THEN Cardinality(moved) = toMove /\ executed
                         ELSE Cardinality(moved) < toMove
       /\ working' = [i \in DOMAIN w \ moved |->
                        IF i \in failed THEN [w[i] EXCEPT !.tier = "short"] ELSE w[i]]
       /\ vectors' = Upserted(Short(w, IF executed THEN moved \union failed ELSE moved))
       /\ stopped' = (failed # {})

(* Store: the entry is embedded if the function is there and succeeds.  *)
StoreMemory(e) ==
  LET id == counter + 1
      w  == With(working, id, Entry(e))
      mistaken(m) == m[1] # process /\ Has(vectors, m) /\ ~Has(vectors', m)
  IN /\ Unlocked /\ counter < MaxMemories
     /\ counter' = id
     /\ IF Cardinality(DOMAIN w) > Capacity
          THEN ConsolidateWorking(w)
          ELSE working' = w /\ UNCHANGED <<vectors, stopped>>
     /\ fate' = [m \in DOMAIN fate \union {Me(id)} |->
                   IF m = Me(id) THEN "kept"
                   ELSE IF fate[m] = "kept" /\ mistaken(m) THEN "mistaken" ELSE fate[m]]
     /\ recalls' = With(recalls, id, 0)
     /\ UNCHANGED <<process, reader, clashed>>

(* What the strategies store, each with an importance of its own; and the   *)
(* memories of CreateEpisodicMemory, one for every step of an execution and *)
(* one that lists them, between which others may come.                      *)
StoreReasoningTrace(e)  == StoreMemory(e)
StorePlan(e)            == StoreMemory(e)
StorePlanStep(e)        == StoreMemory(e)
StoreReflection(e)      == StoreMemory(e)
CreateEpisodicMemory(e) == StoreMemory(e)

(* Forget: when the vector store fails the memory may be there still. *)
Forget(id) ==
  /\ Unlocked
  /\ \E ok, executed \in BOOLEAN :
       /\ ok => executed
       /\ working' = But(working, {id})
       /\ vectors' = IF executed THEN But(vectors, {id}) ELSE vectors
       /\ Fates("forgotten", {id})
  /\ UNCHANGED <<process, counter, reader, recalls, clashed, stopped>>

(* Clear, which leaves the vector store alone. *)
ClearMemories ==
  /\ Unlocked
  /\ working' = <<>>
  /\ fate' = [m \in DOMAIN fate |-> IF Has(working, m) /\ ~Has(vectors, m) THEN "forgotten" ELSE fate[m]]
  /\ UNCHANGED <<process, counter, vectors, reader, recalls, clashed, stopped>>

(* A new process, in which NewMemoryManager is called for the same agent:   *)
(* only what the stores hold is left.                                       *)
Restart ==
  /\ process < MaxProcesses
  /\ process' = process + 1
  /\ counter' = 0
  /\ working' = <<>>
  /\ reader' = [r \in Readers |-> [NoReader EXCEPT !.calls = reader[r].calls]]
  /\ fate' = [m \in DOMAIN fate |-> IF Has(working, m) /\ ~Has(vectors, m) THEN "lost" ELSE fate[m]]
  /\ recalls' = <<>> /\ clashed' = {} /\ stopped' = FALSE
  /\ UNCHANGED <<vectors>>

-----------------------------------------------------------------------------
(* Recall.  Under the read lock it counts its accesses to the entries that  *)
(* it returns, as other readers do.                                         *)
Reads(r, at, target, R) ==
  /\ reader[r].at = "idle" /\ reader[r].calls < MaxRecalls
  /\ reader' = [reader EXCEPT ![r] = [NoReader EXCEPT !.at = "recalled", !.then = at, !.todo = R,
                                        !.target = target, !.calls = reader[r].calls + 1]]
  /\ recalls' = [i \in DOMAIN recalls |-> IF i \in R THEN recalls[i] + 1 ELSE recalls[i]]
  /\ UNCHANGED <<process, counter, working, vectors, fate, clashed, stopped>>

InTier(tier) == {i \in DOMAIN vectors : vectors[i].tier = tier}

(* The limit may leave out any. *)
RecallWorking(r) == \E R \in SUBSET DOMAIN working : Reads(r, "idle", <<>>, R)
RecallTier(r, tier) ==
  \E R \in SUBSET InTier(tier) : Reads(r, "idle", <<>>, R \intersect DOMAIN working)

(* A variant that recalls the embedding as well. *)
RecalledWhole(i) == [what |-> vectors[i].what, id |-> i, embedded |-> TRUE]

(* A match has no embedding. *)
Recalled(i) == [what |-> vectors[i].what, id |-> i, embedded |-> FALSE]

(* Promote: recalls the short-term memories, all of them, and finds its own *)
(* or fails ...                                                             *)
PromoteLooks(r, i) ==
  /\ i \in InTier("short")
  /\ Reads(r, "found", Recalled(i), InTier("short") \intersect DOMAIN working)

(* ... and writes it, if it has an embedding, when it has the lock.         *)
Promote(r) ==
  LET t == reader[r].target
  IN /\ Unlocked /\ reader[r].at = "found"
     /\ vectors' = IF t.embedded THEN With(vectors, t.id, [what |-> t.what, tier |-> "long"]) ELSE vectors
     /\ reader' = [reader EXCEPT ![r] = [NoReader EXCEPT !.calls = reader[r].calls]]
     /\ UNCHANGED <<process, counter, working, fate, recalls, clashed, stopped>>

(* original.AccessCount++ reads and writes.                                 *)
ReadCount(r) ==
  \E i \in reader[r].todo :
    /\ reader[r].at = "recalled"
    /\ reader' = [reader EXCEPT ![r].at = "counting", ![r].todo = @ \ {i}, ![r].one = i,
                                ![r].seen = working[i].count]
    /\ clashed' = IF \E q \in Readers : reader[q].at = "counting" /\ reader[q].one = i
                  THEN clashed \union {i} ELSE clashed
    /\ UNCHANGED <<process, counter, working, vectors, fate, recalls, stopped>>

WriteCount(r) ==
  /\ reader[r].at = "counting"
  /\ working' = [working EXCEPT ![reader[r].one].count = reader[r].seen + 1]
  /\ reader' = [reader EXCEPT ![r].at = "recalled"]
  /\ UNCHANGED <<process, counter, vectors, fate, recalls, clashed, stopped>>

Returns(r) ==
  /\ reader[r].at = "recalled" /\ reader[r].todo = {}
  /\ reader' = [reader EXCEPT ![r] = [NoReader EXCEPT !.at = reader[r].then, !.calls = reader[r].calls,
                                        !.target = reader[r].target]]
  /\ UNCHANGED <<process, counter, working, vectors, fate, recalls, clashed, stopped>>

ReaderStep(r) ==
  \/ RecallWorking(r) \/ RecallTier(r, "short") \/ RecallTier(r, "long")
  \/ \E i \in DOMAIN vectors : PromoteLooks(r, i)
  \/ ReadCount(r) \/ WriteCount(r) \/ Returns(r) \/ Promote(r)

MemNext ==
  \/ \E e \in BOOLEAN : \/ StoreReasoningTrace(e) \/ StorePlan(e) \/ StorePlanStep(e)
                        \/ StoreReflection(e) \/ CreateEpisodicMemory(e)
  \/ \E i \in DOMAIN working \union DOMAIN vectors : Forget(i)
  \/ ClearMemories \/ Restart
  \/ \E r \in Readers : ReaderStep(r)

MemSpec == MemInit /\ [][MemNext]_memVars

-----------------------------------------------------------------------------
(* A memory stays until it is forgotten, its process ends before it has     *)
(* moved, or a later process takes its ID for another; and then it is gone, *)
(* whatever a Promote found before.                                         *)
MemoriesStay == \A m \in DOMAIN fate : fate[m] = "kept" <=> Has(working, m) \/ Has(vectors, m)

(* Working memory is over its capacity only with entries that have no       *)
(* embedding, or after an error; and a memory is in both places only when   *)
(* an error came in between.                                                *)
CapacityHolds ==
  /\ Cardinality(DOMAIN working) > Capacity /\ ~stopped => \A i \in DOMAIN working : ~working[i].embedded
  /\ \A i \in DOMAIN working : Has(vectors, working[i].what) => working[i].tier = "short"

(* Accesses are counted, until two readers count the same one at once.      *)
AccessesCount ==
  Unlocked => \A i \in DOMAIN working \ clashed : working[i].count = recalls[i]

MemoriesHold == MemoriesStay /\ CapacityHolds /\ AccessesCount
=============================================================================
