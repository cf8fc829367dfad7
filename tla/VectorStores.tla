----------------------------- MODULE VectorStores -----------------------------
(***************************************************************************)
(* The VectorStores of integrations/vectorstores: one in memory and        *)
(* clients of five services.  They promise one interface - Upsert, Query,  *)
(* Delete - and differ in what a failure leaves behind, in whether what    *)
(* New has opened exists, and in what a filter means.                      *)
(*                                                                         *)
(* Of a service's own behaviour the model has what the clients build on:   *)
(* a batch of pgvector is a transaction, Chroma's add leaves alone what    *)
(* there is, Weaviate answers per object, a request may be executed        *)
(* without its answer arriving.                                            *)
(***************************************************************************)
EXTENDS Naturals, Sequences, FiniteSets

CONSTANTS Apps,       \* programs that share the service
          Kinds,      \* the stores considered
          Batches,    \* what applications upsert: sequences of vectors
          IdLists,    \* what they delete: sequences of IDs
          Filters,    \* what they filter by: functions from metadata keys to values
          MaxAppCalls    \* bound: calls of an application

(* An empty list of IDs is answered at once; batches and filters are slices *)
(* and maps in memory.                                                     *)
ASSUME VectorAssumption ==
  /\ Kinds \subseteq {"memory", "pgvector", "chroma", "qdrant", "weaviate", "pinecone"}
  /\ IdLists \subseteq Seq(STRING) \ {<<>>}
  /\ \A f \in Filters : IsFiniteSet(DOMAIN f)
  /\ \A b \in Batches : IsFiniteSet(DOMAIN b)

(* A vector: id; good, when ID and values are not empty; dim, its length;   *)
(* meta, its metadata, a function.  A value has a type and a text.          *)
Size == 1    \* the length of the vectors that the collection is for

VARIABLES kind,       \* which store
          exists,     \* the collection, table or class exists
          opener,     \* where New is, by application
          stored,     \* the vectors in the store, by ID
          task        \* the call each application makes, or made last

vectorVars == <<kind, exists, opener, stored, task>>

(* What it does, with what, and the IDs still to do; errs, those that had   *)
(* an error; had, those that were there before; claim, those that no other  *)
(* call has named since.                                                    *)
Task(do, of, todo, had, at) ==
  [do |-> do, of |-> of, todo |-> todo, errs |-> {}, had |-> had, claim |-> {}, at |-> at, calls |-> 0]

NoTask == Task("none", <<>>, <<>>, {}, "idle")

VectorInit ==
  /\ kind \in Kinds
  /\ exists \in IF kind = "memory" THEN {TRUE} ELSE BOOLEAN
  /\ opener = [p \in Apps |-> "new"]
  /\ stored = <<>>
  /\ task = [p \in Apps |-> NoTask]

-----------------------------------------------------------------------------
(* New. *)
Opened(p, at) == opener' = [opener EXCEPT ![p] = at]

NewMemory(p) == kind = "memory" /\ Opened(p, "open") /\ UNCHANGED exists

(* The table is created unless it exists. *)
NewPgVector(p) == kind = "pgvector" /\ exists' = TRUE /\ Opened(p, "open")

(* A host that is given is believed; otherwise the index must exist. *)
NewPinecone(p) ==
  /\ kind = "pinecone"
  /\ \E host \in BOOLEAN : Opened(p, IF host \/ exists THEN "open" ELSE "failed")
  /\ UNCHANGED exists

(* The others look first ...                                                *)
LookFor(p, sized) ==
  Opened(p, IF exists THEN "open" ELSE IF sized THEN "absent" ELSE "unsized") /\ UNCHANGED exists

NewChroma(p)   == kind = "chroma" /\ LookFor(p, TRUE)
NewWeaviate(p) == kind = "weaviate" /\ LookFor(p, TRUE)
NewQdrant(p)   == kind = "qdrant" /\ \E sized \in BOOLEAN : LookFor(p, sized)

(* ... and create second, when another program may have been faster.        *)
Creates(p) == /\ exists' = TRUE
              /\ Opened(p, IF exists THEN "failed" ELSE "open")

CreateChroma(p)   == kind = "chroma" /\ Creates(p)
CreateWeaviate(p) == kind = "weaviate" /\ Creates(p)
CreateQdrant(p)   == kind = "qdrant" /\ Creates(p)

OpenStore(p) ==
  /\ \/ opener[p] = "new" /\ (NewMemory(p) \/ NewPgVector(p) \/ NewPinecone(p)
                              \/ NewChroma(p) \/ NewWeaviate(p) \/ NewQdrant(p))
     \/ opener[p] = "absent" /\ (CreateChroma(p) \/ CreateWeaviate(p) \/ CreateQdrant(p))
  /\ UNCHANGED <<kind, stored, task>>

(* Without a size Qdrant's collection is said to come with the first        *)
(* insert, and the store is open.                                           *)
Ready(p) == opener[p] \in {"open", "unsized"}

-----------------------------------------------------------------------------
(* Upsert: the places in the batch of what is put, or the IDs of what is    *)
(* deleted; and what is answered.                                          *)
Outcome(puts, ok) == [puts |-> puts, ok |-> ok]
Named(b) == {b[n].id : n \in DOMAIN b}
Nothing == Outcome({}, FALSE)
AllGood(b) == \A n \in DOMAIN b : b[n].good
Fits(v) == v.dim = Size
AllFit(b) == \A n \in DOMAIN b : Fits(b[n])
Whole(b) == Outcome(DOMAIN b, TRUE)

(* One by one: those before the first bad one are in. *)
UpsertMemory(b) ==
  {IF AllGood(b) THEN Whole(b) ELSE Outcome({n \in DOMAIN b : \A m \in 1 .. n : b[m].good}, FALSE)}

UpsertPgVector(b) == IF AllGood(b) /\ AllFit(b) THEN {Whole(b)} ELSE {Nothing}

(* What is there stays; of several with one ID it adds one, whichever.      *)
UpsertChroma(b) ==
  IF AllGood(b) /\ AllFit(b)
    THEN {Outcome(puts, TRUE) :
            puts \in {P \in SUBSET {n \in DOMAIN b : b[n].id \notin DOMAIN stored} :
                        {b[n].id : n \in P} = Named(b) \ DOMAIN stored}}
    ELSE {Nothing}

UpsertQdrant(b) == IF AllGood(b) /\ exists /\ AllFit(b) THEN {Whole(b)} ELSE {Nothing}

Accepted(b, lost) == {n \in DOMAIN b : Fits(b[n]) /\ b[n].id \notin lost}

(* A variant that takes the batch for good once the request was answered. *)
UpsertWeaviateUnread(b) ==
  IF AllGood(b) THEN {Outcome(Accepted(b, lost), TRUE) : lost \in SUBSET Named(b)} ELSE {Nothing}

UpsertWeaviate(b) ==
  IF AllGood(b)
    THEN {Outcome(Accepted(b, lost), Accepted(b, lost) = DOMAIN b) : lost \in SUBSET Named(b)}
    ELSE {Nothing}

(* Metadata of a type that has no protobuf value is refused. *)
Convertible(f) == \A k \in DOMAIN f : f[k].type # "list"

UpsertPinecone(b) ==
  IF AllGood(b) /\ exists /\ AllFit(b) /\ \A n \in DOMAIN b : Convertible(b[n].meta)
    THEN {Whole(b)} ELSE {Nothing}

Outcomes(b) == CASE kind = "memory"   -> UpsertMemory(b)
                 [] kind = "pgvector" -> UpsertPgVector(b)
                 [] kind = "chroma"   -> UpsertChroma(b)
                 [] kind = "qdrant"   -> UpsertQdrant(b)
                 [] kind = "weaviate" -> UpsertWeaviate(b)
                 [] kind = "pinecone" -> UpsertPinecone(b)

(* A request that does not arrive, or whose answer does not. *)
Lossy(outcomes) ==
  IF kind = "memory" THEN outcomes
  ELSE outcomes \union {Nothing} \union {[o EXCEPT !.ok = FALSE] : o \in outcomes}

(* The vectors at puts, of several with one ID the last. *)
Latest(places) == CHOOSE n \in places : \A m \in places : m <= n
Places(b, i)   == {n \in DOMAIN b : b[n].id = i}

PutVectors(b, puts) ==
  [i \in DOMAIN stored \union {b[n].id : n \in puts} |->
     IF Places(b, i) \intersect puts = {} THEN stored[i]
     ELSE b[Latest(Places(b, i) \intersect puts)]]

Settled(ok) == IF ok THEN "done" ELSE "failed"

CanCall(p) == Ready(p) /\ task[p].at # "open" /\ task[p].calls < MaxAppCalls

(* The call t of p takes the place of others' for the IDs that it names. *)
Calls(p, named, t) ==
  task' = [q \in Apps |-> IF q = p THEN [t EXCEPT !.claim = named, !.calls = task[p].calls + 1]
                          ELSE [task[q] EXCEPT !.claim = @ \ named]]

Upsert(p, b) ==
  /\ CanCall(p)
  /\ \E o \in Lossy(Outcomes(b)) :
       /\ stored' = PutVectors(b, o.puts)
       /\ Calls(p, Named(b), Task("upsert", b, <<>>, DOMAIN stored, Settled(o.ok)))
  /\ UNCHANGED <<kind, exists, opener>>

-----------------------------------------------------------------------------
(* Delete, of all IDs at once. *)
IdsOf(ids)   == {ids[n] : n \in DOMAIN ids}
Dropped(ids) == [i \in DOMAIN stored \ ids |-> stored[i]]

DeleteMemory(ids)   == {Outcome(IdsOf(ids), TRUE)}
DeletePgVector(ids) == {Outcome(IdsOf(ids), TRUE)}
DeleteChroma(ids)   == {Outcome(IdsOf(ids), TRUE)}
DeleteQdrant(ids)   == IF exists THEN {Outcome(IdsOf(ids), TRUE)} ELSE {Nothing}
DeletePinecone(ids) == IF exists THEN {Outcome(IdsOf(ids), TRUE)} ELSE {Nothing}

Deletions(ids) == CASE kind = "memory"   -> DeleteMemory(ids)
                    [] kind = "pgvector" -> DeletePgVector(ids)
                    [] kind = "chroma"   -> DeleteChroma(ids)
                    [] kind = "qdrant"   -> DeleteQdrant(ids)
                    [] kind = "pinecone" -> DeletePinecone(ids)

DeleteVectors(p, ids) ==
  /\ CanCall(p) /\ kind # "weaviate"
  /\ \E o \in Lossy(Deletions(ids)) :
       /\ stored' = Dropped(o.puts)
       /\ Calls(p, IdsOf(ids), Task("delete", ids, <<>>, {}, Settled(o.ok)))
  /\ UNCHANGED <<kind, exists, opener>>

(* Weaviate's IDs are deleted one by one, the others also after an error.   *)
DeleteWeaviate(p, ids) ==
  /\ CanCall(p) /\ kind = "weaviate"
  /\ Calls(p, IdsOf(ids), Task("delete", ids, ids, {}, "open"))
  /\ UNCHANGED <<kind, exists, opener, stored>>

(* A variant whose error is that of the last ID. *)
LastErrOfAll(p, ok) == IF ok THEN {} ELSE {Head(task[p].todo)}

LastErr(p, ok) == IF ok THEN task[p].errs ELSE task[p].errs \union {Head(task[p].todo)}

DeleteNext(p) ==
  /\ task[p].at = "open"
  /\ \E gone, ok \in BOOLEAN :
       LET rest == Tail(task[p].todo)
       IN /\ ok => gone
          /\ stored' = IF gone THEN Dropped({Head(task[p].todo)}) ELSE stored
          /\ task' = [q \in Apps |->
               IF q # p THEN [task[q] EXCEPT !.claim = @ \ {Head(task[p].todo)}]
               ELSE [task[p] EXCEPT !.todo = rest, !.errs = LastErr(p, ok),
                       !.at = IF rest # <<>> THEN "open" ELSE Settled(LastErr(p, ok) = {})]]
  /\ UNCHANGED <<kind, exists, opener>>

(* Clear, which only the store in memory has. *)
ClearMemory ==
  /\ kind = "memory" /\ stored # <<>>
  /\ stored' = <<>>
  /\ task' = [p \in Apps |-> [task[p] EXCEPT !.claim = {}]]
  /\ UNCHANGED <<kind, exists, opener>>

VectorNext ==
  \/ \E p \in Apps :
       \/ OpenStore(p)
       \/ \E b \in Batches : Upsert(p, b)
       \/ \E ids \in IdLists : DeleteVectors(p, ids) \/ DeleteWeaviate(p, ids)
       \/ DeleteNext(p)
  \/ ClearMemory

VectorSpec == VectorInit /\ [][VectorNext]_vectorVars

-----------------------------------------------------------------------------
(* Query with a filter: the sets of IDs it may return, of vectors of the    *)
(* right length and with a limit that leaves none out; None is an error or, *)
(* in memory, the panic of a comparison of two lists.                       *)
None == {"none"}

Where(f, Agree(_, _)) ==
  {i \in DOMAIN stored : /\ Fits(stored[i])
                         /\ \A k \in DOMAIN f : k \in DOMAIN stored[i].meta
                                                 /\ Agree(stored[i].meta[k], f[k])}

Same(m, v) == m = v
Said(m, v) == m.text = v.text

SaidPg(m, v)     == Said(m, v) /\ m.type # "list" /\ v.type # "list"
Keyword(m, v)    == Said(m, v) /\ m.type # "int" /\ (m.type = "list" <=> v.type = "list")
SaidString(m, v) == Said(m, v) /\ m.type = "string" /\ v.type # "list"

QueryMemory(f)   == {Where(f, Same)} \union IF Convertible(f) THEN {} ELSE {None}
QueryPgVector(f) == {Where(f, SaidPg)}
QueryChroma(f)   == IF Convertible(f) THEN {Where(f, Same)} ELSE {None}
QueryQdrant(f)   == IF exists THEN {Where(f, Keyword)} ELSE {None}

Only(f, k) == [l \in {k} |-> f[l]]

(* Each further condition takes the place of the operand before. *)
QueryWeaviate(f) ==
  IF DOMAIN f = {} THEN {Where(f, SaidString)}
  ELSE {Where(Only(f, k), SaidString) : k \in DOMAIN f}

(* A filter that cannot be converted is none. *)
QueryPinecone(f) == IF ~exists THEN {None} ELSE IF Convertible(f) THEN {Where(f, Same)}
                    ELSE {Where(<<>>, Same)}

Results(f) == CASE kind = "memory"   -> QueryMemory(f)
                [] kind = "pgvector" -> QueryPgVector(f)
                [] kind = "chroma"   -> QueryChroma(f)
                [] kind = "qdrant"   -> QueryQdrant(f)
                [] kind = "weaviate" -> QueryWeaviate(f)
                [] kind = "pinecone" -> QueryPinecone(f)

-----------------------------------------------------------------------------
(* A program whose New has succeeded finds the collection there, but for a  *)
(* Qdrant one without a size and a Pinecone index at a given host.          *)
OpenIsThere == \A p \in Apps : opener[p] = "open" /\ kind # "pinecone" => exists

(* Until another call names an ID: after an Upsert that has succeeded the   *)
(* vector given last for it is there, though Chroma keeps the one it had;   *)
(* and after a Delete that has succeeded, none.                             *)
SuccessIsWhole ==
  \A p \in Apps : \A i \in task[p].claim : task[p].at = "done" =>
    IF task[p].do = "delete" THEN i \notin DOMAIN stored
    ELSE LET given == Places(task[p].of, i)
         IN /\ i \in DOMAIN stored
            /\ \/ stored[i] = task[p].of[Latest(given)]
               \/ kind = "chroma" /\ (i \in task[p].had \/ Cardinality(given) > 1)

(* A filter lets through what says the same as it, whichever the store; but *)
(* Weaviate minds only one condition of several, and Pinecone none of those *)
(* it cannot convert.  And of strings it lets all through that do.          *)
FiltersHold ==
  \A f \in Filters : \A found \in Results(f) \ {None} :
    /\ \/ found \subseteq Where(f, Said)
       \/ kind = "weaviate" /\ Cardinality(DOMAIN f) > 1
       \/ kind = "pinecone" /\ ~Convertible(f)
    /\ (\A k \in DOMAIN f : f[k].type = "string")
         => Where(f, Same) \subseteq found

VectorsHold == OpenIsThere /\ SuccessIsWhole /\ FiltersHold
=============================================================================
