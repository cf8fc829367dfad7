------------------------------- MODULE MCCaches -------------------------------
(* Instances for TLC of what keeps things: the memory cache; the middlewares *)
(* around a request, the response cache among them; the stores of states and *)
(* the cache on a server; the vector stores; and the memory manager.  In     *)
(* each behaviour one of them, the subject, moves.                           *)
EXTENDS MemoryCache, Middleware, RemoteStores, VectorStores, MemoryManager

VARIABLE subject

allVars == <<vars, mwVars, remoteVars, vectorVars, memVars, subject>>

(* The same two values stand for whoever calls the subject.                 *)
Symmetry == Permutations(Keys) \union Permutations(Gets) \union Permutations(Items)

(* From a race on the properties of the memory cache promise nothing.        *)
UntilRace == ~raced

(* Every middleware meets every other from both sides but the cost one.      *)
MCStacks == {<<"retry", "timeout", "cache", "limit", "cost">>,
             <<"timeout", "retry", "limit", "cost">>,
             <<"cost", "cache", "retry">>,
             <<"cache", "limit", "retry", "cost">>}

(* Two states of one agent, and one whose key is another agent's list.       *)
StateOf(agent, session) == [agent |-> agent, session |-> session]
Plain    == StateOf(<<"b">>, <<"s">>)
MCStates == {Plain, StateOf(<<"b">>, <<"t">>), StateOf(<<"a">>, <<"s">>), StateOf(<<"sessions">>, <<"a">>)}

(* Vectors, good and bad, and filters, with metadata of three types.         *)
OneS == [type |-> "string", text |-> "1"]
TwoS == [type |-> "string", text |-> "2"]
OneI == [type |-> "int", text |-> "1"]
OneL == [type |-> "list", text |-> "1"]

VectorOf(id, good, dim, meta) == [id |-> id, good |-> good, dim |-> dim, meta |-> meta]
FirstA  == VectorOf("a", TRUE, 1, "x" :> OneS @@ "y" :> TwoS)
SecondA == VectorOf("a", TRUE, 1, "x" :> OneI)
FirstB  == VectorOf("b", TRUE, 1, "x" :> OneS)
ListB   == VectorOf("b", TRUE, 1, "x" :> OneL)
WideB   == VectorOf("b", TRUE, 2, "x" :> OneS)
BadB    == VectorOf("b", FALSE, 1, <<>>)

MCKinds   == {"memory", "pgvector", "chroma", "qdrant", "weaviate", "pinecone"}
MCBatches == {<<FirstA, FirstB>>, <<SecondA, BadB>>, <<SecondA, WideB>>, <<FirstA, SecondA>>, <<ListB>>}
MCIdLists == {<<"a", "b">>, <<"b">>}
MCFilters == {<<>>, "x" :> OneS, "x" :> OneI, "x" :> OneL, "x" :> OneS @@ "y" :> OneS}

MCInit ==
  /\ Init /\ RemoteInit /\ MemInit
  /\ subject \in {"cache", "layers", "remote", "vectors", "memories"}
  /\ IF subject = "layers" THEN LayersInit
     ELSE /\ LayersAtRest /\ layers = <<>>
          /\ limiter = [kind |-> "bucket", n |-> Allowance, age |-> 0]
  /\ VectorInit /\ (subject # "vectors" => kind = "memory")

(* Two Gets at once only of a cache that was given no more than two keys,    *)
(* which evicts nothing.                                                     *)
NarrowCache == (\A g \in Gets : pc'[g] # "idle") => Cardinality({key'[n] : n \in DOMAIN key'}) <= 2

(* No more than three requests in all, two through five layers. *)
Narrow == MapThenSumSet(LAMBDA c : request'[c].sent, Requesters) <= IF Len(layers) = 5 THEN 2 ELSE 3

(* Three calls of the cache, or of the first state, in all, or two if others *)
(* are among them; and one command at a time arrives late.                   *)
OnCache(c) == c.do \in {"set", "unset", "clear"}
OnOther(c) == c.do \in {"save", "delete"} /\ c.on # Plain
NarrowRemote ==
  /\ Cardinality(late') <= 1
  /\ LET other == \/ \E x \in States \ {Plain} : {StateKey(x), RowKey(x)} \intersect DOMAIN strings # {}
                  \/ \E c \in Clients : OnOther(call[c]) \/ OnOther(call'[c])
     IN MapThenSumSet(LAMBDA c : call'[c].calls, Clients) <= IF other THEN 2 ELSE 3
  /\ \A c, d \in Clients : OnCache(call'[c]) => call[d].do = "none" \/ OnCache(call[d])
  /\ \A c, d \in Clients : OnCache(call[d]) => call'[c].do = "none" \/ OnCache(call'[c])

(* A third memory only of the first process, and without readers.            *)
NarrowMemories ==
  /\ counter' = 3 => process' = 1 /\ \A r \in Readers : reader'[r].calls = 0
  /\ process' # process => counter < 3

MCNext ==
  /\ UNCHANGED subject
  /\ \/ /\ subject = "cache" /\ Next /\ NarrowCache
        /\ UNCHANGED <<mwVars, remoteVars, vectorVars, memVars>>
     \/ /\ subject = "layers" /\ MwNext /\ Narrow
        /\ UNCHANGED <<vars, remoteVars, vectorVars, memVars>>
     \/ /\ subject = "remote" /\ RemoteNext /\ NarrowRemote
        /\ UNCHANGED <<vars, mwVars, vectorVars, memVars>>
     \/ /\ subject = "vectors" /\ VectorNext
        /\ UNCHANGED <<vars, mwVars, remoteVars, memVars>>
     \/ /\ subject = "memories" /\ MemNext /\ NarrowMemories
        /\ UNCHANGED <<vars, mwVars, remoteVars, vectorVars>>

MCSpec == MCInit /\ [][MCNext]_allVars
=============================================================================
