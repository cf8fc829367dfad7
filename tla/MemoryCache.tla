----------------------------- MODULE MemoryCache -----------------------------
(***************************************************************************)
(* The MemoryCacheStore of integrations/caches/memory: a map of entries    *)
(* and a doubly linked list of their nodes, most recently used first.      *)
(* Set, Delete, Clear and the clean-up hold m.mu throughout; Get looks the *)
(* entry up under the lock, inspects its expiry without it, and takes it   *)
(* again to move the node or remove the entry it still holds a pointer to. *)
(*                                                                         *)
(* An entry and its node are one number, counted in the order of their     *)
(* creation; 0 is the nil pointer.  A node keeps its links when it leaves  *)
(* the list, as in the code.                                               *)
(***************************************************************************)
EXTENDS Naturals, FiniteSets, SequencesExt

CONSTANTS Keys,
          MaxSize,    \* m.maxSize; 0 is no limit
          Gets,       \* goroutines that call Get
          MaxNodes    \* bound: entries created

ASSUME MCAssumption == MaxSize \in Nat /\ MaxNodes \in Nat

VARIABLES entries,    \* m.entries: the entry of each key, or nil
          key,        \* entry.key, by entry
          ttl,        \* entry.expiresAt: nil, in the future or in the past
          list,       \* m.lruList and the links of all nodes
          pc, held,   \* where each Get is, and the entry it looked up
          used,       \* the key the cache was last used for, until something is removed
          raced,      \* a Get used an entry others had removed or renewed meanwhile
          panicked    \* the program has dereferenced nil

vars == <<entries, key, ttl, list, pc, held, used, raced, panicked>>

Nil     == 0
Node    == 1 .. Len(key)
Present == {entries[k] : k \in Keys} \ {Nil}
Cached  == {k \in Keys : entries[k] # Nil}

TypeOK ==
  /\ key \in Seq(Keys)
  /\ entries \in [Keys -> Node \union {Nil}]
  /\ \A k \in Cached : key[entries[k]] = k
  /\ ttl \in [Node -> {"none", "ahead", "over"}]
  /\ list.head \in Node \union {Nil} /\ list.tail \in Node \union {Nil}
  /\ list.prev \in [Node -> Node \union {Nil}]
  /\ list.next \in [Node -> Node \union {Nil}]
  /\ pc \in [Gets -> {"idle", "check", "due", "touch", "remove"}]
  /\ held \in [Gets -> Node \union {Nil}]
  /\ \A g \in Gets : held[g] = Nil <=> pc[g] = "idle"
  /\ used \in {{}} \union {{k} : k \in Keys}
  /\ raced \in BOOLEAN
  /\ panicked \in BOOLEAN

-----------------------------------------------------------------------------
(* The list.  Its nodes may be linked in any way once a Get has raced, so   *)
(* the assignments are made one after the other, as in the code.            *)
SetNext(l, n, m) == IF n = Nil THEN l ELSE [l EXCEPT !.next[n] = m]
SetPrev(l, n, m) == IF n = Nil THEN l ELSE [l EXCEPT !.prev[n] = m]

(* pushFront of a new node n, which has no links. *)
PushFront(l, n) ==
  LET a == [l EXCEPT !.prev = Append(@, Nil), !.next = Append(@, l.head)]
  IN [SetPrev(a, l.head, n) EXCEPT !.head = n, !.tail = IF l.head = Nil THEN n ELSE @]

MoveToFrontPanics(l, n) == n # l.head /\ l.head = Nil

(* A variant that leaves the node where it is. *)
MoveToFrontNot(l, n) == l

MoveToFront(l, n) ==
  IF n = l.head THEN l
  ELSE LET a == SetNext(l, l.prev[n], l.next[n])
           b == SetPrev(a, a.next[n], a.prev[n])
           c == IF n = b.tail THEN [b EXCEPT !.tail = b.prev[n]] ELSE b
       IN [c EXCEPT !.prev = [@ EXCEPT ![n] = Nil, ![l.head] = n],
                    !.next[n] = l.head,
                    !.head = n]

Unlink(l, n) ==
  LET a == IF l.prev[n] # Nil THEN SetNext(l, l.prev[n], l.next[n])
                              ELSE [l EXCEPT !.head = l.next[n]]
  IN IF a.next[n] # Nil THEN SetPrev(a, a.next[n], a.prev[n])
                        ELSE [a EXCEPT !.tail = a.prev[n]]

(* remove: by the entry's key, whatever entry the map has there by now. *)
RemoveEntry(n) ==
  /\ entries' = [entries EXCEPT ![key[n]] = Nil]
  /\ list' = Unlink(list, n)
  /\ used' = {}

-----------------------------------------------------------------------------
Init ==
  /\ entries = [k \in Keys |-> Nil]
  /\ key = <<>>
  /\ ttl = <<>>
  /\ list = [head |-> Nil, tail |-> Nil, prev |-> <<>>, next |-> <<>>]
  /\ pc = [g \in Gets |-> "idle"]
  /\ held = [g \in Gets |-> Nil]
  /\ used = {}
  /\ raced = FALSE
  /\ panicked = FALSE

Panic == panicked' = TRUE /\ UNCHANGED <<entries, key, ttl, list, pc, held, used, raced>>

Lives == {"none", "ahead"}

(* Set of a key the cache has. *)
Update(k, life) ==
  LET n == entries[k]
  IN /\ n # Nil
     /\ IF MoveToFrontPanics(list, n) THEN Panic
        ELSE /\ ttl' = [ttl EXCEPT ![n] = life]
             /\ list' = MoveToFront(list, n)
             /\ used' = {k}
             /\ UNCHANGED <<entries, key, pc, held, raced, panicked>>

Overfull(e) == MaxSize > 0 /\ Cardinality({k \in Keys : e[k] # Nil}) > MaxSize

(* Set of a new key: over the size, the entry of the tail's key goes, if    *)
(* the map still has one.                                                   *)
Create(k, life) ==
  LET n      == Len(key) + 1
      l      == PushFront(list, n)
      e      == [entries EXCEPT ![k] = n]
      victim == e[key'[l.tail]]
  IN /\ entries[k] = Nil
     /\ Len(key) < MaxNodes
     /\ key' = Append(key, k)
     /\ ttl' = Append(ttl, life)
     /\ used' = {k}
     /\ IF Overfull(e) /\ l.tail # Nil /\ victim # Nil
          THEN entries' = [e EXCEPT ![key'[victim]] = Nil] /\ list' = Unlink(l, victim)
          ELSE entries' = e /\ list' = l
     /\ UNCHANGED <<pc, held, raced, panicked>>

Delete(k) ==
  /\ entries[k] # Nil
  /\ RemoveEntry(entries[k])
  /\ UNCHANGED <<key, ttl, pc, held, raced, panicked>>

Clear ==
  /\ entries' = [k \in Keys |-> Nil]
  /\ list' = [list EXCEPT !.head = Nil, !.tail = Nil]
  /\ used' = {}
  /\ UNCHANGED <<key, ttl, pc, held, raced, panicked>>

(* A variant that takes every entry with an expiry for expired. *)
CleanupAnyExpiry ==
  \E order \in SetToSeqs({n \in Present : ttl[n] # "none"}) :
    /\ entries' = [k \in Keys |-> IF entries[k] \in Range(order) THEN Nil ELSE entries[k]]
    /\ list' = FoldLeft(Unlink, list, order)
    /\ used' = IF order = <<>> THEN used ELSE {}
    /\ UNCHANGED <<key, ttl, pc, held, raced, panicked>>

(* A tick of cleanupExpired, in the order in which the map is iterated. *)
CleanupExpired ==
  \E order \in SetToSeqs({n \in Present : ttl[n] = "over"}) :
    /\ entries' = [k \in Keys |-> IF entries[k] \in Range(order) THEN Nil ELSE entries[k]]
    /\ list' = FoldLeft(Unlink, list, order)
    /\ used' = IF order = <<>> THEN used ELSE {}
    /\ UNCHANGED <<key, ttl, pc, held, raced, panicked>>

(* The time of an entry comes. *)
Expire(n) ==
  /\ ttl[n] = "ahead"
  /\ ttl' = [ttl EXCEPT ![n] = "over"]
  /\ UNCHANGED <<entries, key, list, pc, held, used, raced, panicked>>

-----------------------------------------------------------------------------
(* Get of a key the cache has; a miss changes nothing. *)
Lookup(g, k) ==
  /\ pc[g] = "idle" /\ entries[k] # Nil
  /\ held' = [held EXCEPT ![g] = entries[k]]
  /\ pc' = [pc EXCEPT ![g] = "check"]
  /\ UNCHANGED <<entries, key, ttl, list, used, raced, panicked>>

(* Without the lock: entry.expiresAt != nil, and then, read once more, the  *)
(* time it points to.                                                       *)
HasExpiry(g) ==
  /\ pc[g] = "check"
  /\ pc' = [pc EXCEPT ![g] = IF ttl[held[g]] = "none" THEN "touch" ELSE "due"]
  /\ UNCHANGED <<entries, key, ttl, list, held, used, raced, panicked>>

IsOver(g) ==
  /\ pc[g] = "due"
  /\ IF ttl[held[g]] = "none" THEN Panic
     ELSE /\ pc' = [pc EXCEPT ![g] = IF ttl[held[g]] = "over" THEN "remove" ELSE "touch"]
          /\ UNCHANGED <<entries, key, ttl, list, held, used, raced, panicked>>

Return(g) == /\ pc' = [pc EXCEPT ![g] = "idle"]
             /\ held' = [held EXCEPT ![g] = Nil]

Touch(g) ==
  /\ pc[g] = "touch"
  /\ IF MoveToFrontPanics(list, held[g]) THEN Panic
     ELSE /\ list' = MoveToFront(list, held[g])
          /\ used' = {key[held[g]]}
          /\ raced' = (raced \/ held[g] \notin Present)
          /\ Return(g)
          /\ UNCHANGED <<entries, key, ttl, panicked>>

RemoveExpired(g) ==
  /\ pc[g] = "remove"
  /\ RemoveEntry(held[g])
  /\ raced' = (raced \/ held[g] \notin Present \/ ttl[held[g]] # "over")
  /\ Return(g)
  /\ UNCHANGED <<key, ttl, panicked>>

GetStep(g) == (\E k \in Keys : Lookup(g, k)) \/ HasExpiry(g) \/ IsOver(g)
              \/ Touch(g) \/ RemoveExpired(g)

Next ==
  /\ ~panicked
  /\ \/ \E k \in Keys, life \in Lives : Update(k, life) \/ Create(k, life)
     \/ \E k \in Keys : Delete(k)
     \/ Clear
     \/ CleanupExpired
     \/ \E n \in Present \union Range(held) : n # Nil /\ Expire(n)
     \/ \E g \in Gets : GetStep(g)

Spec == Init /\ [][Next]_vars

-----------------------------------------------------------------------------
(* The nodes from the head, as many as there are entries. *)
Walk == LET node[i \in 1 .. Cardinality(Present)] ==
              IF i = 1 THEN list.head
              ELSE IF node[i - 1] = Nil THEN Nil ELSE list.next[node[i - 1]]
        IN node

(* Until a Get races, the cache is a least-recently-used cache: Set and Get *)
(* make a key the most recent, and eviction takes the least recent.  From   *)
(* the race on the promise is void, and the cache counts as emptied.        *)
LRU == INSTANCE LRUCache
         WITH order <- IF raced THEN <<>> ELSE [i \in DOMAIN Walk |-> key[Walk[i]]],
              used  <- IF raced THEN {} ELSE used
ImplementsLRU == LRU!Spec

(* An entry whose time has not come leaves the cache only when it is        *)
(* deleted, everything is cleared, or a new key needs its place, unless a   *)
(* Get removes what a Set has renewed.                                      *)
KeepsFresh ==
  [][\A k \in Cached :
       ttl[entries[k]] # "over" /\ entries'[k] = Nil =>
         \/ raced'
         \/ Delete(k)
         \/ Clear
         \/ Cardinality(Cached) = MaxSize /\ \E j \in Keys \ Cached : entries'[j] # Nil]_vars

=============================================================================
