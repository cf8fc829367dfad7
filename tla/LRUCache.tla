------------------------------ MODULE LRUCache ------------------------------
(***************************************************************************)
(* What a bounded least-recently-used cache promises: its keys in the      *)
(* order of their last use, the most recent first, never more of them than *)
(* MaxSize (0 is no limit), and none pushed out but the one whose last use *)
(* lies furthest back.                                                     *)
(***************************************************************************)
EXTENDS Naturals, Sequences

CONSTANTS Keys, MaxSize

VARIABLES order,   \* the keys of the cache
          used     \* the key the last step used, if any

Others(k) == SelectSeq(order, LAMBDA j : j # k)
Cached == {order[i] : i \in DOMAIN order}

Init == order = <<>> /\ used = {}

Use(k) == k \in Cached /\ order' = <<k>> \o Others(k) /\ used' = {k}

Put(k) ==
  LET all == <<k>> \o Others(k)
  IN /\ order' = SubSeq(all, 1, IF MaxSize > 0 /\ Len(all) > MaxSize THEN MaxSize ELSE Len(all))
     /\ used' = {k}

(* Deleted, cleared or expired keys go; the others keep their order. *)
Drop(S) == order' = SelectSeq(order, LAMBDA j : j \notin S) /\ used' = {}

Next == \/ \E k \in Keys : Use(k) \/ Put(k)
        \/ \E S \in SUBSET Keys : Drop(S)

Spec == Init /\ [][Next]_<<order, used>>
=============================================================================
