---------------------- MODULE WorkflowExecution_proofs ----------------------
(***************************************************************************)
(* Safety of a workflow execution for every acyclic graph on any set of    *)
(* nodes.  The heart is Enqueued: a recorded node whose goroutine has made *)
(* its append has no child that is neither completed nor waiting.  It      *)
(* holds because parent and child are never in the same round, so the      *)
(* append never skips a child on account of executing.                     *)
(***************************************************************************)
EXTENDS WorkflowExecution, TLAPS

(* Nothing of a round is left outside it, and a round has no errors yet.    *)
BarrierInv ==
  /\ failed => status \in {"round", "failed", "crashed"}
  /\ status \in {"looping", "completed"} =>
       toSpawn = Zero /\ running = Zero /\ recorded = Zero

(* Until a node fails, completed and succeeded are the same. *)
NoErrorInv == ~failed => completed \subseteq succeeded

(* The goroutines of a round, and the map executing, are about its nodes.   *)
RoundInv ==
  /\ \A n \in Nodes : Busy(n) \/ recorded[n] > 0 => n \in round
  /\ \A n \in executing : n \in Nodes /\ running[n] > 0

(* No child is forgotten, nor a start node. *)
Enqueued ==
  /\ startNodes \subseteq completed \union Waiting
  /\ \A n \in completed : recorded[n] = 0 => Children(n) \subseteq completed \union Waiting
  /\ status = "completed" => Waiting = {}

IInv == /\ TypeOK /\ BarrierInv /\ NoErrorInv /\ RoundInv
        /\ ParentsFirst /\ RoundIsIndependent /\ Enqueued

-----------------------------------------------------------------------------
LEMMA InitInv == Init => IInv
<1> SUFFICES ASSUME Init PROVE IInv
  OBVIOUS
<1> USE DEF Init, Zero, Busy
<1>1. TypeOK
  BY DEF TypeOK, Counts, Ends
<1>2. BarrierInv /\ NoErrorInv /\ RoundInv /\ ParentsFirst /\ RoundIsIndependent
  BY DEF BarrierInv, NoErrorInv, RoundInv, ParentsFirst, RoundIsIndependent
<1>3. startNodes \subseteq Waiting
  BY DEF Waiting
<1>4. Enqueued
  BY <1>3 DEF Enqueued
<1>5. QED
  BY <1>1, <1>2, <1>4 DEF IInv

(* The steps that only change how the execution stands. *)
LEMMA FinishInv == IInv /\ Finish => IInv'
BY DEF IInv, Finish, TypeOK, BarrierInv, NoErrorInv, RoundInv, ParentsFirst,
       RoundIsIndependent, Enqueued, Ends, Counts, Busy, Waiting, Parents,
       Children, graph, workers, maps

LEMMA ObserveInv == IInv /\ ObserveCancel => IInv'
<1> SUFFICES ASSUME IInv, ObserveCancel PROVE IInv'
  OBVIOUS
<1>1. ~failed
  BY DEF IInv, BarrierInv, ObserveCancel
<1>2. QED
  BY <1>1
     DEF IInv, ObserveCancel, TypeOK, BarrierInv, NoErrorInv, RoundInv,
         ParentsFirst, RoundIsIndependent, Enqueued, Ends, Counts, Busy, Waiting,
         Parents, Children, graph, workers, maps

LEMMA CancelInv == IInv /\ Cancel => IInv'
BY DEF IInv, Cancel, TypeOK, BarrierInv, NoErrorInv, RoundInv, ParentsFirst,
       RoundIsIndependent, Enqueued, Ends, Counts, Busy, Waiting, Parents,
       Children, graph, workers, maps

LEMMA CollideInv == IInv /\ MapWritesCollide => IInv'
BY DEF IInv, MapWritesCollide, TypeOK, BarrierInv, NoErrorInv, RoundInv,
       ParentsFirst, RoundIsIndependent, Enqueued, Ends, Counts, Busy, Waiting,
       Parents, Children, graph, workers, maps

(* The ready nodes are not completed, and their parents are: so they are    *)
(* independent of each other, and their parents have succeeded.             *)
LEMMA BeginInv == IInv /\ BeginRound => IInv'
<1> SUFFICES ASSUME IInv, BeginRound PROVE IInv'
  OBVIOUS
<1> DEFINE ready == {n \in Waiting : IsNodeReady(n)}
<1>1. /\ round' = ready
      /\ toSpawn' = [n \in Nodes |-> IF n \in ready THEN toExecute[n] ELSE 0]
      /\ status' = IF ready = {} THEN "stuck" ELSE "round"
      /\ UNCHANGED <<edges, startNodes, toExecute, running, recorded, completed,
                     executing, succeeded, failed, ctxDone>>
  BY DEF BeginRound, graph, maps
<1>2. status = "looping" /\ ~failed
  BY DEF BeginRound, IInv, BarrierInv
<1>3. toSpawn = Zero /\ running = Zero /\ recorded = Zero 
  BY <1>2 DEF IInv, BarrierInv
<1>4. ready \subseteq Nodes /\ \A n \in ready : /\ n \notin completed
                                               /\ n \notin executing
                                               /\ Parents(n) \subseteq completed
  BY DEF IsNodeReady, Waiting
<1>5. TypeOK'
  BY <1>1, <1>4 DEF IInv, TypeOK, Counts, Ends
<1>6. BarrierInv' /\ NoErrorInv'
  BY <1>1, <1>2 DEF IInv, BarrierInv, NoErrorInv
<1>7. ParentsFirst'
  <2>1. \A n \in Nodes : Busy(n)' => n \in ready
    BY <1>1, <1>3 DEF Busy, Zero
  <2>2. \A n \in ready : Parents(n) \subseteq succeeded
    BY <1>2, <1>4 DEF IInv, NoErrorInv
  <2>3. QED
    BY <1>1, <2>1, <2>2 DEF IInv, ParentsFirst, Parents
<1>8. RoundIsIndependent'
  BY <1>1, <1>4 DEF RoundIsIndependent, Parents
<1>9. Enqueued'
  BY <1>1, <1>2 DEF IInv, Enqueued, Waiting, Children
<1>10. RoundInv'
  <2>1. executing = {}
    BY <1>3 DEF IInv, RoundInv, Zero
  <2>2. QED
    BY <1>1, <1>3, <2>1 DEF RoundInv, Busy, Zero
<1>11. QED
  BY <1>5, <1>6, <1>7, <1>8, <1>9, <1>10 DEF IInv

-----------------------------------------------------------------------------
(* Starting a goroutine moves it from toSpawn to running: the node was busy  *)
(* before and is busy after.                                                *)
LEMMA SpawnInv == IInv /\ (\E n \in Nodes : Spawn(n)) => IInv'
<1> SUFFICES ASSUME IInv, NEW n \in Nodes, Spawn(n) PROVE IInv'
  OBVIOUS
<1>1. /\ toSpawn[n] > 0 /\ status = "round"
      /\ toSpawn' = [toSpawn EXCEPT ![n] = @ - 1]
      /\ running' = [running EXCEPT ![n] = @ + 1]
      /\ executing' = executing \union {n}
      /\ UNCHANGED <<edges, startNodes, toExecute, round, recorded, completed,
                     succeeded, failed, ctxDone, status>>
  BY DEF Spawn, graph
<1>2. toSpawn \in Counts /\ running \in Counts
  BY DEF IInv, TypeOK
<1>3. toSpawn' \in Counts /\ running' \in Counts
  BY <1>1, <1>2 DEF Counts
<1>4. TypeOK'
  BY <1>1, <1>3 DEF IInv, TypeOK
<1>5. \A m \in Nodes : Busy(m)' <=> Busy(m)
  BY <1>1, <1>2 DEF Busy, Counts
<1>6. RoundInv'
  BY <1>1, <1>2, <1>5 DEF IInv, RoundInv, Counts
<1>7. BarrierInv' /\ NoErrorInv' /\ RoundIsIndependent' /\ Enqueued'
  BY <1>1 DEF IInv, BarrierInv, NoErrorInv, RoundIsIndependent, Enqueued,
              Parents, Children, Waiting
<1>8. ParentsFirst'
  BY <1>1, <1>5 DEF IInv, ParentsFirst, Parents
<1>9. QED
  BY <1>4, <1>6, <1>7, <1>8 DEF IInv

(* A node that ends was busy, so its parents have succeeded. *)
LEMMA ExecuteInv == IInv /\ (\E n \in Nodes : ExecuteNode(n)) => IInv'
<1> SUFFICES ASSUME IInv, NEW n \in Nodes, ExecuteNode(n) PROVE IInv'
  OBVIOUS
<1>1. /\ running[n] > 0 /\ status = "round"
      /\ running' = [running EXCEPT ![n] = @ - 1]
      /\ recorded' = [recorded EXCEPT ![n] = @ + 1]
      /\ completed' = completed \union {n}
      /\ executing' = executing \ {n}
      /\ UNCHANGED <<edges, startNodes, toExecute, round, toSpawn, ctxDone, status>>
  BY DEF ExecuteNode, graph
<1>2. PICK ok \in BOOLEAN :
        /\ succeeded' = IF ok THEN succeeded \union {n} ELSE succeeded
        /\ failed' = (failed \/ ~ok)
  BY DEF ExecuteNode
<1>3. running \in Counts /\ recorded \in Counts
  BY DEF IInv, TypeOK
<1>4. running' \in Counts /\ recorded' \in Counts
  BY <1>1, <1>3 DEF Counts
<1>5. succeeded \subseteq succeeded' /\ succeeded' \subseteq completed' /\ failed' \in BOOLEAN
  BY <1>1, <1>2 DEF IInv, TypeOK
<1>6. TypeOK'
  BY <1>1, <1>4, <1>5 DEF IInv, TypeOK
<1>7. Busy(n) /\ \A m \in Nodes : Busy(m)' => Busy(m)
  BY <1>1, <1>3 DEF Busy, Counts
<1>8. RoundInv'
  <2>1. n \in round
    BY <1>7 DEF IInv, RoundInv
  <2>2. \A m \in Nodes : Busy(m)' \/ recorded'[m] > 0 => m \in round
    BY <1>1, <1>3, <1>7, <2>1 DEF IInv, RoundInv, Counts
  <2>3. \A m \in executing' : m \in Nodes /\ running'[m] > 0
    BY <1>1, <1>3 DEF IInv, RoundInv, Counts
  <2>4. QED
    BY <1>1, <2>2, <2>3 DEF RoundInv
<1>9. ParentsFirst'
  <2>1. \A m \in Nodes : Parents(m)' = Parents(m)
    BY <1>1 DEF Parents
  <2>2. QED
    BY <1>1, <1>5, <1>7, <2>1 DEF IInv, ParentsFirst
<1>10. NoErrorInv'
  <2>1. CASE failed'
    BY <2>1 DEF NoErrorInv
  <2>2. CASE ~failed'
    BY <1>1, <1>2, <2>2 DEF IInv, NoErrorInv
  <2>3. QED
    BY <2>1, <2>2
<1>11. Enqueued'
  <2>1. Waiting' = Waiting /\ \A m \in Nodes : Children(m)' = Children(m)
    BY <1>1 DEF Waiting, Children
  <2>2. recorded'[n] # 0 /\ \A m \in Nodes : recorded'[m] = 0 => recorded[m] = 0
    BY <1>1, <1>3 DEF Counts
  <2>3. completed \subseteq Nodes
    BY DEF IInv, TypeOK
  <2>4. QED
    BY <1>1, <2>1, <2>2, <2>3 DEF IInv, Enqueued
<1>12. BarrierInv' /\ RoundIsIndependent'
  BY <1>1 DEF IInv, BarrierInv, RoundIsIndependent, Parents
<1>13. QED
  BY <1>6, <1>8, <1>9, <1>10, <1>11, <1>12 DEF IInv

(* The append finds every child that is not completed: none is executing,   *)
(* since a child of a node of this round is not in this round.              *)
LEMMA AppendInv == IInv /\ (\E n \in Nodes : AppendDependents(n)) => IInv'
<1> SUFFICES ASSUME IInv, NEW n \in Nodes, AppendDependents(n) PROVE IInv'
  OBVIOUS
<1>1. /\ recorded[n] > 0 /\ status = "round"
      /\ recorded' = [recorded EXCEPT ![n] = @ - 1]
      /\ toExecute' = [c \in Nodes |->
            IF c \in Children(n) \ (completed \union executing)
            THEN toExecute[c] + 1 ELSE toExecute[c]]
      /\ UNCHANGED <<edges, startNodes, round, toSpawn, running, completed,
                     executing, succeeded, failed, ctxDone, status>>
  BY DEF AppendDependents, graph, maps
<1>2. recorded \in Counts /\ toExecute \in Counts
  BY DEF IInv, TypeOK
<1>3. recorded' \in Counts /\ toExecute' \in Counts
  BY <1>1, <1>2 DEF Counts
<1>4. TypeOK'
  BY <1>1, <1>3 DEF IInv, TypeOK
<1>5. Waiting \subseteq Waiting'
  BY <1>1, <1>2 DEF Waiting, Counts
<1>6. \A c \in Children(n) : c \notin executing
  <2>1. n \in round
    BY <1>1 DEF IInv, RoundInv
  <2>2. SUFFICES ASSUME NEW c \in Children(n), c \in executing PROVE FALSE
    OBVIOUS
  <2>3. c \in round
    BY <2>2 DEF IInv, RoundInv, Busy
  <2>4. n \in Parents(c)
    BY <2>2 DEF Children, Parents
  <2>5. QED
    BY <2>1, <2>3, <2>4 DEF IInv, RoundIsIndependent
<1>7. Children(n) \subseteq completed \union Waiting'
  BY <1>1, <1>2, <1>6 DEF Waiting, Counts, Children
<1>8. Enqueued'
  <2>1. \A m \in Nodes : Children(m)' = Children(m)
    BY <1>1 DEF Children
  <2>2. \A m \in Nodes : m # n /\ recorded'[m] = 0 => recorded[m] = 0
    BY <1>1, <1>2 DEF Counts
  <2>3. completed \subseteq Nodes
    BY DEF IInv, TypeOK
  <2>4. QED
    BY <1>1, <1>5, <1>7, <2>1, <2>2, <2>3 DEF IInv, Enqueued
<1>9. RoundInv'
  BY <1>1, <1>2 DEF IInv, RoundInv, Busy, Counts
<1>10. BarrierInv' /\ NoErrorInv' /\ RoundIsIndependent' /\ ParentsFirst'
  BY <1>1 DEF IInv, BarrierInv, NoErrorInv, RoundIsIndependent, ParentsFirst,
              Parents, Busy
<1>11. QED
  BY <1>4, <1>8, <1>9, <1>10 DEF IInv

(* Only completed nodes leave toExecute. *)
LEMMA EndRoundInv == IInv /\ EndRound => IInv'
<1> SUFFICES ASSUME IInv, EndRound PROVE IInv'
  OBVIOUS
<1>1. /\ toSpawn = Zero /\ running = Zero /\ recorded = Zero
      /\ UNCHANGED <<edges, startNodes, round, toSpawn, running, recorded,
                     completed, executing, succeeded, failed, ctxDone>>
  BY DEF EndRound, graph, workers, maps
<1>2. \A n \in Nodes : Busy(n)' = Busy(n) /\ Parents(n)' = Parents(n)
                       /\ Children(n)' = Children(n)
  BY <1>1 DEF Busy, Parents, Children
<1>3. NoErrorInv' /\ RoundInv' /\ ParentsFirst' /\ RoundIsIndependent'
  BY <1>1, <1>2 DEF IInv, NoErrorInv, RoundInv, ParentsFirst, RoundIsIndependent, Parents
<1>4. CASE failed
  <2>1. status' = "failed" /\ toExecute' = toExecute
    BY <1>4 DEF EndRound
  <2>2. TypeOK' /\ BarrierInv'
    BY <1>1, <2>1 DEF IInv, TypeOK, BarrierInv, Ends
  <2>3. Enqueued'
    BY <1>1, <2>1 DEF IInv, Enqueued, Waiting, Children
  <2>4. QED
    BY <1>3, <2>2, <2>3 DEF IInv
<1>5. CASE ~failed
  <2>1. /\ status' = "looping"
        /\ toExecute' = [n \in Nodes |-> IF n \in completed THEN 0 ELSE toExecute[n]]
    BY <1>5 DEF EndRound
  <2>2. TypeOK' /\ BarrierInv'
    BY <1>1, <1>5, <2>1 DEF IInv, TypeOK, BarrierInv, Counts
  <2>3. completed \union Waiting \subseteq completed \union Waiting'
    BY <2>1 DEF Waiting
  <2>4. Enqueued'
    BY <1>1, <2>1, <2>3 DEF IInv, Enqueued, Children
  <2>5. QED
    BY <1>3, <2>2, <2>4 DEF IInv
<1>6. QED
  BY <1>4, <1>5

LEMMA StepInv == IInv /\ [Next]_vars => IInv'
<1>1. IInv /\ UNCHANGED vars => IInv'
  BY DEF vars, graph, workers, maps, IInv, TypeOK, BarrierInv, NoErrorInv,
         RoundInv, ParentsFirst, RoundIsIndependent, Enqueued, Busy, Waiting,
         Parents, Children, Counts
<1>2. QED
  BY <1>1, FinishInv, ObserveInv, CancelInv, CollideInv, BeginInv, SpawnInv,
     ExecuteInv, AppendInv, EndRoundInv
     DEF Next, Loop

LEMMA Inductive == Spec => []IInv
<1>1. QED
  BY InitInv, StepInv, PTL DEF Spec

-----------------------------------------------------------------------------
(* Every variable keeps its type; a node that succeeded is completed.       *)
THEOREM TypeCorrect == Spec => []TypeOK
<1>1. IInv => TypeOK
  BY DEF IInv
<1>2. QED
  BY <1>1, Inductive, PTL

(* No round holds a node together with one of its parents. *)
THEOREM RoundCorrect == Spec => []RoundIsIndependent
<1>1. IInv => RoundIsIndependent
  BY DEF IInv
<1>2. QED
  BY <1>1, Inductive, PTL

(* In every acyclic graph a node runs only after all its parents succeeded, *)
(* and a completed execution has run everything the start nodes lead to: the *)
(* nodes that succeeded contain the start nodes and all their own children. *)
THEOREM TurnsCorrect == Spec => []RunsInTurn
<1>1. IInv => CompletedIsClosed
  <2> SUFFICES ASSUME IInv, status = "completed"
               PROVE  /\ startNodes \subseteq succeeded
                      /\ \A n \in succeeded : Children(n) \subseteq succeeded
    BY DEF CompletedIsClosed
  <2>1. ~failed /\ recorded = Zero /\ Waiting = {}
    BY DEF IInv, BarrierInv, Enqueued
  <2>2. completed \subseteq succeeded /\ succeeded \subseteq completed /\ completed \subseteq Nodes
    BY <2>1 DEF IInv, NoErrorInv, TypeOK
  <2>3. QED
    BY <2>1, <2>2 DEF IInv, Enqueued, Zero
<1>2. IInv => RunsInTurn
  BY <1>1 DEF IInv, RunsInTurn
<1>3. QED
  BY <1>2, Inductive, PTL
-----------------------------------------------------------------------------
(* Why a stuck execution had to get stuck: what it runs is reachable, a      *)
(* round begins with nothing completed in the list, and a stuck one had no   *)
(* waiting node whose parents were all completed.                            *)
ReachInv ==
  /\ Acyclic(edges)
  /\ completed \union Waiting \union round \subseteq Reachable
  /\ status = "looping" => Waiting \intersect completed = {}
  /\ status = "stuck" =>
       /\ Waiting # {} /\ Waiting \intersect completed = {}
       /\ \A n \in Waiting : ~(Parents(n) \subseteq completed)
       /\ recorded = Zero

LEMMA ReachableClosed ==
  /\ TypeOK => startNodes \subseteq Reachable
  /\ \A n \in Reachable : Children(n) \subseteq Reachable
BY DEF TypeOK, Reachable, Children

LEMMA InitReach == Init => ReachInv
<1> SUFFICES ASSUME Init PROVE ReachInv
  OBVIOUS
<1>1. Waiting = startNodes
  BY DEF Init, Waiting
<1>2. startNodes \subseteq Reachable
  BY InitInv, ReachableClosed DEF IInv
<1>3. QED
  BY <1>1, <1>2 DEF Init, ReachInv

(* The graph, and with it what is reachable, stays. *)
LEMMA SameGraph ==
  UNCHANGED graph => /\ Reachable' = Reachable
                     /\ Acyclic(edges)' <=> Acyclic(edges)
                     /\ \A n : Parents(n)' = Parents(n) /\ Children(n)' = Children(n)
BY DEF graph, Reachable, Acyclic, Parents, Children

LEMMA StepReach == IInv /\ ReachInv /\ [Next]_vars => ReachInv'
<1> SUFFICES ASSUME IInv, ReachInv, [Next]_vars PROVE ReachInv'
  OBVIOUS
<1>0. UNCHANGED graph
  BY DEF Next, Loop, vars, Finish, ObserveCancel, BeginRound, Spawn, ExecuteNode,
         AppendDependents, EndRound, MapWritesCollide, Cancel
<1> USE <1>0, SameGraph
<1>1. CASE Finish \/ ObserveCancel \/ MapWritesCollide \/ Cancel
  BY <1>1 DEF Finish, ObserveCancel, MapWritesCollide, Cancel, ReachInv, Waiting,
              workers, maps, Ends
<1>2. CASE BeginRound
  <2> DEFINE ready == {n \in Waiting : IsNodeReady(n)}
  <2>1. /\ round' = ready /\ status' = IF ready = {} THEN "stuck" ELSE "round"
        /\ UNCHANGED <<toExecute, completed, recorded>>
        /\ status = "looping" /\ Waiting # {}
    BY <1>2 DEF BeginRound, maps
  <2>2. executing = {} /\ recorded = Zero
    BY <2>1 DEF IInv, BarrierInv, RoundInv, Zero
  <2>3. Waiting' = Waiting /\ Waiting \intersect completed = {}
    BY <2>1 DEF Waiting, ReachInv
  <2>4. ready = {} => \A n \in Waiting : ~(Parents(n) \subseteq completed)
    BY <2>2, <2>3 DEF IsNodeReady
  <2>5. QED
    BY <2>1, <2>2, <2>3, <2>4 DEF ReachInv
<1>3. CASE \E n \in Nodes : Spawn(n)
  BY <1>3 DEF Spawn, ReachInv, Waiting
<1>4. CASE \E n \in Nodes : ExecuteNode(n)
  <2> PICK n \in Nodes : ExecuteNode(n)
    BY <1>4
  <2>1. /\ status = "round" /\ running[n] > 0 /\ completed' = completed \union {n}
        /\ UNCHANGED <<toExecute, round, status>>
    BY DEF ExecuteNode
  <2>2. n \in round
    BY <2>1 DEF IInv, RoundInv, Busy
  <2>3. QED
    BY <2>1, <2>2 DEF ReachInv, Waiting
<1>5. CASE \E n \in Nodes : AppendDependents(n)
  <2> PICK n \in Nodes : AppendDependents(n)
    BY <1>5
  <2>1. /\ status = "round" /\ recorded[n] > 0
        /\ toExecute' = [c \in Nodes |->
              IF c \in Children(n) \ (completed \union executing)
              THEN toExecute[c] + 1 ELSE toExecute[c]]
        /\ UNCHANGED <<round, completed, status>>
    BY DEF AppendDependents, maps
  <2>2. n \in Reachable
    BY <2>1 DEF IInv, RoundInv, ReachInv
  <2>3. Children(n) \subseteq Reachable
    BY <2>2, ReachableClosed
  <2>4. Waiting' \subseteq Waiting \union Children(n)
    BY <2>1 DEF Waiting
  <2>5. QED
    BY <2>1, <2>3, <2>4 DEF ReachInv
<1>6. CASE EndRound
  <2>1. UNCHANGED <<completed, round>> /\ Waiting' \subseteq Waiting
    BY <1>6 DEF EndRound, workers, maps, Waiting
  <2>2. CASE failed
    BY <1>6, <2>1, <2>2 DEF EndRound, ReachInv
  <2>3. CASE ~failed
    <3>1. /\ status' = "looping"
          /\ toExecute' = [n \in Nodes |-> IF n \in completed THEN 0 ELSE toExecute[n]]
      BY <1>6, <2>3 DEF EndRound
    <3>2. Waiting' \intersect completed = {}
      BY <3>1 DEF Waiting
    <3>3. QED
      BY <2>1, <3>1, <3>2 DEF ReachInv
  <2>4. QED
    BY <2>2, <2>3
<1>7. CASE UNCHANGED vars
  BY <1>7 DEF vars, workers, maps, ReachInv, Waiting
<1>8. QED
  BY <1>1, <1>2, <1>3, <1>4, <1>5, <1>6, <1>7 DEF Next, Loop

(* "workflow stuck" is reported only when a reachable node has a parent that *)
(* is not reachable: otherwise some reachable node without a parent left to  *)
(* complete, which exists because the graph is acyclic, was in the list and  *)
(* ready.                                                                    *)
THEOREM StuckCorrect == Spec => []StuckIsJustified
<1>1. IInv /\ ReachInv => StuckIsJustified
  <2> SUFFICES ASSUME IInv, ReachInv, status = "stuck",
                      \A n \in Reachable : Parents(n) \subseteq Reachable
               PROVE  FALSE
    BY DEF StuckIsJustified
  <2> DEFINE left == Reachable \ completed
  <2>1. left \in SUBSET Nodes /\ left # {}
    BY DEF ReachInv, Reachable
  <2>2. PICK n \in left : \A p \in left : <<p, n>> \notin edges
    BY <2>1 DEF ReachInv, Acyclic
  <2>3. Parents(n) \subseteq completed
    BY <2>2 DEF Parents
  <2>4. n \notin Waiting
    BY <2>3 DEF ReachInv
  <2>5. startNodes \subseteq Nodes \ {n}
    BY <2>2, <2>4 DEF IInv, Enqueued, TypeOK
  <2>6. \A m \in Nodes \ {n} : Children(m) \subseteq Nodes \ {n}
    <3> SUFFICES ASSUME NEW m \in Nodes \ {n}, n \in Children(m) PROVE FALSE
      BY DEF Children
    <3>1. m \in completed
      BY <2>3 DEF Children, Parents
    <3>2. Children(m) \subseteq completed \union Waiting
      BY <3>1 DEF IInv, Enqueued, ReachInv, Zero
    <3>3. QED
      BY <2>2, <2>4, <3>2
  <2>7. n \notin Reachable
    BY <2>5, <2>6 DEF Reachable
  <2>8. QED
    BY <2>2, <2>7
<1>2. Spec => []ReachInv
  BY InitReach, StepReach, Inductive, PTL DEF Spec
<1>3. QED
  BY <1>1, <1>2, Inductive, PTL
=============================================================================
