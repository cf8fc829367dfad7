-------------------------- MODULE WorkflowExecution --------------------------
(***************************************************************************)
(* One call of Workflow.Execute (workflow.go): executeDAG runs the graph   *)
(* in rounds.  A round takes from toExecute the nodes that are ready,      *)
(* starts one goroutine for each, and waits for all of them.  A goroutine  *)
(* runs its node, records it as completed, failed or not, and then appends *)
(* the node's children to toExecute.                                       *)
(*                                                                         *)
(* toExecute is a list in which a node may occur several times; only how   *)
(* often it occurs matters, so it is kept as a count per node, and so are  *)
(* the goroutines of a round.  The graph does not change during the call.  *)
(***************************************************************************)
EXTENDS Naturals, FiniteSets

CONSTANT Nodes

VARIABLES edges,      \* w.Edges, as pairs <<parent, child>>
          startNodes, \* w.StartNodes
          toExecute,  \* how often each node is in the list toExecute
          round,      \* readyNodes of the current round
          toSpawn,    \* goroutines of the round not yet started
          running,    \* goroutines inside executeNode
          recorded,   \* goroutines past completed[nid] = true, before the append
          completed,  \* the map completed
          executing,  \* the map executing
          succeeded,  \* nodes whose executeNode returned no error
          failed,     \* an error was sent on the channel errors in this round
          ctxDone,    \* ctx is cancelled
          status      \* looping, in a round, or how Execute ended

graph   == <<edges, startNodes>>
workers == <<round, toSpawn, running, recorded>>
maps    == <<completed, executing, succeeded>>
vars    == <<graph, toExecute, workers, maps, failed, ctxDone, status>>

Counts == [Nodes -> Nat]
Zero   == [n \in Nodes |-> 0]
Ends   == {"completed", "failed", "cancelled", "stuck", "crashed"}

Parents(n)  == {p \in Nodes : <<p, n>> \in edges}
Children(n) == {c \in Nodes : <<n, c>> \in edges}
Busy(n)     == toSpawn[n] > 0 \/ running[n] > 0
Waiting     == {n \in Nodes : toExecute[n] > 0}

TypeOK ==
  /\ edges \in SUBSET (Nodes \X Nodes)
  /\ startNodes \in SUBSET Nodes
  /\ toExecute \in Counts
  /\ round \in SUBSET Nodes
  /\ toSpawn \in Counts
  /\ running \in Counts
  /\ recorded \in Counts
  /\ completed \in SUBSET Nodes
  /\ executing \in SUBSET Nodes
  /\ succeeded \in SUBSET completed
  /\ failed \in BOOLEAN
  /\ ctxDone \in BOOLEAN
  /\ status \in {"looping", "round"} \union Ends

-----------------------------------------------------------------------------
(* hasCycle is FALSE: every set of nodes has one without a parent in it.    *)
Acyclic(E) == \A S \in SUBSET Nodes : 
                S # {} => \E n \in S : \A p \in S : <<p, n>> \notin E

(* Execute has checked that there is a start node and that the graph is     *)
(* acyclic; executeDAG has copied the start nodes to toExecute.             *)
Init ==
  /\ edges \in {E \in SUBSET (Nodes \X Nodes) : Acyclic(E)}
  /\ startNodes \in SUBSET Nodes \ {{}}
  /\ toExecute = [n \in Nodes |-> IF n \in startNodes THEN 1 ELSE 0]
  /\ round = {}
  /\ toSpawn = Zero /\ running = Zero /\ recorded = Zero
  /\ completed = {} /\ executing = {} /\ succeeded = {}
  /\ failed = FALSE
  /\ ctxDone = FALSE
  /\ status = "looping"

(* A variant that reads the edges the wrong way round. *)
IsNodeReadyReversed(n) ==
  /\ n \notin completed \union executing
  /\ Children(n) \subseteq completed

(* isNodeReady: not completed, not executing, and every parent completed.   *)
IsNodeReady(n) ==
  /\ n \notin completed \union executing
  /\ Parents(n) \subseteq completed

(* The loop ends when nothing is left to execute. *)
Finish ==
  /\ status = "looping"
  /\ Waiting = {}
  /\ status' = "completed"
  /\ UNCHANGED <<graph, toExecute, workers, maps, failed, ctxDone>>

(* ctx is looked at once per round, before the round. *)
ObserveCancel ==
  /\ status = "looping"
  /\ Waiting # {}
  /\ ctxDone
  /\ status' = "cancelled"
  /\ UNCHANGED <<graph, toExecute, workers, maps, failed, ctxDone>>

(* The head of the loop.  Every occurrence of a ready node in toExecute     *)
(* becomes an entry of readyNodes.                                          *)
BeginRound ==
  /\ status = "looping"
  /\ Waiting # {}
  /\ ~ctxDone
  /\ LET ready == {n \in Waiting : IsNodeReady(n)} IN
       /\ round' = ready
       /\ toSpawn' = [n \in Nodes |-> IF n \in ready THEN toExecute[n] ELSE 0]
       /\ status' = IF ready = {} THEN "stuck" ELSE "round"
  /\ UNCHANGED <<graph, toExecute, running, recorded, maps, failed, ctxDone>>

(* executing[nodeID] = true, without execution.mu, and the go statement.    *)
Spawn(n) ==
  /\ status = "round"
  /\ toSpawn[n] > 0
  /\ toSpawn' = [toSpawn EXCEPT ![n] = @ - 1]
  /\ running' = [running EXCEPT ![n] = @ + 1]
  /\ executing' = executing \union {n}
  /\ UNCHANGED <<graph, toExecute, round, recorded, completed, succeeded,
                 failed, ctxDone, status>>

(* A variant that keeps the error of a node to itself.                      *)
ExecuteNodeHidesError(n) ==
  /\ status = "round"
  /\ running[n] > 0
  /\ running' = [running EXCEPT ![n] = @ - 1]
  /\ recorded' = [recorded EXCEPT ![n] = @ + 1]
  /\ completed' = completed \union {n}
  /\ executing' = executing \ {n}
  /\ \E ok \in BOOLEAN : succeeded' = IF ok THEN succeeded \union {n} ELSE succeeded
  /\ UNCHANGED <<graph, toExecute, round, toSpawn, failed, ctxDone, status>>

(* A variant with no room on the channel errors: after the first error the  *)
(* goroutines of the round wait for a reader before wg.Done.                *)
ExecuteNodeWaitsForReader(n) ==
  /\ status = "round"
  /\ running[n] > 0
  /\ ~failed
  /\ running' = [running EXCEPT ![n] = @ - 1]
  /\ recorded' = [recorded EXCEPT ![n] = @ + 1]
  /\ completed' = completed \union {n}
  /\ executing' = executing \ {n}
  /\ \E ok \in BOOLEAN :
       /\ succeeded' = IF ok THEN succeeded \union {n} ELSE succeeded
       /\ failed' = (failed \/ ~ok)
  /\ UNCHANGED <<graph, toExecute, round, toSpawn, ctxDone, status>>

(* Whether the tool, the agent, the condition, the transformation or the    *)
(* wait of a node succeeds.  A condition that is false is a success like    *)
(* any other: the result is data, and the children run.                     *)
Outcomes == BOOLEAN

(* executeNode returns, and the first critical section of the goroutine     *)
(* records the node: completed even when it failed.                         *)
ExecuteNode(n) ==
  /\ status = "round"
  /\ running[n] > 0
  /\ running' = [running EXCEPT ![n] = @ - 1]
  /\ recorded' = [recorded EXCEPT ![n] = @ + 1]
  /\ completed' = completed \union {n}
  /\ executing' = executing \ {n}
  /\ \E ok \in Outcomes :
       /\ succeeded' = IF ok THEN succeeded \union {n} ELSE succeeded
       /\ failed' = (failed \/ ~ok)
  /\ UNCHANGED <<graph, toExecute, round, toSpawn, ctxDone, status>>

(* A variant that stops at the first child. *)
AppendOneDependent(n) ==
  /\ status = "round"
  /\ recorded[n] > 0
  /\ recorded' = [recorded EXCEPT ![n] = @ - 1]
  /\ LET new == Children(n) \ (completed \union executing) IN
       toExecute' = IF new = {} THEN toExecute
                    ELSE [toExecute EXCEPT ![CHOOSE c \in new : TRUE] = @ + 1]
  /\ UNCHANGED <<graph, round, toSpawn, running, maps, failed, ctxDone, status>>

(* The second critical section appends every child that is neither          *)
(* completed nor executing, whether or not another parent did so before.    *)
AppendDependents(n) ==
  /\ status = "round"
  /\ recorded[n] > 0
  /\ recorded' = [recorded EXCEPT ![n] = @ - 1]
  /\ toExecute' = [c \in Nodes |->
       IF c \in Children(n) \ (completed \union executing)
       THEN toExecute[c] + 1 ELSE toExecute[c]]
  /\ UNCHANGED <<graph, round, toSpawn, running, maps, failed, ctxDone, status>>

(* wg.Wait returns: the first error ends the execution, otherwise completed *)
(* nodes leave toExecute.                                                   *)
EndRound ==
  /\ status = "round"
  /\ toSpawn = Zero /\ running = Zero /\ recorded = Zero
  /\ IF failed
       THEN status' = "failed" /\ UNCHANGED toExecute
       ELSE /\ status' = "looping"
            /\ toExecute' = [n \in Nodes |->
                              IF n \in completed THEN 0 ELSE toExecute[n]]
  /\ UNCHANGED <<graph, workers, maps, failed, ctxDone>>

(* The write of Spawn is not under execution.mu.  While more goroutines     *)
(* are to be started, it may meet the delete of one already at work, and    *)
(* the Go runtime may stop the program: "concurrent map writes".            *)
MapWritesCollide ==
  /\ status = "round"
  /\ \E n \in Nodes : toSpawn[n] > 0
  /\ \E n \in Nodes : running[n] > 0
  /\ status' = "crashed"
  /\ UNCHANGED <<graph, toExecute, workers, maps, failed, ctxDone>>

Cancel ==
  /\ status \notin Ends
  /\ ctxDone' = TRUE
  /\ UNCHANGED <<graph, toExecute, workers, maps, failed, status>>

Loop == Finish \/ ObserveCancel \/ BeginRound \/ EndRound

Next ==
  \/ Loop
  \/ \E n \in Nodes : Spawn(n) \/ ExecuteNode(n) \/ AppendDependents(n)
  \/ MapWritesCollide
  \/ Cancel

(* The loop and its goroutines run, and every node returns: executeNode     *)
(* gives it a context with a timeout.                                       *)
Fairness ==
  /\ WF_vars(Loop)
  /\ \A n \in Nodes : /\ WF_vars(Spawn(n)) /\ WF_vars(ExecuteNode(n))
                      /\ WF_vars(AppendDependents(n))

Spec     == Init /\ [][Next]_vars
FairSpec == Spec /\ Fairness

-----------------------------------------------------------------------------
(* A node runs only after every one of its parents has succeeded.  A node   *)
(* that failed is recorded as completed too, so this rests on the round     *)
(* barrier and on the error that ends the execution after the round.        *)
ParentsFirst ==
  \A n \in Nodes : Busy(n) \/ n \in completed => Parents(n) \subseteq succeeded

(* A parent and its child are never at work in the same round. *)
RoundIsIndependent == \A n \in round : Parents(n) \intersect round = {}

(* An execution that reports completed has run, with success, every start   *)
(* node and every child of a node it ran: it left nothing out.              *)
CompletedIsClosed ==
  status = "completed" => /\ startNodes \subseteq succeeded
                          /\ \A n \in succeeded : Children(n) \subseteq succeeded

(* Every node runs in its turn, after its parents, and none is left out. *)
RunsInTurn == ParentsFirst /\ CompletedIsClosed

(* The nodes a start node leads to. *)
Reachable == {n \in Nodes : \A S \in SUBSET Nodes :
                (startNodes \subseteq S /\ \A m \in S : Children(m) \subseteq S) => n \in S}

(* "workflow stuck" is reported only for a graph in which a reachable node  *)
(* has a parent that no start node leads to; rounds and repeated entries    *)
(* never starve a node whose parents can all run.                           *)
StuckIsJustified ==
  status = "stuck" => \E n \in Reachable : ~(Parents(n) \subseteq Reachable)

(* Every execution ends, one way or another. *)
Terminates == <>(status \in Ends)

(* TestWorkflow_IsNodeReady_AlreadyExecuting: "expected node not to be      *)
(* ready when already executing".  No node has two goroutines at once.      *)
NoOverlap == \A n \in Nodes : running[n] <= 1
=============================================================================
