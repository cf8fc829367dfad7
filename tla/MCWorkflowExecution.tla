------------------------ MODULE MCWorkflowExecution ------------------------
(* Instances of WorkflowExecution for TLC: the nodes are numbers and edges  *)
(* lead to greater ones, so that Init ranges over one numbering of every    *)
(* acyclic graph, with every set of start nodes.                            *)
EXTENDS WorkflowExecution

MCInit == Init /\ \A e \in edges : e[1] < e[2]

MCSpec == MCInit /\ [][Next]_vars /\ Fairness
=============================================================================
