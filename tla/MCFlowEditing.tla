--------------------------- MODULE MCFlowEditing ---------------------------
(* FlowEditing with the drawing of FlowTree.  *)
EXTENDS FlowEditing, FlowTree
MCStepId == 1..MaxSteps

(* What the tree draws is what the engine will run, each step once.        *)
DrawnIsReachable ==
  \E root \in {Root(flow)} : /\ DrawnIn(root) = Reachable(flow)
                            /\ \A n \in Ids(flow) : Cardinality(DrawnAt(root, n)) <= 1
=============================================================================
