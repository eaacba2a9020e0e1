----------------------------- MODULE MCKindTree -----------------------------
(* The comparison of one list of rows with one list of objects, over all    *)
(* short lists, and by itself the tree of kinds whose synchronisation uses  *)
(* it level by level.                                                       *)
EXTENDS SetCompare, KindTree

VARIABLE mode   \* which of the two is explored

all == <<mode, vars, treeAll>>

\* A comparison that has ended.
Compared ==
  /\ dbSet = <<>> /\ extSet = <<>> /\ pc = "done" /\ i = 1 /\ j = 1
  /\ removed = <<>> /\ commonDB = <<>> /\ commonExt = <<>> /\ added = <<>>

MCInit ==
  /\ mode \in {"compare", "tree"} /\ TreeInit
  /\ IF mode = "compare" THEN Init ELSE Compared

Compare(A) == mode = "compare" /\ A /\ UNCHANGED <<mode, treeAll>>
Tree(A) == mode = "tree" /\ A /\ UNCHANGED <<mode, vars>>

MCNext == Compare(Next) \/ Tree(TreeNext)

\* The fairness of the two: the comparison makes no call that may block, and
\* informers, handlers, the periodic walk and tasks keep running.
MCFairness ==
  /\ WF_all(Compare(Next))
  /\ \A k \in Kinds : WF_all(Tree(InformerApply(k))) /\ WF_all(Tree(Handler(k)))
  /\ WF_all(Tree(Walk)) /\ WF_all(Tree(SubmitSync))
  /\ WF_all(Tree(DeleteNamespaceTask)) /\ WF_all(Tree(PurgeAllByCluster))

MCSpec == MCInit /\ [][MCNext]_all /\ MCFairness

\* Once the cluster stops changing, its rows become and stay its objects at
\* every level (SyncClusterResources and the event handlers).
RowsConverge == mode = "tree" => TreeConverges
=============================================================================
