-------------------------- MODULE ReconcilerRefines --------------------------
(* The abstract specifications that Reconciler implements.                  *)
EXTENDS Reconciler

StageOf(s) == IF ~s.exists THEN "absent"
              ELSE IF s.deleting THEN "leaving"
              ELSE IF s.fin THEN "pinned" ELSE "new"

Lifecycle == INSTANCE ServerLifecycle
  WITH stage <- StageOf(cr), child <- sts.exists /\ owned, data <- pvc

\* Whatever the caches, conflicts, retries, restarts and earlier incarnations do,
\* seen from outside the server goes through its life as ServerLifecycle says.
ImplementsLifecycle == Lifecycle!Spec

Reporting == INSTANCE PlayerReport
  WITH lately <- {online}, reported <- cr.players, server <- cr.exists, lost <- spent["loss"]

\* The operator keeps its side of PlayerReport: its finalizer and status updates
\* write whole objects, and yet as long as the CR lives the player count is what the
\* sidecar last reported, across conflicts, retries, restarts of the operator and evictions.
KeepsPlayerReport == Reporting!Spec
=============================================================================
