---------------------------- MODULE MCReconciler ----------------------------
(* Small instances of Reconciler for TLC.                                   *)
EXTENDS ReconcilerRefines, TLC

CONSTANTS v1, v2

Basic == [image |-> v1, defer |-> FALSE, retain |-> TRUE,
          strategy |-> "NoSnapshot", pw |-> FALSE]

\* Every event kind not named happens n times, the named ones f[k] times.
Bounds(f, n) == f @@ [k \in EventKind |-> n]

\* Create, delete and recreate, with and without retainOnDelete.
LifecycleSpecs  == {Basic, [Basic EXCEPT !.retain = FALSE]}
LifecycleBudget == Bounds("create" :> 2 @@ "edit" :> 1 @@ "delete" :> 2
                          @@ "fault" :> 1 @@ "crash" :> 1, 0)

\* Image updates, held back while players are reported outside the window.
DeferralSpecs  == {[Basic EXCEPT !.defer = TRUE],
                   [Basic EXCEPT !.defer = TRUE, !.image = v2]}
DeferralBudget == Bounds("create" :> 1 @@ "edit" :> 1 @@ "clock" :> 1 @@ "join" :> 1
                         @@ "loss" :> 1, 0)

\* A missing password Secret, snapshots before an image change, and a StatefulSet
\* deleted by hand.
UpgradeSpecs  == {[Basic EXCEPT !.pw = TRUE, !.strategy = "StrictSnapshotBeforeUpdate"],
                  [Basic EXCEPT !.pw = TRUE, !.strategy = "StrictSnapshotBeforeUpdate",
                                !.image = v2],
                  [Basic EXCEPT !.strategy = "SnapshotBeforeUpdate", !.image = v2]}
UpgradeBudget == Bounds("create" :> 1 @@ "edit" :> 1 @@ "secret" :> 2 @@ "evict" :> 1
                        @@ "removeSTS" :> 1, 0)

\* One update that must wait for its players, through a failed call.
ProgressBudget == Bounds("create" :> 1 @@ "edit" :> 1 @@ "join" :> 1 @@ "fault" :> 1, 0)

\* One deletion, and another server in its place, with other events between the steps.
DeletionSpecs  == {[Basic EXCEPT !.retain = FALSE],
                   [Basic EXCEPT !.retain = FALSE, !.image = v2]}
DeletionBudget == Bounds("create" :> 2 @@ "edit" :> 1 @@ "delete" :> 1
                         @@ "resync" :> 1, 0)

\* As DeferralBudget, and the StatefulSet is deleted by hand.
RemovedBudget == Bounds("create" :> 1 @@ "join" :> 1 @@ "removeSTS" :> 1, 0)
=============================================================================
