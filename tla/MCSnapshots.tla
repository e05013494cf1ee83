---------------------------- MODULE MCSnapshots ----------------------------
(* Small instances of Snapshots for TLC.                                    *)
EXTENDS Snapshots, TLC

\* Three hours, the middle one not due.
MCDue == {0, 2}

\* Enough reconciles and failures to exceed retainCount by more than one.
PruneBudget == "event" :> 3 @@ "update" :> 2 @@ "fault" :> 2
EventBudget == "event" :> 1 @@ "update" :> 0 @@ "fault" :> 0
=============================================================================
