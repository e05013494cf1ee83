------------------------------ MODULE Snapshots ------------------------------
(***************************************************************************)
(* The VolumeSnapshots of one server: the scheduled ones, taken by         *)
(* reconcileVolumeSnapshot, the ones snapshotBeforeUpdate takes earlier    *)
(* in the same reconcile, and the pruning of both.  Snapshots are listed   *)
(* and deleted on the API server; they are not watched, and no timer is    *)
(* set for the schedule.                                                   *)
(***************************************************************************)
EXTENDS Integers, FiniteSets

CONSTANTS RetainCount,  \* spec.backup.volumeSnapshot.retainCount
          Due,          \* the hours in which the schedule is open
          HourLength,   \* seconds in an hour
          MaxTime,      \* the clock stops here
          Budget        \* how often each kind of outside event may happen

EventKind == {"event", "update", "fault"}

ASSUME TimeAssumption ==
  RetainCount \in Nat /\ Due \subseteq Nat /\ HourLength \in Nat \ {0} /\ MaxTime \in Nat
ASSUME BudgetAssumption == Budget \in [EventKind -> Nat]

VARIABLES now,      \* seconds
          snaps,    \* the server's VolumeSnapshots, of both kinds
          pending,  \* an image change waits to be applied
          pc,       \* the step of the running reconcile
          doomed,   \* the snapshots the running prune has still to delete
          queued,   \* the work queue holds the server's key
          spent     \* outside events so far, per kind

vars == <<now, snaps, pending, pc, doomed, queued, spent>>

Hour == now \div HourLength

Retain == IF RetainCount = 0 THEN 3 ELSE RetainCount

Init ==
  /\ now = 0 /\ snaps = {} /\ pending = FALSE
  /\ pc = "idle" /\ doomed = {} /\ queued = TRUE
  /\ spent = [k \in EventKind |-> 0]

Spend(kind) ==
  /\ spent[kind] < Budget[kind]
  /\ spent' = [spent EXCEPT ![kind] = @ + 1]

-----------------------------------------------------------------------------
(* The reconcile.                                                           *)

StartReconcile ==
  /\ pc = "idle" /\ queued
  /\ queued' = FALSE
  /\ pc' = IF pending THEN "pre-update" ELSE "schedule"
  /\ UNCHANGED <<now, snaps, pending, doomed, spent>>

\* A snapshot is its trigger and its second, of which the code makes its name;
\* AlreadyExists is ignored.
Create(trigger) == snaps' = snaps \cup {[trigger |-> trigger, created |-> now]}

\* snapshotBeforeUpdate and the update of the StatefulSet ...
SnapshotBeforeUpdate ==
  /\ pc = "pre-update"
  /\ Create("pre-update")
  /\ pending' = FALSE /\ pc' = "schedule"
  /\ UNCHANGED <<now, doomed, queued, spent>>

\* ... which the strict strategy gives up when the snapshot is not ready in time.
StrictSnapshotFails ==
  /\ pc = "pre-update" /\ Spend("fault")
  /\ Create("pre-update")
  /\ pc' = "idle" /\ queued' = TRUE
  /\ UNCHANGED <<now, pending, doomed>>

\* The other strategy updates without a snapshot when none can be created.
SnapshotNotCreated ==
  /\ pc = "pre-update" /\ Spend("fault")
  /\ pending' = FALSE /\ pc' = "schedule"
  /\ UNCHANGED <<now, snaps, doomed, queued>>

\* The schedule is read like a maintenance window, at the hour it is looked at.
CheckSchedule ==
  /\ pc = "schedule"
  /\ pc' = IF Hour \in Due THEN "create" ELSE "idle"
  /\ UNCHANGED <<now, snaps, pending, doomed, queued, spent>>

CreateScheduled ==
  /\ pc = "create"
  /\ Create("schedule")
  /\ pc' = "list"
  /\ UNCHANGED <<now, pending, doomed, queued, spent>>

\* n of the oldest; sort.Slice leaves equal timestamps in any order.
Oldest(S, n) ==
  {D \in SUBSET S : Cardinality(D) = n /\ \A d \in D, k \in S \ D : d.created <= k.created}

\* Mutant: the snapshot just taken is not counted.
ListSnapshotsShort ==
  /\ pc = "list"
  /\ LET n == Cardinality(snaps) - 1
     IN  IF n <= Retain THEN pc' = "idle" /\ UNCHANGED doomed
         ELSE pc' = "delete" /\ doomed' \in Oldest(snaps, n - Retain)
  /\ UNCHANGED <<now, snaps, pending, queued, spent>>

\* Mutant: sorted the other way round.
ListSnapshotsReversed ==
  /\ pc = "list"
  /\ LET n == Cardinality(snaps)
     IN  IF n <= Retain THEN pc' = "idle" /\ UNCHANGED doomed
         ELSE pc' = "delete" /\ \E kept \in Oldest(snaps, Retain) : doomed' = snaps \ kept
  /\ UNCHANGED <<now, snaps, pending, queued, spent>>

\* pruneVolumeSnapshots: List, and the excess over retainCount.
ListSnapshots ==
  /\ pc = "list"
  /\ LET n == Cardinality(snaps)
     IN  IF n <= Retain THEN pc' = "idle" /\ UNCHANGED doomed
         ELSE pc' = "delete" /\ doomed' \in Oldest(snaps, n - Retain)
  /\ UNCHANGED <<now, snaps, pending, queued, spent>>

\* One Delete per step, oldest first.
DeleteOldest ==
  /\ pc = "delete"
  /\ \E D \in Oldest(doomed, 1) :
       /\ snaps' = snaps \ D
       /\ doomed' = doomed \ D
       /\ pc' = IF doomed = D THEN "idle" ELSE "delete"
  /\ UNCHANGED <<now, pending, queued, spent>>

\* A call fails, or the operator restarts; the next reconcile starts over.
Fail ==
  /\ pc # "idle" /\ Spend("fault")
  /\ pc' = "idle" /\ doomed' = {} /\ queued' = TRUE
  /\ UNCHANGED <<now, snaps, pending>>

Reconcile == \/ StartReconcile \/ SnapshotBeforeUpdate \/ CheckSchedule
             \/ CreateScheduled \/ ListSnapshots \/ DeleteOldest

-----------------------------------------------------------------------------
(* The outside world.                                                       *)

Tick ==
  /\ now < MaxTime
  /\ now' = now + 1
  /\ UNCHANGED <<snaps, pending, pc, doomed, queued, spent>>

\* Any event that queues the server: a status patch, a change of a child, ...
Event ==
  /\ Spend("event")
  /\ queued' = TRUE
  /\ UNCHANGED <<now, snaps, pending, pc, doomed>>

UserChangesImage ==
  /\ Spend("update")
  /\ pending' = TRUE /\ queued' = TRUE
  /\ UNCHANGED <<now, snaps, pc, doomed>>

Next == Reconcile \/ StrictSnapshotFails \/ SnapshotNotCreated \/ Fail \/ Tick \/ Event
        \/ UserChangesImage

Spec == Init /\ [][Next]_vars

-----------------------------------------------------------------------------
(* Properties.                                                              *)

\* Pruning, retried after any number of failures half way, deletes a snapshot only
\* while retainCount others at least as recent are kept.
RecentSnapshotsKept ==
  [][\A s \in snaps \ snaps' :
       Cardinality({k \in snaps' : k.created >= s.created}) >= Retain]_vars

\* A reconcile that has taken a scheduled snapshot and ends without an error leaves
\* no more than retainCount, whatever failed reconciles and updates had piled up.
PrunedToRetainCount ==
  [][pc' = "idle" /\ pc \in {"list", "delete"} /\ spent' = spent
       => Cardinality(snaps') <= Retain]_vars

\* Beyond retainCount there is never more than the snapshot of the running reconcile
\* and one for each image change and each failed call: scheduled snapshots, taken by
\* any number of reconciles, do not pile up.
SnapshotsAreBounded ==
  Cardinality(snaps) <= Retain + 1 + spent["update"] + spent["fault"]

-----------------------------------------------------------------------------
(* What the documentation says and the code does not do: each is violated.  *)

\* "schedule is a cron expression that controls how often snapshots are taken"
\* (enshroudedserver_types.go:279): one snapshot for each time the schedule is due.
OneSnapshotPerDueHour ==
  \A a, b \in {s \in snaps : s.trigger = "schedule"} :
    a.created \div HourLength = b.created \div HourLength => a = b

\* "schedule is a cron expression that controls how often snapshots are taken"
\* (enshroudedserver_types.go:279): when an hour that is due ends with the operator
\* at rest, a snapshot was taken in it.
DueHourHasSnapshot ==
  [][Hour # Hour' /\ Hour \in Due /\ pc = "idle" /\ ~queued
       => \E s \in snaps : s.trigger = "schedule" /\ s.created \div HourLength = Hour]_vars
=============================================================================
