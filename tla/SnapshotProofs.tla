---------------------------- MODULE SnapshotProofs ----------------------------
(* What pruning deletes and what it leaves, for every retainCount, schedule *)
(* and budget of events.                                                    *)
EXTENDS Snapshots, FiniteSetTheorems, TLAPS

-----------------------------------------------------------------------------
(* Snapshots and the oldest of them.                                        *)

Snapshot == [trigger : {"pre-update", "schedule"}, created : Nat]

LEMMA RetainType == Retain \in Nat
BY TimeAssumption DEF Retain

\* Those that are not the n oldest: as many as are left, and none of them older.
LEMMA OldestRest ==
  ASSUME NEW S \in SUBSET Snapshot, IsFiniteSet(S), NEW n \in Nat, NEW D \in Oldest(S, n)
  PROVE  /\ D \subseteq S /\ IsFiniteSet(D) /\ Cardinality(D) = n
         /\ Cardinality(S \ D) = Cardinality(S) - n
         /\ \A d \in D, k \in S \ D : d.created <= k.created
<1>1. /\ D \subseteq S /\ Cardinality(D) = n
      /\ \A d \in D, k \in S \ D : d.created <= k.created
  BY DEF Oldest
<1>2. IsFiniteSet(D)
  BY <1>1, FS_Subset
<1>3. Cardinality(S \ D) = Cardinality(S) - Cardinality(S \cap D)
  BY FS_Difference
<1>4. S \cap D = D
  BY <1>1
<1> QED
  BY <1>1, <1>2, <1>3, <1>4

-----------------------------------------------------------------------------
(* The inductive invariant.                                                 *)

Types ==
  /\ now \in Nat /\ snaps \subseteq Snapshot /\ IsFiniteSet(snaps)
  /\ doomed \subseteq snaps
  /\ pc \in {"idle", "pre-update", "schedule", "create", "list", "delete"}
  /\ spent \in [EventKind -> Nat]

\* A prune half way: what it has not condemned is what is to be kept, and no older
\* than what it has.
PruneIsExact ==
  IF pc = "delete"
  THEN /\ doomed # {} /\ Cardinality(snaps \ doomed) = Retain
       /\ \A d \in doomed, k \in snaps \ doomed : d.created <= k.created
  ELSE doomed = {}

SnapshotInv == Types /\ PruneIsExact

LEMMA SnapshotInit == Init => SnapshotInv
<1> SUFFICES ASSUME Init PROVE SnapshotInv
  OBVIOUS
<1>1. /\ now = 0 /\ snaps = {} /\ pc = "idle" /\ doomed = {}
      /\ spent = [k \in EventKind |-> 0]
  BY Zenon DEF Init
<1>2. Types
  BY <1>1, FS_EmptySet DEF Types
<1> QED
  BY <1>1, <1>2 DEF SnapshotInv, PruneIsExact

\* Create adds one snapshot of the current second.
LEMMA CreateTypes ==
  ASSUME SnapshotInv, NEW trigger \in {"pre-update", "schedule"}, Create(trigger),
         pc # "delete", doomed' = doomed
  PROVE  snaps' \subseteq Snapshot /\ IsFiniteSet(snaps') /\ doomed' \subseteq snaps'
<1> DEFINE new == [trigger |-> trigger, created |-> now]
<1>1. new \in Snapshot
  BY DEF SnapshotInv, Types, Snapshot
<1>2. snaps' = snaps \cup {new}
  BY DEF Create
<1> HIDE DEF new
<1>3. IsFiniteSet(snaps')
  BY <1>2, FS_AddElement DEF SnapshotInv, Types
<1> QED
  BY <1>1, <1>2, <1>3 DEF SnapshotInv, Types

LEMMA SpendType ==
  ASSUME spent \in [EventKind -> Nat], NEW kind \in EventKind, Spend(kind)
  PROVE  spent' \in [EventKind -> Nat] /\ spent' # spent
BY DEF Spend

LEMMA SpentStep ==
  ASSUME spent \in [EventKind -> Nat], [Next]_vars
  PROVE  spent' \in [EventKind -> Nat]
<1>1. CASE \/ StrictSnapshotFails \/ SnapshotNotCreated \/ Fail \/ Event \/ UserChangesImage
  <2>1. \E kind \in EventKind : Spend(kind)
    BY <1>1 DEF StrictSnapshotFails, SnapshotNotCreated, Fail, Event, UserChangesImage, EventKind
  <2> QED
    BY <2>1, SpendType
<1>2. CASE Reconcile \/ Tick \/ UNCHANGED vars
  <2>1. spent' = spent
    BY <1>2 DEF Reconcile, StartReconcile, SnapshotBeforeUpdate, CheckSchedule, CreateScheduled,
       ListSnapshots, DeleteOldest, Tick, vars
  <2> QED
    BY <2>1
<1> QED
  BY <1>1, <1>2 DEF Next

\* The steps that create a snapshot.
LEMMA CreateStep ==
  ASSUME SnapshotInv, SnapshotBeforeUpdate \/ StrictSnapshotFails \/ CreateScheduled
  PROVE  SnapshotInv'
<1>1. PICK trigger \in {"pre-update", "schedule"} : Create(trigger)
  BY DEF SnapshotBeforeUpdate, StrictSnapshotFails, CreateScheduled
<1>2. /\ pc \in {"pre-update", "create"} /\ pc' \in {"schedule", "idle", "list"}
      /\ UNCHANGED <<now, doomed>>
  BY DEF SnapshotBeforeUpdate, StrictSnapshotFails, CreateScheduled
<1>3. spent' \in [EventKind -> Nat]
  BY SpentStep DEF SnapshotInv, Types, Next, Reconcile
<1>4. snaps' \subseteq Snapshot /\ IsFiniteSet(snaps') /\ doomed' \subseteq snaps'
  BY <1>1, <1>2, CreateTypes
<1> QED
  BY <1>2, <1>3, <1>4 DEF SnapshotInv, Types, PruneIsExact

LEMMA ListStep ==
  ASSUME SnapshotInv, ListSnapshots
  PROVE  /\ SnapshotInv'
         /\ pc' = "idle" => Cardinality(snaps') <= Retain
<1> DEFINE n == Cardinality(snaps)
<1>0. n \in Nat /\ Retain \in Nat /\ snaps \in SUBSET Snapshot
  BY FS_CardinalityType, RetainType DEF SnapshotInv, Types
<1>1. pc = "list" /\ doomed = {} /\ UNCHANGED <<now, snaps, spent>>
  BY DEF ListSnapshots, SnapshotInv, PruneIsExact
<1>2. CASE n <= Retain
  <2>1. pc' = "idle" /\ doomed' = doomed
    BY <1>2 DEF ListSnapshots
  <2> QED
    BY <1>1, <1>2, <2>1 DEF SnapshotInv, Types, PruneIsExact
<1>3. CASE n > Retain
  <2> DEFINE excess == n - Retain
  <2>1. pc' = "delete" /\ doomed' \in Oldest(snaps, excess)
    BY <1>0, <1>3 DEF ListSnapshots
  <2>2. excess \in Nat /\ excess > 0 /\ n - excess = Retain
    BY <1>0, <1>3
  <2> HIDE DEF excess
  <2>3. PICK D \in Oldest(snaps, excess) : doomed' = D
    BY <2>1
  <2>4. /\ D \subseteq snaps /\ Cardinality(D) = excess
        /\ Cardinality(snaps \ D) = n - excess
        /\ \A d \in D, k \in snaps \ D : d.created <= k.created
    BY <1>0, <2>2, OldestRest DEF SnapshotInv, Types
  <2>5. D # {}
    BY <2>2, <2>4, FS_EmptySet
  <2>6. Types'
    BY <1>1, <2>1, <2>3, <2>4 DEF SnapshotInv, Types
  <2>7. PruneIsExact'
    BY <1>1, <2>1, <2>2, <2>3, <2>4, <2>5 DEF PruneIsExact
  <2> QED
    BY <2>1, <2>6, <2>7 DEF SnapshotInv
<1> QED
  BY <1>0, <1>2, <1>3

\* A deletion takes one of the condemned, and leaves everything that is to be kept.
LEMMA DeleteEffect ==
  ASSUME SnapshotInv, DeleteOldest
  PROVE  \E d \in doomed :
           /\ snaps' = snaps \ {d} /\ doomed' = doomed \ {d}
           /\ pc' = (IF doomed = {d} THEN "idle" ELSE "delete")
           /\ UNCHANGED <<now, spent>>
           /\ snaps' \ doomed' = snaps \ doomed
           /\ \A k \in snaps \ doomed : d.created <= k.created
<1>0. doomed \in SUBSET Snapshot /\ IsFiniteSet(doomed) /\ doomed \subseteq snaps
  BY FS_Subset DEF SnapshotInv, Types
<1>1. PICK D \in Oldest(doomed, 1) :
        /\ snaps' = snaps \ D /\ doomed' = doomed \ D
        /\ pc' = IF doomed = D THEN "idle" ELSE "delete"
        /\ UNCHANGED <<now, spent>>
  BY DEF DeleteOldest
<1>2. D \subseteq doomed /\ IsFiniteSet(D) /\ Cardinality(D) = 1
  BY <1>0, OldestRest
<1>3. PICK d : D = {d}
  BY <1>2, FS_Singleton
<1>4. d \in doomed /\ snaps' \ doomed' = snaps \ doomed
  BY <1>0, <1>1, <1>2, <1>3
<1>5. \A k \in snaps \ doomed : d.created <= k.created
  BY <1>4 DEF DeleteOldest, SnapshotInv, PruneIsExact
<1> QED
  BY <1>1, <1>3, <1>4, <1>5

LEMMA DeleteStep ==
  ASSUME SnapshotInv, DeleteOldest
  PROVE  /\ SnapshotInv'
         /\ pc' = "idle" => Cardinality(snaps') = Retain
         /\ \A s \in snaps \ snaps' :
              Cardinality({k \in snaps' : k.created >= s.created}) >= Retain
<1>1. PICK d \in doomed :
           /\ snaps' = snaps \ {d} /\ doomed' = doomed \ {d}
           /\ pc' = (IF doomed = {d} THEN "idle" ELSE "delete")
           /\ UNCHANGED <<now, spent>>
           /\ snaps' \ doomed' = snaps \ doomed
           /\ \A k \in snaps \ doomed : d.created <= k.created
  BY DeleteEffect
<1>2. pc = "delete" /\ Cardinality(snaps \ doomed) = Retain /\ doomed \subseteq snaps
      /\ IsFiniteSet(snaps) /\ snaps \subseteq Snapshot
  BY DEF DeleteOldest, SnapshotInv, PruneIsExact, Types
<1>3. IsFiniteSet(snaps')
  BY <1>1, <1>2, FS_RemoveElement
<1>4. Types'
  BY <1>1, <1>3 DEF SnapshotInv, Types
<1>5. PruneIsExact'
  <2>1. \A e \in doomed', k \in snaps' \ doomed' : e.created <= k.created
    BY <1>1, <1>2 DEF SnapshotInv, PruneIsExact
  <2> QED
    BY <1>1, <1>2, <2>1 DEF PruneIsExact
<1>6. pc' = "idle" => Cardinality(snaps') = Retain
  <2>1. pc' = "idle" => doomed' = {}
    BY <1>1
  <2> QED
    BY <1>1, <1>2, <2>1
<1>7. ASSUME NEW s \in snaps \ snaps'
      PROVE  Cardinality({k \in snaps' : k.created >= s.created}) >= Retain
  <2> DEFINE K == {k \in snaps' : k.created >= s.created}
  <2>1. s = d
    BY <1>1, <1>7
  <2>2. \A k \in snaps \ doomed : k \in snaps' /\ k.created >= s.created
    <3>1. \A k \in snaps : k.created \in Nat
      BY <1>2 DEF Snapshot
    <3> QED
      BY <1>1, <1>2, <2>1, <3>1
  <2>3. snaps \ doomed \in SUBSET K
    BY <2>2
  <2>4. IsFiniteSet(K)
    BY <1>3, FS_Subset
  <2> HIDE DEF K
  <2>5. Cardinality(snaps \ doomed) <= Cardinality(K)
    BY <2>3, <2>4, FS_Subset
  <2>6. Cardinality(K) \in Nat
    BY <2>4, FS_CardinalityType
  <2> QED
    BY <1>2, <2>5, <2>6, RetainType DEF K
<1> QED
  BY <1>4, <1>5, <1>6, <1>7 DEF SnapshotInv

\* The other steps leave the snapshots and the condemned ones as they are, or give up.
LEMMA OtherStep ==
  ASSUME SnapshotInv,
         \/ StartReconcile \/ SnapshotNotCreated \/ CheckSchedule \/ Fail \/ Tick \/ Event
         \/ UserChangesImage \/ UNCHANGED vars
  PROVE  SnapshotInv' /\ snaps' = snaps
<1>1. spent' \in [EventKind -> Nat]
  BY SpentStep DEF SnapshotInv, Types, Next, Reconcile
<1>2. snaps' = snaps /\ now' \in Nat
  <2>1. snaps' = snaps /\ (now' = now \/ now' = now + 1)
    BY DEF StartReconcile, SnapshotNotCreated, CheckSchedule, Fail, Tick, Event,
           UserChangesImage, vars
  <2> QED
    BY <2>1 DEF SnapshotInv, Types
<1>3. \/ doomed' = doomed /\ pc' = pc
      \/ doomed' = doomed /\ pc # "delete" /\ pc' \in {"pre-update", "schedule", "create", "idle"}
      \/ doomed' = {} /\ pc' = "idle"
  BY DEF StartReconcile, SnapshotNotCreated, CheckSchedule, Fail, Tick, Event,
         UserChangesImage, vars
<1> QED
  BY <1>1, <1>2, <1>3 DEF SnapshotInv, Types, PruneIsExact

LEMMA SnapshotStep == SnapshotInv /\ [Next]_vars => SnapshotInv'
BY CreateStep, ListStep, DeleteStep, OtherStep DEF Next, Reconcile

\* Finitely many snapshots, those a prune has condemned among them; while it runs exactly
\* retainCount are not condemned, and none of those is older.
THEOREM SnapshotInvariant == Spec => []SnapshotInv
BY SnapshotInit, SnapshotStep, PTL DEF Spec

\* For every retainCount and every pattern of failures, restarts and updates: a snapshot
\* is deleted only while retainCount others at least as recent are kept.
THEOREM RecentKept == Spec => RecentSnapshotsKept
<1> DEFINE Kept == \A s \in snaps \ snaps' :
                     Cardinality({k \in snaps' : k.created >= s.created}) >= Retain
<1>1. SnapshotInv /\ [Next]_vars => Kept
  <2> SUFFICES ASSUME SnapshotInv, [Next]_vars, ~DeleteOldest PROVE snaps \subseteq snaps'
    BY DeleteStep
  <2>1. CASE SnapshotBeforeUpdate \/ StrictSnapshotFails \/ CreateScheduled
    BY <2>1 DEF SnapshotBeforeUpdate, StrictSnapshotFails, CreateScheduled, Create
  <2>2. CASE ListSnapshots
    BY <2>2 DEF ListSnapshots
  <2> QED
    BY <2>1, <2>2, OtherStep DEF Next, Reconcile
<1> QED
  BY <1>1, SnapshotInvariant, PTL DEF Spec, RecentSnapshotsKept

\* A reconcile that prunes and ends without an error leaves no more than retainCount
\* snapshots, however many earlier reconciles had piled up.
THEOREM PrunedExactly == Spec => PrunedToRetainCount
<1> DEFINE Pruned == pc' = "idle" /\ pc \in {"list", "delete"} /\ spent' = spent
                     => Cardinality(snaps') <= Retain
<1>1. SnapshotInv /\ [Next]_vars => Pruned
  <2> SUFFICES ASSUME SnapshotInv, [Next]_vars, pc' = "idle", pc \in {"list", "delete"},
                      spent' = spent
               PROVE  Cardinality(snaps') <= Retain
    OBVIOUS
  <2>1. ~Fail
    BY SpendType DEF Fail, EventKind, SnapshotInv, Types
  <2>2. ListSnapshots \/ DeleteOldest
    BY <2>1 DEF Next, Reconcile, StartReconcile, SnapshotBeforeUpdate, StrictSnapshotFails,
       SnapshotNotCreated, CheckSchedule, CreateScheduled, Tick, Event, UserChangesImage, vars
  <2> QED
    BY <2>2, ListStep, DeleteStep, RetainType
<1> QED
  BY <1>1, SnapshotInvariant, PTL DEF Spec, PrunedToRetainCount

-----------------------------------------------------------------------------
(* How many there are.                                                      *)

\* What is beyond retainCount, and what a pending image change will add, is paid for by
\* an event, or will be pruned by the running reconcile.
Accounted ==
  LET allowed == Retain + spent["update"] + spent["fault"]
                 + (IF pc \in {"list", "delete"} THEN 1 ELSE 0)
  IN  Cardinality(snaps) + (IF pending THEN 1 ELSE 0) <= allowed

PendingIsPaid == /\ pending => spent["update"] > 0
                 /\ pc = "pre-update" => pending

BoundInv == SnapshotInv /\ Accounted /\ PendingIsPaid

LEMMA Sizes ==
  ASSUME SnapshotInv
  PROVE  /\ Cardinality(snaps) \in Nat /\ Retain \in Nat
         /\ spent["update"] \in Nat /\ spent["fault"] \in Nat
BY FS_CardinalityType, RetainType DEF SnapshotInv, Types, EventKind

LEMMA CreatesOne ==
  ASSUME SnapshotInv, NEW trigger, Create(trigger)
  PROVE  Cardinality(snaps') <= Cardinality(snaps) + 1
<1> DEFINE new == [trigger |-> trigger, created |-> now]
<1>1. snaps' = snaps \cup {new}
  BY DEF Create
<1> HIDE DEF new
<1>2. Cardinality(snaps') = IF new \in snaps THEN Cardinality(snaps) ELSE Cardinality(snaps) + 1
  BY <1>1, FS_AddElement DEF SnapshotInv, Types
<1> QED
  BY <1>2, Sizes

LEMMA DeletesNone == ListSnapshots => snaps' = snaps
BY DEF ListSnapshots

LEMMA DeletesOne ==
  ASSUME SnapshotInv, DeleteOldest
  PROVE  Cardinality(snaps') <= Cardinality(snaps)
<1>1. snaps' \in SUBSET snaps
  BY DEF DeleteOldest
<1> QED
  BY <1>1, FS_Subset DEF SnapshotInv, Types

LEMMA Spends ==
  ASSUME SnapshotInv, NEW kind \in EventKind, Spend(kind)
  PROVE  /\ spent'[kind] = spent[kind] + 1
         /\ \A k \in EventKind \ {kind} : spent'[k] = spent[k]
BY DEF Spend, SnapshotInv, Types

LEMMA PendingPaidStep ==
  ASSUME BoundInv, [Next]_vars
  PROVE  PendingIsPaid'
<1>0. spent["update"] \in Nat /\ SnapshotInv
  BY Sizes DEF BoundInv
<1>1. CASE UserChangesImage
  <2>1. spent'["update"] = spent["update"] + 1 /\ pending' = TRUE
    BY <1>0, <1>1, Spends DEF UserChangesImage, EventKind
  <2> QED
    BY <1>0, <2>1 DEF PendingIsPaid
<1>2. CASE Event \/ Fail \/ StrictSnapshotFails \/ SnapshotNotCreated
  <2>1. spent'["update"] = spent["update"]
    BY <1>0, <1>2, Spends DEF Event, Fail, StrictSnapshotFails, SnapshotNotCreated, EventKind
  <2>2. \/ pending' = pending /\ pc' \in {pc, "idle"}
        \/ pending' = FALSE /\ pc' = "schedule"
    BY <1>2 DEF Event, Fail, StrictSnapshotFails, SnapshotNotCreated
  <2> QED
    BY <2>1, <2>2 DEF BoundInv, PendingIsPaid
<1>3. CASE Reconcile \/ Tick \/ UNCHANGED vars
  <2>1. spent' = spent
    BY <1>3 DEF Reconcile, StartReconcile, SnapshotBeforeUpdate, CheckSchedule, CreateScheduled,
       ListSnapshots, DeleteOldest, Tick, vars
  <2>2. \/ pending' = pending /\ (pc' = "pre-update" => pending \/ pc = "pre-update")
        \/ pending' = FALSE /\ pc' = "schedule"
    BY <1>3 DEF Reconcile, StartReconcile, SnapshotBeforeUpdate, CheckSchedule, CreateScheduled,
       ListSnapshots, DeleteOldest, Tick, vars
  <2> QED
    BY <2>1, <2>2 DEF BoundInv, PendingIsPaid
<1> QED
  BY <1>1, <1>2, <1>3 DEF Next

LEMMA AccountedStep ==
  ASSUME BoundInv, [Next]_vars
  PROVE  Accounted'
<1> DEFINE n == Cardinality(snaps)
           u == spent["update"]
           f == spent["fault"]
<1>0. n \in Nat /\ Retain \in Nat /\ u \in Nat /\ f \in Nat /\ SnapshotInv
  BY Sizes DEF BoundInv
<1>1. /\ n + (IF pending THEN 1 ELSE 0)
           <= Retain + u + f + (IF pc \in {"list", "delete"} THEN 1 ELSE 0)
      /\ pending => u > 0
      /\ pc = "pre-update" => pending
  BY DEF BoundInv, Accounted, PendingIsPaid
<1>2. n' \in Nat
  <2>1. SnapshotInv'
    BY <1>0, SnapshotStep
  <2> QED
    BY <2>1, FS_CardinalityType DEF SnapshotInv, Types
<1>3. SUFFICES n' + (IF pending' THEN 1 ELSE 0)
                 <= Retain + u' + f' + (IF pc' \in {"list", "delete"} THEN 1 ELSE 0)
  BY DEF Accounted
<1>4. CASE SnapshotBeforeUpdate
  <2>1. n' <= n + 1
    BY <1>0, <1>4, CreatesOne DEF SnapshotBeforeUpdate
  <2>2. pc = "pre-update" /\ pending' = FALSE /\ u' = u /\ f' = f
    BY <1>4 DEF SnapshotBeforeUpdate
  <2> QED
    BY <1>0, <1>1, <1>2, <2>1, <2>2
<1>5. CASE StrictSnapshotFails
  <2>1. n' <= n + 1
    BY <1>0, <1>5, CreatesOne DEF StrictSnapshotFails
  <2>2. f' = f + 1 /\ u' = u
    BY <1>0, <1>5, Spends DEF StrictSnapshotFails, EventKind
  <2>3. pc = "pre-update" /\ pending' = pending
    BY <1>5 DEF StrictSnapshotFails
  <2> QED
    BY <1>0, <1>1, <1>2, <2>1, <2>2, <2>3
<1>6. CASE CreateScheduled
  <2>1. n' <= n + 1
    BY <1>0, <1>6, CreatesOne DEF CreateScheduled
  <2>2. pc = "create" /\ pc' = "list" /\ pending' = pending /\ u' = u /\ f' = f
    BY <1>6 DEF CreateScheduled
  <2> QED
    BY <1>0, <1>1, <1>2, <2>1, <2>2
<1>7. CASE ListSnapshots \/ DeleteOldest
  <2>1. n' <= n
    BY <1>0, <1>7, DeletesNone, DeletesOne
  <2>2. pc' = "idle" => n' <= Retain
    BY <1>0, <1>7, ListStep, DeleteStep
  <2>3. /\ pc \in {"list", "delete"} /\ pc' \in {"delete", "idle"}
        /\ pending' = pending /\ u' = u /\ f' = f
    BY <1>7 DEF ListSnapshots, DeleteOldest
  <2> QED
    BY <1>0, <1>1, <1>2, <2>1, <2>2, <2>3
<1>8. CASE SnapshotNotCreated \/ Fail
  <2>1. f' = f + 1 /\ u' = u
    BY <1>0, <1>8, Spends DEF SnapshotNotCreated, Fail, EventKind
  <2>2. n' = n /\ (pending' = pending \/ pending' = FALSE) /\ pc' \in {"idle", "schedule"}
    BY <1>8 DEF SnapshotNotCreated, Fail
  <2> QED
    BY <1>0, <1>1, <2>1, <2>2
<1>9. CASE UserChangesImage
  <2>1. u' = u + 1 /\ f' = f
    BY <1>0, <1>9, Spends DEF UserChangesImage, EventKind
  <2>2. n' = n /\ pc' = pc
    BY <1>9 DEF UserChangesImage
  <2> QED
    BY <1>0, <1>1, <2>1, <2>2
<1>10. CASE Event
  <2>1. u' = u /\ f' = f
    BY <1>0, <1>10, Spends DEF Event, EventKind
  <2>2. n' = n /\ pc' = pc /\ pending' = pending
    BY <1>10 DEF Event
  <2> QED
    BY <1>1, <2>1, <2>2
<1>11. CASE StartReconcile \/ CheckSchedule \/ Tick \/ UNCHANGED vars
  <2>1. n' = n /\ pending' = pending /\ u' = u /\ f' = f
    BY <1>11 DEF StartReconcile, CheckSchedule, Tick, vars
  <2>2. pc' = pc \/ pc \in {"idle", "schedule"}
    BY <1>11 DEF StartReconcile, CheckSchedule, Tick, vars
  <2> QED
    BY <1>0, <1>1, <2>1, <2>2
<1> QED
  BY <1>4, <1>5, <1>6, <1>7, <1>8, <1>9, <1>10, <1>11 DEF Next, Reconcile

\* However often reconciles fail, restart and overlap with updates, the snapshots beyond
\* retainCount are at most as many as image changes and failures, and one in hand.
THEOREM SnapshotBound == Spec => []SnapshotsAreBounded
<1>1. Init => BoundInv
  <2> SUFFICES ASSUME Init PROVE BoundInv
    OBVIOUS
  <2>1. snaps = {} /\ pending = FALSE /\ pc = "idle" /\ spent = [k \in EventKind |-> 0]
    BY Zenon DEF Init
  <2>2. Cardinality(snaps) = 0 /\ spent["update"] = 0 /\ spent["fault"] = 0
    BY <2>1, FS_EmptySet DEF EventKind
  <2> QED
    BY <2>1, <2>2, SnapshotInit, RetainType DEF BoundInv, Accounted, PendingIsPaid
<1>2. BoundInv /\ [Next]_vars => BoundInv'
  BY SnapshotStep, AccountedStep, PendingPaidStep DEF BoundInv
<1>3. BoundInv => SnapshotsAreBounded
  BY Sizes DEF BoundInv, Accounted, SnapshotsAreBounded
<1> QED
  BY <1>1, <1>2, <1>3, PTL DEF Spec
=============================================================================
