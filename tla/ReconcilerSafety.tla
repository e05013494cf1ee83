--------------------------- MODULE ReconcilerSafety ---------------------------
(* The type invariant and the safety properties of Reconciler, for every    *)
(* set of specs, every number of players and secrets, and every budget of   *)
(* events.  For the properties, every step of Next is first classified by   *)
(* its effect on the CR, its cached copy and the local copy of the          *)
(* reconcile; the inductive invariant is then shown to be kept by each      *)
(* class.                                                                   *)
EXTENDS Reconciler, TLAPS

-----------------------------------------------------------------------------
(* Types.                                                                   *)

\* The values that stand for an absent object have the type of a present one.
LEMMA AbsentTypes ==
  /\ NoServer \in ServerType
  /\ NoStatefulSet \in StatefulSetType
  /\ Idle \in RecType
<1>1. AnySpec \in Specs
  BY SpecsAssumption DEF AnySpec
<1>2. AnySpec.image \in Image
  BY <1>1, SpecsAssumption DEF SpecType
<1>3. AnyTemplate \in Template
  BY <1>2, MaxAssumption DEF AnyTemplate, Template
<1>4. NoServer \in ServerType
  BY <1>1, MaxAssumption DEF NoServer, ServerType, Phase
<1>5. NoStatefulSet \in StatefulSetType
  BY <1>3 DEF NoStatefulSet, StatefulSetType
<1> QED
  BY <1>4, <1>5, MaxAssumption DEF Idle, RecType, Step


LEMMA InitType == Init => TypeOK
<1> SUFFICES ASSUME Init PROVE TypeOK
  OBVIOUS
<1>1. /\ cr \in ServerType /\ seen \in ServerType
      /\ sts \in StatefulSetType /\ stsSeen \in StatefulSetType /\ rec \in RecType
  BY AbsentTypes DEF Init
<1>2. fresh \in FreshType /\ snap \in SnapState
  BY DEF Init, FreshType, SnapState
<1>3. /\ online \in 0 .. MaxPlayers /\ sample \in {NoSample} \cup 0 .. MaxPlayers
      /\ secret \in 0 .. MaxSecret
  BY MaxAssumption DEF Init
<1>4. spent \in [EventKind -> Nat]
  BY DEF Init
<1> QED
  BY <1>1, <1>2, <1>3, <1>4 DEF Init, TypeOK

-----------------------------------------------------------------------------
(* The helpers the actions are built from keep the types.                   *)

LEMMA FreshUpdates ==
  ASSUME NEW f \in FreshType, NEW b \in BOOLEAN
  PROVE  /\ [f EXCEPT !.seen = b] \in FreshType
         /\ [f EXCEPT !.server = b] \in FreshType
         /\ [f EXCEPT !.sts = b] \in FreshType
         /\ [f EXCEPT !.existing = b] \in FreshType
         /\ f.seen \in BOOLEAN /\ f.server \in BOOLEAN
         /\ f.sts \in BOOLEAN /\ f.existing \in BOOLEAN
BY DEF FreshType

LEMMA ForgetType ==
  ASSUME NEW f \in FreshType
  PROVE  Forget(f) \in FreshType
BY DEF FreshType, Forget

LEMMA RecFields ==
  ASSUME TypeOK
  PROVE  /\ rec.server \in ServerType /\ rec.server.spec \in Specs
         /\ rec.server.players \in 0 .. MaxPlayers /\ rec.server.deferred \in BOOLEAN
         /\ rec.hash \in 0 .. MaxSecret /\ rec.deferred \in BOOLEAN
<1>1. rec.server \in ServerType /\ rec.hash \in 0 .. MaxSecret /\ rec.deferred \in BOOLEAN
  BY DEF TypeOK, RecType
<1> QED
  BY <1>1 DEF ServerType

LEMMA GotoType ==
  ASSUME TypeOK, NEW step \in Step, Goto(step)
  PROVE  rec' \in RecType
BY DEF TypeOK, Goto, RecType

LEMMA WithStatusType ==
  ASSUME TypeOK, NEW p \in Phase, NEW d \in BOOLEAN
  PROVE  WithStatus(p, d) \in ServerType
<1>1. cr \in ServerType /\ rec.server.players \in 0 .. MaxPlayers
  BY RecFields DEF TypeOK
<1> QED
  BY <1>1 DEF WithStatus, ServerType

LEMMA DesiredType ==
  ASSUME TypeOK
  PROVE  Desired \in Template
<1>1. rec.server.spec.image \in Image
  BY RecFields, SpecsAssumption DEF SpecType
<1> QED
  BY <1>1, RecFields DEF Desired, Template

\* A write of the CR's status stales the cached copy unless it changed nothing.
LEMMA StatusFreshType ==
  ASSUME TypeOK, fresh' = [Forget(fresh) EXCEPT !.seen = @ /\ cr' = cr]
  PROVE  fresh' \in FreshType
<1> DEFINE b == Forget(fresh).seen /\ cr' = cr
<1>1. Forget(fresh) \in FreshType
  BY ForgetType DEF TypeOK
<1>2. fresh' = [Forget(fresh) EXCEPT !.seen = b]
  OBVIOUS
<1>3. b \in BOOLEAN
  OBVIOUS
<1> HIDE DEF b
<1> QED
  BY <1>1, <1>2, <1>3, FreshUpdates

LEMMA StoreSTSType ==
  ASSUME TypeOK, NEW new \in StatefulSetType, StoreSTS(new)
  PROVE  sts' \in StatefulSetType /\ fresh' \in FreshType
BY DEF StoreSTS, TypeOK, FreshType

LEMMA StoreCRType ==
  ASSUME TypeOK, NEW new \in ServerType, StoreCR(new)
  PROVE  cr' \in ServerType /\ fresh' \in FreshType
BY DEF StoreCR, TypeOK, FreshType

\* An error return keeps the types, whatever the call that failed.
LEMMA ReturnErrorType ==
  ASSUME TypeOK, ReturnError, spent' \in [EventKind -> Nat],
         UNCHANGED <<secret, timer, window, online, sample>>
  PROVE  TypeOK'
<1>1. rec' \in RecType /\ queued' \in BOOLEAN /\ snap' \in SnapState
  BY AbsentTypes DEF ReturnError, Requeue, SnapState
<1>2. fresh' \in FreshType
  BY ForgetType DEF ReturnError, TypeOK
<1> QED
  BY <1>1, <1>2 DEF ReturnError, TypeOK, crVars, stsVars, pvcVars

-----------------------------------------------------------------------------
(* Every action keeps the types.                                            *)

LEMMA ReconcileType ==
  ASSUME TypeOK, Reconcile
  PROVE  TypeOK'
<1> USE DEF crVars, stsVars, pvcVars, playerVars
<1>1. CASE StartReconcile
  <2>1. EntryPoint(seen) \in Step /\ seen \in ServerType
    BY DEF EntryPoint, Step, TypeOK
  <2>2. [Idle EXCEPT !.pc = EntryPoint(seen), !.server = seen] \in RecType
    BY <2>1, AbsentTypes DEF RecType
  <2>3. [fresh EXCEPT !.server = fresh.seen] \in FreshType
    BY FreshUpdates DEF TypeOK
  <2>4. rec' \in RecType /\ fresh' \in FreshType
    BY <1>1, <2>2, <2>3 DEF StartReconcile, TypeOK
  <2> QED
    BY <1>1, <2>4 DEF StartReconcile, TypeOK
<1>2. CASE DeletePVC
  <2>1. rec' \in RecType
    BY <1>2, GotoType DEF DeletePVC, Step
  <2>2. pvc' \in BOOLEAN
    BY <1>2 DEF DeletePVC
  <2> QED
    BY <1>2, <2>1, <2>2 DEF DeletePVC, TypeOK
<1>3. CASE RemoveFinalizer
  <2>1. CASE fresh.server
    <3>1. cr' \in ServerType /\ rec' \in RecType
      BY <1>3, <2>1, AbsentTypes DEF RemoveFinalizer
    <3>2. Forget(fresh) \in FreshType
      BY ForgetType DEF TypeOK
    <3>3. fresh' = [Forget(fresh) EXCEPT !.seen = FALSE]
      BY <1>3, <2>1 DEF RemoveFinalizer
    <3>4. fresh' \in FreshType
      BY <3>2, <3>3, FreshUpdates
    <3> QED
      BY <1>3, <2>1, <3>1, <3>4 DEF RemoveFinalizer, TypeOK
  <2>2. CASE ~fresh.server
    BY <1>3, <2>2, ReturnErrorType DEF RemoveFinalizer, TypeOK
  <2> QED BY <2>1, <2>2
<1>4. CASE AddFinalizer
  <2>1. CASE fresh.server
    <3> DEFINE new == [rec.server EXCEPT !.fin = TRUE]
    <3>1. new \in ServerType
      BY RecFields DEF ServerType
    <3>2. rec' = [rec EXCEPT !.pc = "password", !.server = new]
      BY <1>4, <2>1 DEF AddFinalizer, TypeOK
    <3>3. rec' \in RecType
      BY <3>1, <3>2 DEF TypeOK, RecType, Step
    <3>4. [cr EXCEPT !.spec = rec.server.spec, !.fin = TRUE] \in ServerType
      BY RecFields DEF TypeOK, ServerType
    <3>5. cr' \in ServerType
      BY <1>4, <2>1, <3>4 DEF AddFinalizer
    <3>6. fresh' \in FreshType
      BY <1>4, <2>1, FreshUpdates DEF AddFinalizer, TypeOK
    <3> QED
      BY <1>4, <2>1, <3>3, <3>5, <3>6 DEF AddFinalizer, TypeOK
  <2>2. CASE ~fresh.server
    BY <1>4, <2>2, ReturnErrorType DEF AddFinalizer, TypeOK
  <2> QED BY <2>1, <2>2
<1>5. CASE CheckPassword
  <2>1. CASE rec.server.spec.pw /\ secret = 0
    <3>1. SetPhaseError
      BY <1>5, <2>1 DEF CheckPassword
    <3>2. WithStatus("Error", rec.server.deferred) \in ServerType
      BY RecFields, WithStatusType DEF Phase
    <3>3. cr' \in ServerType
      BY <3>1, <3>2 DEF SetPhaseError, TypeOK
    <3>4. fresh' \in FreshType
      BY <3>1, StatusFreshType DEF SetPhaseError
    <3>5. rec' \in RecType /\ queued' \in BOOLEAN /\ snap' \in SnapState
      BY <3>1, AbsentTypes DEF SetPhaseError, Requeue, SnapState
    <3> QED
      BY <1>5, <3>1, <3>3, <3>4, <3>5 DEF CheckPassword, SetPhaseError, TypeOK
  <2>2. CASE ~(rec.server.spec.pw /\ secret = 0)
    <3> DEFINE h == IF rec.server.spec.pw THEN secret ELSE 0
    <3>1. h \in 0 .. MaxSecret
      <4>1. secret \in 0 .. MaxSecret
        BY DEF TypeOK
      <4> QED
        BY <4>1, MaxAssumption
    <3>2. rec' = [rec EXCEPT !.pc = "pvc", !.hash = h]
      BY <1>5, <2>2 DEF CheckPassword
    <3>3. rec' \in RecType
      BY <3>1, <3>2 DEF TypeOK, RecType, Step
    <3> QED
      BY <1>5, <2>2, <3>3 DEF CheckPassword, TypeOK
  <2> QED BY <2>1, <2>2
<1>6. CASE ReconcilePVC
  <2>1. CASE ~pvcSeen /\ pvc
    BY <1>6, <2>1, ReturnErrorType DEF ReconcilePVC, TypeOK
  <2>2. CASE ~(~pvcSeen /\ pvc)
    <3>1. rec' \in RecType
      BY <1>6, <2>2, GotoType DEF ReconcilePVC, Step
    <3>2. pvc' \in BOOLEAN
      BY <1>6, <2>2 DEF ReconcilePVC
    <3> QED
      BY <1>6, <2>2, <3>1, <3>2 DEF ReconcilePVC, TypeOK
  <2> QED BY <2>1, <2>2
<1>7. CASE CheckDeferral
  <2>1. HoldBack \in BOOLEAN
    BY DEF HoldBack
  <2>2. rec' \in RecType
    BY <1>7, <2>1 DEF CheckDeferral, TypeOK, RecType, Step
  <2> QED
    BY <1>7, <2>2 DEF CheckDeferral, TypeOK
<1>8. ASSUME NEW current, UpdateTemplate(current),
             UNCHANGED <<secret, timer, window, playerVars, spent>>
      PROVE  TypeOK'
  <2>1. CASE current
    <3>1. [sts EXCEPT !.tmpl = Desired] \in StatefulSetType
      BY DesiredType DEF TypeOK, StatefulSetType
    <3>2. sts' \in StatefulSetType /\ fresh' \in FreshType
      BY <1>8, <2>1, <3>1, StoreSTSType DEF UpdateTemplate
    <3>3. rec' \in RecType
      BY <1>8, <2>1, GotoType DEF UpdateTemplate, Step
    <3> QED
      BY <1>8, <2>1, <3>2, <3>3 DEF UpdateTemplate, TypeOK
  <2>2. CASE ~current
    BY <1>8, <2>2, ReturnErrorType DEF UpdateTemplate, TypeOK
  <2> QED BY <2>1, <2>2
<1>9. CASE ReconcileStatefulSet
  <2>1. CASE ~stsSeen.exists /\ ~sts.exists
    <3>1. CreateStatefulSet
      BY <1>9, <2>1 DEF ReconcileStatefulSet
    <3>2. [exists |-> TRUE, tmpl |-> Desired, rev |-> Desired, ready |-> FALSE] \in StatefulSetType
      BY DesiredType DEF StatefulSetType
    <3>3. sts' \in StatefulSetType /\ fresh' \in FreshType
      BY <3>1, <3>2, StoreSTSType DEF CreateStatefulSet
    <3>4. rec' \in RecType
      BY <3>1, GotoType DEF CreateStatefulSet, Step
    <3> QED
      BY <1>9, <3>1, <3>3, <3>4 DEF ReconcileStatefulSet, CreateStatefulSet, TypeOK
  <2>2. CASE ~stsSeen.exists /\ sts.exists
    BY <1>9, <2>2, ReturnErrorType DEF ReconcileStatefulSet, TypeOK
  <2>3. CASE stsSeen.exists /\ NeedsSnapshot
    <3>1. rec' \in RecType
      BY <1>9, <2>3, GotoType DEF ReconcileStatefulSet, Step
    <3>2. fresh' = [fresh EXCEPT !.existing = fresh.sts]
      BY <1>9, <2>3 DEF ReconcileStatefulSet
    <3>3. fresh' \in FreshType
      BY <3>2, FreshUpdates DEF TypeOK
    <3> QED
      BY <1>9, <2>3, <3>1, <3>3 DEF ReconcileStatefulSet, TypeOK
  <2>4. CASE stsSeen.exists /\ ~NeedsSnapshot
    BY <1>8, <1>9, <2>4 DEF ReconcileStatefulSet
  <2> QED BY <2>1, <2>2, <2>3, <2>4
<1>10. CASE CreateSnapshot
  <2>1. rec' \in RecType /\ snap' \in SnapState
    BY <1>10, GotoType DEF CreateSnapshot, Step, SnapState
  <2> QED
    BY <1>10, <2>1 DEF CreateSnapshot, TypeOK
<1>11. CASE SnapshotReady
  <2>1. rec' \in RecType
    BY <1>11, GotoType DEF SnapshotReady, Step
  <2> QED
    BY <1>11, <2>1 DEF SnapshotReady, TypeOK
<1>12. CASE SnapshotFails
  <2>1. CASE Strict
    BY <1>12, <2>1, ReturnErrorType DEF SnapshotFails, TypeOK
  <2>2. CASE ~Strict
    <3>1. rec' \in RecType
      BY <1>12, <2>2, GotoType DEF SnapshotFails, Step
    <3> QED
      BY <1>12, <2>2, <3>1 DEF SnapshotFails, TypeOK
  <2> QED BY <2>1, <2>2
<1>13. CASE ApplyAfterSnapshot
  BY <1>8, <1>13 DEF ApplyAfterSnapshot
<1>14. CASE UpdateStatus
  <2>1. CASE fresh.server
    <3>1. PhaseOf(stsSeen) \in Phase
      BY DEF PhaseOf, Phase
    <3>2. cr' \in ServerType
      BY <1>14, <2>1, <3>1, RecFields, WithStatusType DEF UpdateStatus
    <3>3. fresh' \in FreshType
      BY <1>14, <2>1, StatusFreshType DEF UpdateStatus
    <3>4. rec' \in RecType /\ snap' \in SnapState /\ timer' \in BOOLEAN
      BY <1>14, <2>1, AbsentTypes DEF UpdateStatus, SnapState
    <3> QED
      BY <1>14, <2>1, <3>2, <3>3, <3>4 DEF UpdateStatus, TypeOK
  <2>2. CASE ~fresh.server
    BY <1>14, <2>2, ReturnErrorType DEF UpdateStatus, TypeOK
  <2> QED BY <2>1, <2>2
<1> QED
  BY <1>1, <1>2, <1>3, <1>4, <1>5, <1>6, <1>7, <1>9, <1>10, <1>11, <1>12, <1>13, <1>14
  DEF Reconcile

LEMMA SpendType ==
  ASSUME TypeOK, NEW k \in EventKind, Spend(k)
  PROVE  spent' \in [EventKind -> Nat]
<1>1. spent \in [EventKind -> Nat]
  BY DEF TypeOK
<1> QED
  BY <1>1 DEF Spend

LEMMA OperatorType ==
  ASSUME TypeOK, Operator
  PROVE  TypeOK'
<1> USE DEF crVars, stsVars, pvcVars, playerVars
<1>1. CASE SyncCR
  <2>1. fresh' \in FreshType
    BY <1>1, FreshUpdates DEF SyncCR, TypeOK
  <2> QED
    BY <1>1, <2>1 DEF SyncCR, TypeOK
<1>2. CASE SyncSTS
  <2>1. fresh' \in FreshType
    BY <1>2, FreshUpdates DEF SyncSTS, TypeOK
  <2> QED
    BY <1>2, <2>1 DEF SyncSTS, TypeOK
<1>3. CASE SyncPVC
  BY <1>3 DEF SyncPVC, TypeOK
<1>4. CASE TimerFires
  <2>1. timer' \in BOOLEAN /\ queued' \in BOOLEAN
    BY <1>4 DEF TimerFires
  <2>2. UNCHANGED <<cr, seen, sts, owned, stsSeen, pvc, pvcSeen, secret, fresh, rec, snap,
                    window, online, sample, spent>>
    BY <1>4 DEF TimerFires
  <2> QED
    BY <2>1, <2>2 DEF TypeOK
<1>5. CASE Resync
  <2>1. queued' \in BOOLEAN
    BY <1>5 DEF Resync
  <2>2. UNCHANGED <<cr, seen, sts, owned, stsSeen, pvc, pvcSeen, secret, fresh, rec, snap,
                    timer, window, online, sample, spent>>
    BY <1>5 DEF Resync
  <2> QED
    BY <2>1, <2>2 DEF TypeOK
<1>6. CASE ApiFault
  BY <1>6, SpendType, ReturnErrorType DEF ApiFault, TypeOK, EventKind
<1>7. CASE Crash
  <2>1. spent' \in [EventKind -> Nat]
    BY <1>7, SpendType DEF Crash, EventKind
  <2>2. fresh' \in FreshType /\ queued' \in BOOLEAN
    BY <1>7 DEF Crash, FreshType, TypeOK, ServerType
  <2>3. rec' \in RecType /\ snap' \in SnapState
    BY <1>7, AbsentTypes DEF Crash, SnapState
  <2> QED
    BY <1>7, <2>1, <2>2, <2>3 DEF Crash, TypeOK
<1> QED
  BY <1>1, <1>2, <1>3, <1>4, <1>5, <1>6, <1>7, ReconcileType DEF Operator

LEMMA StopPodType ==
  ASSUME StopPod
  PROVE  online' \in 0 .. MaxPlayers /\ sample' \in {NoSample} \cup 0 .. MaxPlayers
BY MaxAssumption DEF StopPod

LEMMA RemoveStatefulSetType ==
  ASSUME TypeOK, RemoveStatefulSet, spent' \in [EventKind -> Nat]
  PROVE  TypeOK'
<1>1. sts' \in StatefulSetType /\ fresh' \in FreshType
  BY AbsentTypes, StoreSTSType DEF RemoveStatefulSet
<1>2. owned' \in BOOLEAN
  BY DEF RemoveStatefulSet
<1>3. online' \in 0 .. MaxPlayers /\ sample' \in {NoSample} \cup 0 .. MaxPlayers
  BY StopPodType DEF RemoveStatefulSet
<1> QED
  BY <1>1, <1>2, <1>3
  DEF RemoveStatefulSet, TypeOK, crVars, pvcVars

LEMMA UserType ==
  ASSUME TypeOK, User
  PROVE  TypeOK'
<1> USE DEF crVars, stsVars, pvcVars, playerVars
<1>1. ASSUME NEW s \in Specs, UserCreate(s) PROVE TypeOK'
  <2>1. spent' \in [EventKind -> Nat]
    BY <1>1, SpendType DEF UserCreate, EventKind
  <2>2. cr' \in ServerType /\ fresh' \in FreshType
    BY <1>1, AbsentTypes, StoreCRType DEF UserCreate, ServerType
  <2> QED
    BY <1>1, <2>1, <2>2 DEF UserCreate, TypeOK
<1>2. ASSUME NEW s \in Specs, UserEdit(s) PROVE TypeOK'
  <2>1. spent' \in [EventKind -> Nat]
    BY <1>2, SpendType DEF UserEdit, EventKind
  <2>2. cr' \in ServerType /\ fresh' \in FreshType
    BY <1>2, StoreCRType DEF UserEdit, TypeOK, ServerType
  <2> QED
    BY <1>2, <2>1, <2>2 DEF UserEdit, TypeOK
<1>3. CASE UserDelete
  <2>1. spent' \in [EventKind -> Nat]
    BY <1>3, SpendType DEF UserDelete, EventKind
  <2>2. [cr EXCEPT !.deleting = TRUE] \in ServerType
    BY DEF TypeOK, ServerType
  <2>3. cr' \in ServerType /\ fresh' \in FreshType
    BY <1>3, <2>2, AbsentTypes, StoreCRType DEF UserDelete
  <2>4. owned' \in BOOLEAN
    BY <1>3 DEF UserDelete
  <2> QED
    BY <1>3, <2>1, <2>3, <2>4 DEF UserDelete, TypeOK
<1>4. CASE UserRemovesSTS
  <2>1. spent' \in [EventKind -> Nat]
    BY <1>4, SpendType DEF UserRemovesSTS, EventKind
  <2> QED
    BY <1>4, <2>1, RemoveStatefulSetType DEF UserRemovesSTS
<1>5. ASSUME NEW v \in 0 .. MaxSecret, SecretChange(v) PROVE TypeOK'
  <2>1. spent' \in [EventKind -> Nat]
    BY <1>5, SpendType DEF SecretChange, EventKind
  <2>2. queued' \in BOOLEAN
    BY <1>5 DEF SecretChange
  <2>3. secret' \in 0 .. MaxSecret
    BY <1>5 DEF SecretChange
  <2>4. UNCHANGED <<crVars, stsVars, pvcVars, fresh, rec, snap, timer, window, playerVars>>
    BY <1>5 DEF SecretChange
  <2> QED
    BY <2>1, <2>2, <2>3, <2>4 DEF TypeOK
<1> QED
  BY <1>1, <1>2, <1>3, <1>4, <1>5 DEF User

LEMMA ClusterType ==
  ASSUME TypeOK, Cluster
  PROVE  TypeOK'
<1> USE DEF crVars, stsVars, pvcVars, playerVars
<1>1. CASE GarbageCollect
  BY <1>1, RemoveStatefulSetType DEF GarbageCollect, TypeOK
<1>2. ASSUME NEW s \in StatefulSetType, StoreSTS(s), StopPod,
             spent' \in [EventKind -> Nat],
             UNCHANGED <<crVars, owned, stsSeen, pvcVars, secret, rec, snap, queued, timer, window>>
      PROVE  TypeOK'
  <2>1. sts' \in StatefulSetType /\ fresh' \in FreshType
    BY <1>2, StoreSTSType
  <2>2. online' \in 0 .. MaxPlayers /\ sample' \in {NoSample} \cup 0 .. MaxPlayers
    BY <1>2, StopPodType
  <2> QED
    BY <1>2, <2>1, <2>2 DEF TypeOK
<1>3. CASE RollPod
  BY <1>2, <1>3 DEF RollPod, TypeOK, StatefulSetType
<1>4. CASE StartPod
  <2>1. sts' \in StatefulSetType /\ fresh' \in FreshType
    BY <1>4, StoreSTSType DEF StartPod, TypeOK, StatefulSetType
  <2> QED
    BY <1>4, <2>1 DEF StartPod, TypeOK
<1>5. CASE Evict
  <2>1. spent' \in [EventKind -> Nat]
    BY <1>5, SpendType DEF Evict, EventKind
  <2> QED
    BY <1>2, <1>5, <2>1 DEF Evict, TypeOK, StatefulSetType
<1>6. CASE SnapshotDriver
  <2>1. snap' \in SnapState
    BY <1>6 DEF SnapshotDriver, SnapState
  <2> QED
    BY <1>6, <2>1 DEF SnapshotDriver, TypeOK
<1>7. CASE ClockTick
  <2>1. spent' \in [EventKind -> Nat]
    BY <1>7, SpendType DEF ClockTick, EventKind
  <2> QED
    BY <1>7, <2>1 DEF ClockTick, TypeOK
<1> QED
  BY <1>1, <1>3, <1>4, <1>5, <1>6, <1>7 DEF Cluster

LEMMA GameType ==
  ASSUME TypeOK, Game
  PROVE  TypeOK'
<1> USE DEF crVars, stsVars, pvcVars, playerVars
<1>1. CASE Join
  <2>1. spent' \in [EventKind -> Nat]
    BY <1>1, SpendType DEF Join, EventKind
  <2>2. online \in 0 .. MaxPlayers /\ online < MaxPlayers /\ online' = online + 1
    BY <1>1 DEF Join, TypeOK
  <2>3. online' \in 0 .. MaxPlayers
    BY <2>2, MaxAssumption
  <2> QED
    BY <1>1, <2>1, <2>3 DEF Join, TypeOK
<1>2. CASE Leave
  <2>1. online \in 0 .. MaxPlayers /\ online > 0 /\ online' = online - 1
    BY <1>2 DEF Leave, TypeOK
  <2>2. online' \in 0 .. MaxPlayers
    BY <2>1, MaxAssumption
  <2> QED
    BY <1>2, <2>2 DEF Leave, TypeOK
<1>3. CASE Scrape
  BY <1>3 DEF Scrape, TypeOK
<1>4. CASE ScrapeFails
  <2>1. spent' \in [EventKind -> Nat]
    BY <1>4, SpendType DEF ScrapeFails, EventKind
  <2>2. sample' \in {NoSample} \cup 0 .. MaxPlayers
    BY <1>4, MaxAssumption DEF ScrapeFails
  <2> QED
    BY <1>4, <2>1, <2>2 DEF ScrapeFails, TypeOK
<1>5. CASE PatchServerStatus
  <2>1. cr' \in ServerType /\ fresh' \in FreshType
    BY <1>5, StoreCRType DEF PatchServerStatus, TypeOK, ServerType
  <2> QED
    BY <1>5, <2>1 DEF PatchServerStatus, TypeOK
<1>6. CASE PatchFails
  <2>1. spent' \in [EventKind -> Nat]
    BY <1>6, SpendType DEF PatchFails, EventKind
  <2> QED
    BY <1>6, <2>1 DEF PatchFails, TypeOK
<1> QED
  BY <1>1, <1>2, <1>3, <1>4, <1>5, <1>6 DEF Game

\* Every reachable state is well typed: caches and local copies always hold
\* objects of the API's types, at every step of the reconcile.
THEOREM TypeCorrect == Spec => []TypeOK
<1>1. TypeOK /\ [Next]_vars => TypeOK'
  <2>1. TypeOK /\ UNCHANGED vars => TypeOK'
    BY DEF TypeOK, vars
  <2> QED
    BY <2>1, OperatorType, UserType, ClusterType, GameType DEF Next
<1> QED
  BY <1>1, InitType, PTL DEF Spec

-----------------------------------------------------------------------------
(* What the helpers do to the copies.                                       *)

LEMMA GotoFields ==
  ASSUME TypeOK, NEW step, Goto(step)
  PROVE  rec'.pc = step /\ rec'.server = rec.server
BY DEF TypeOK, RecType, Goto

LEMMA ForgetFields ==
  ASSUME TypeOK
  PROVE  /\ Forget(fresh).seen = fresh.seen /\ Forget(fresh).sts = fresh.sts
         /\ ~Forget(fresh).server
BY DEF TypeOK, FreshType, Forget

LEMMA StoreCRFields ==
  ASSUME TypeOK, NEW new, StoreCR(new)
  PROVE  /\ fresh'.seen => fresh.seen /\ cr' = cr
         /\ fresh'.server => fresh.server /\ cr' = cr
         /\ fresh'.sts = fresh.sts
BY DEF TypeOK, FreshType, StoreCR

LEMMA StoreSTSFields ==
  ASSUME TypeOK, NEW new, StoreSTS(new)
  PROVE  /\ fresh'.seen = fresh.seen /\ fresh'.server = fresh.server
         /\ fresh'.sts => fresh.sts /\ sts' = sts
BY DEF TypeOK, FreshType, StoreSTS

\* Writing back the spec that is there changes the finalizer only.
LEMMA SameSpec ==
  ASSUME NEW s \in ServerType
  PROVE  [s EXCEPT !.spec = s.spec, !.fin = TRUE] = [s EXCEPT !.fin = TRUE]
BY DEF ServerType

-----------------------------------------------------------------------------
(* The classes of steps.                                                    *)

\* A write that leaves existence, deletion mark and finalizer of the CR alone.
SameIdentity == /\ cr'.exists = cr.exists /\ cr'.deleting = cr.deleting
                /\ cr'.fin = cr.fin

\* The copies that are fresh after the step were fresh before it, and the
\* objects they are copies of have not changed.
FreshOnlyIfKept ==
  /\ fresh'.seen => fresh.seen /\ cr' = cr
  /\ fresh'.server => fresh.server /\ cr' = cr

\* Reconcile has read a CR it has work for.
Started ==
  /\ seen.exists /\ (seen.deleting => seen.fin)
  /\ rec'.pc = EntryPoint(seen) /\ rec'.server = seen
  /\ fresh'.seen = fresh.seen /\ fresh'.server = fresh.seen /\ fresh'.sts = fresh.sts
  /\ UNCHANGED <<cr, seen, sts, stsSeen, owned>>

\* A step of the reconcile after the finalizer is known to be in place.
Inner ==
  /\ rec.pc \in PastFinalizer /\ rec'.pc \in PastFinalizer
  /\ rec'.server = rec.server
  /\ rec'.pc = "apply" /\ Strict => snap' = "ready"
  /\ fresh'.seen = fresh.seen /\ fresh'.server = fresh.server
  /\ fresh'.sts => fresh.sts /\ sts' = sts
  /\ owned' \in {owned, TRUE}
  /\ UNCHANGED <<cr, seen, stsSeen>>

\* The reconcile returns; at most it has written the status.
Returns ==
  /\ rec'.pc = "idle"
  /\ SameIdentity
  /\ fresh'.seen => fresh.seen /\ cr' = cr
  /\ fresh'.sts = fresh.sts
  /\ UNCHANGED <<seen, sts, stsSeen, owned>>

\* A step of another actor that does not create, delete or read the CR.
Outer ==
  /\ SameIdentity /\ FreshOnlyIfKept
  /\ fresh'.sts => stsSeen' = sts' \/ (fresh.sts /\ UNCHANGED <<sts, stsSeen>>)
  /\ rec.pc = "apply" => snap' = snap
  /\ owned' \in {owned, FALSE}
  /\ UNCHANGED <<seen, rec>>

LEMMA IdentityKept ==
  ASSUME cr' = cr
  PROVE  SameIdentity
BY DEF SameIdentity

LEMMA StatusKeepsIdentity ==
  ASSUME TypeOK, NEW p, NEW d, cr' = WithStatus(p, d)
  PROVE  SameIdentity
BY DEF TypeOK, ServerType, WithStatus, SameIdentity

\* The status write of a reconcile that returns.
LEMMA StatusFresh ==
  ASSUME TypeOK, fresh' = [Forget(fresh) EXCEPT !.seen = @ /\ cr' = cr]
  PROVE  (fresh'.seen => fresh.seen /\ cr' = cr) /\ fresh'.sts = fresh.sts
<1>1. Forget(fresh) \in FreshType
  BY ForgetType DEF TypeOK
<1>2. fresh'.seen = (Forget(fresh).seen /\ cr' = cr) /\ fresh'.sts = Forget(fresh).sts
  BY <1>1 DEF FreshType
<1> QED
  BY <1>2, ForgetFields

LEMMA ReturnErrorReturns ==
  ASSUME TypeOK, ReturnError
  PROVE  Returns
BY ForgetFields, IdentityKept DEF ReturnError, Requeue, Idle, Returns, crVars, stsVars

LEMMA TemplateStep ==
  ASSUME TypeOK, NEW current, UpdateTemplate(current), rec.pc \in PastFinalizer
  PROVE  Inner \/ Returns
<1>1. CASE current
  <2>1. rec'.pc = "status" /\ rec'.server = rec.server
    BY <1>1, GotoFields DEF UpdateTemplate
  <2>2. /\ fresh'.seen = fresh.seen /\ fresh'.server = fresh.server
        /\ fresh'.sts => fresh.sts /\ sts' = sts
    BY <1>1, StoreSTSFields DEF UpdateTemplate
  <2>3. UNCHANGED <<cr, seen, stsSeen, owned>>
    BY <1>1 DEF UpdateTemplate, crVars
  <2> QED
    BY <2>1, <2>2, <2>3 DEF Inner, PastFinalizer
<1> QED
  BY <1>1, ReturnErrorReturns DEF UpdateTemplate

LEMMA StatefulSetStep ==
  ASSUME TypeOK, ReconcileStatefulSet
  PROVE  Inner \/ Returns
<1>1. rec.pc = "statefulset" /\ rec.pc \in PastFinalizer
  BY DEF ReconcileStatefulSet, PastFinalizer
<1>2. CASE ~stsSeen.exists /\ ~sts.exists
  <2>1. CreateStatefulSet
    BY <1>2 DEF ReconcileStatefulSet
  <2>2. rec'.pc = "status" /\ rec'.server = rec.server
    BY <2>1, GotoFields DEF CreateStatefulSet
  <2>3. /\ fresh'.seen = fresh.seen /\ fresh'.server = fresh.server
        /\ fresh'.sts => fresh.sts /\ sts' = sts
    BY <2>1, StoreSTSFields DEF CreateStatefulSet
  <2>4. UNCHANGED <<cr, seen, stsSeen>> /\ owned' = TRUE
    BY <2>1 DEF CreateStatefulSet, crVars
  <2> QED
    BY <1>1, <2>2, <2>3, <2>4 DEF Inner, PastFinalizer
<1>3. CASE ~stsSeen.exists /\ sts.exists
  BY <1>3, ReturnErrorReturns DEF ReconcileStatefulSet
<1>4. CASE stsSeen.exists /\ NeedsSnapshot
  <2>1. rec'.pc = "snapshot" /\ rec'.server = rec.server
    BY <1>4, GotoFields DEF ReconcileStatefulSet
  <2>2. fresh' = [fresh EXCEPT !.existing = fresh.sts] /\ UNCHANGED <<cr, seen, sts, stsSeen, owned>>
    BY <1>4 DEF ReconcileStatefulSet, crVars, stsVars
  <2>3. /\ fresh'.seen = fresh.seen /\ fresh'.server = fresh.server /\ fresh'.sts = fresh.sts
    BY <2>2 DEF TypeOK, FreshType
  <2> QED
    BY <1>1, <2>1, <2>2, <2>3 DEF Inner, PastFinalizer
<1>5. CASE stsSeen.exists /\ ~NeedsSnapshot
  BY <1>1, <1>5, TemplateStep DEF ReconcileStatefulSet
<1> QED
  BY <1>2, <1>3, <1>4, <1>5

LEMMA PasswordStep ==
  ASSUME TypeOK, CheckPassword
  PROVE  Inner \/ Returns
<1>1. CASE rec.server.spec.pw /\ secret = 0
  <2>1. SetPhaseError
    BY <1>1 DEF CheckPassword
  <2>2. SameIdentity
    BY <2>1, IdentityKept, StatusKeepsIdentity DEF SetPhaseError
  <2>3. (fresh'.seen => fresh.seen /\ cr' = cr) /\ fresh'.sts = fresh.sts
    BY <2>1, StatusFresh DEF SetPhaseError
  <2>4. rec'.pc = "idle" /\ UNCHANGED <<seen, sts, stsSeen, owned>>
    BY <2>1 DEF SetPhaseError, Requeue, Idle, stsVars
  <2> QED
    BY <2>2, <2>3, <2>4 DEF Returns
<1>2. CASE ~(rec.server.spec.pw /\ secret = 0)
  <2>1. /\ rec' = [rec EXCEPT !.pc = "pvc", !.hash = IF rec.server.spec.pw THEN secret ELSE 0]
        /\ UNCHANGED <<cr, seen, sts, stsSeen, owned, fresh>>
    BY <1>2 DEF CheckPassword, crVars, stsVars
  <2>2. rec'.pc = "pvc" /\ rec'.server = rec.server
    BY <2>1 DEF TypeOK, RecType
  <2>3. rec.pc = "password"
    BY DEF CheckPassword
  <2> QED
    BY <2>1, <2>2, <2>3 DEF Inner, PastFinalizer
<1> QED
  BY <1>1, <1>2

LEMMA StatusStep ==
  ASSUME TypeOK, UpdateStatus
  PROVE  Returns
<1>1. CASE fresh.server
  <2>1. SameIdentity
    BY <1>1, StatusKeepsIdentity DEF UpdateStatus
  <2>2. (fresh'.seen => fresh.seen /\ cr' = cr) /\ fresh'.sts = fresh.sts
    BY <1>1, StatusFresh DEF UpdateStatus
  <2>3. rec'.pc = "idle" /\ UNCHANGED <<seen, sts, stsSeen, owned>>
    BY <1>1 DEF UpdateStatus, Idle, stsVars
  <2> QED
    BY <2>1, <2>2, <2>3 DEF Returns
<1> QED
  BY <1>1, ReturnErrorReturns DEF UpdateStatus

LEMMA StartStep ==
  ASSUME TypeOK, StartReconcile
  PROVE  Started \/ Outer
<1>1. CASE seen.exists /\ (seen.deleting => seen.fin)
  <2>1. /\ rec' = [Idle EXCEPT !.pc = EntryPoint(seen), !.server = seen]
        /\ fresh' = [fresh EXCEPT !.server = fresh.seen]
        /\ UNCHANGED <<cr, seen, sts, stsSeen, owned>>
    BY <1>1 DEF StartReconcile, crVars, stsVars
  <2>2. rec'.pc = EntryPoint(seen) /\ rec'.server = seen
    BY <2>1 DEF Idle
  <2>3. fresh'.seen = fresh.seen /\ fresh'.server = fresh.seen /\ fresh'.sts = fresh.sts
    BY <2>1 DEF TypeOK, FreshType
  <2> QED
    BY <1>1, <2>1, <2>2, <2>3 DEF Started
<1>2. CASE ~(seen.exists /\ (seen.deleting => seen.fin))
  BY <1>2, IdentityKept DEF StartReconcile, Outer, FreshOnlyIfKept, crVars, stsVars
<1> QED
  BY <1>1, <1>2

LEMMA ReconcileStep ==
  ASSUME TypeOK, Reconcile
  PROVE  \/ Started \/ Inner \/ Returns \/ Outer \/ DeletePVC
         \/ (RemoveFinalizer /\ fresh.server) \/ (AddFinalizer /\ fresh.server)
<1> USE DEF crVars, stsVars
<1>1. CASE ReconcilePVC
  <2>1. CASE ~pvcSeen /\ pvc
    BY <1>1, <2>1, ReturnErrorReturns DEF ReconcilePVC
  <2>2. CASE ~(~pvcSeen /\ pvc)
    <3>1. rec'.pc = "deferral" /\ rec'.server = rec.server
      BY <1>1, <2>2, GotoFields DEF ReconcilePVC
    <3> QED
      BY <1>1, <2>2, <3>1 DEF ReconcilePVC, Inner, PastFinalizer
  <2> QED
    BY <2>1, <2>2
<1>2. CASE CheckDeferral
  <2>1. rec'.pc \in {"status", "statefulset"} /\ rec'.server = rec.server
    BY <1>2 DEF CheckDeferral, TypeOK, RecType
  <2> QED
    BY <1>2, <2>1 DEF CheckDeferral, Inner, PastFinalizer
<1>3. CASE CreateSnapshot
  <2>1. rec'.pc = "await" /\ rec'.server = rec.server
    BY <1>3, GotoFields DEF CreateSnapshot
  <2> QED
    BY <1>3, <2>1 DEF CreateSnapshot, Inner, PastFinalizer
<1>4. CASE SnapshotReady
  <2>1. rec'.pc = "apply" /\ rec'.server = rec.server
    BY <1>4, GotoFields DEF SnapshotReady
  <2> QED
    BY <1>4, <2>1 DEF SnapshotReady, Inner, PastFinalizer
<1>5. CASE SnapshotFails
  <2>1. CASE Strict
    BY <1>5, <2>1, ReturnErrorReturns DEF SnapshotFails
  <2>2. CASE ~Strict
    <3>1. rec'.pc = "apply" /\ rec'.server = rec.server
      BY <1>5, <2>2, GotoFields DEF SnapshotFails
    <3> QED
      BY <1>5, <2>2, <3>1 DEF SnapshotFails, Inner, PastFinalizer
  <2> QED
    BY <2>1, <2>2
<1>6. CASE ApplyAfterSnapshot
  BY <1>6, TemplateStep DEF ApplyAfterSnapshot, PastFinalizer
<1>7. CASE RemoveFinalizer \/ AddFinalizer
  BY <1>7, ReturnErrorReturns DEF RemoveFinalizer, AddFinalizer
<1> QED
  BY <1>1, <1>2, <1>3, <1>4, <1>5, <1>6, <1>7, StartStep, PasswordStep, StatefulSetStep, StatusStep
  DEF Reconcile

\* A step that touches neither the CR nor the copies is an outer step.
LEMMA Untouched ==
  ASSUME UNCHANGED <<cr, seen, sts, stsSeen, owned, fresh, rec, snap>>
  PROVE  Outer
BY IdentityKept DEF Outer, FreshOnlyIfKept

LEMMA RemovalStep ==
  ASSUME TypeOK, RemoveStatefulSet
  PROVE  Outer
<1>1. /\ fresh'.seen = fresh.seen /\ fresh'.server = fresh.server
      /\ fresh'.sts => fresh.sts /\ sts' = sts
  BY StoreSTSFields DEF RemoveStatefulSet
<1>2. owned' = FALSE /\ UNCHANGED <<cr, seen, stsSeen, rec, snap>>
  BY DEF RemoveStatefulSet, crVars
<1> QED
  BY <1>1, <1>2, IdentityKept DEF Outer, FreshOnlyIfKept

LEMMA PodStep ==
  ASSUME TypeOK, NEW new, StoreSTS(new), UNCHANGED <<cr, seen, stsSeen, owned, rec, snap>>
  PROVE  Outer
<1>1. /\ fresh'.seen = fresh.seen /\ fresh'.server = fresh.server
      /\ fresh'.sts => fresh.sts /\ sts' = sts
  BY StoreSTSFields
<1> QED
  BY <1>1, IdentityKept DEF Outer, FreshOnlyIfKept

LEMMA WriteStep ==
  ASSUME TypeOK, NEW new, StoreCR(new), SameIdentity,
         UNCHANGED <<seen, sts, stsSeen, owned, rec, snap>>
  PROVE  Outer
BY StoreCRFields DEF Outer, FreshOnlyIfKept

LEMMA OperatorStep ==
  ASSUME TypeOK, Operator, ~Reconcile
  PROVE  SyncCR \/ Crash \/ Outer \/ Returns
<1> USE DEF crVars, stsVars
<1>1. CASE SyncSTS
  <2>1. fresh'.seen = fresh.seen /\ fresh'.server = fresh.server
    BY <1>1 DEF SyncSTS, TypeOK, FreshType
  <2> QED
    BY <1>1, <2>1, IdentityKept DEF SyncSTS, Outer, FreshOnlyIfKept
<1>2. CASE SyncPVC \/ TimerFires \/ Resync
  BY <1>2, Untouched DEF SyncPVC, TimerFires, Resync
<1>3. CASE ApiFault
  BY <1>3, ReturnErrorReturns DEF ApiFault
<1> QED
  BY <1>1, <1>2, <1>3 DEF Operator

LEMMA UserStep ==
  ASSUME TypeOK, User
  PROVE  (\E s \in Specs : UserCreate(s)) \/ UserDelete \/ Outer
<1> USE DEF crVars, stsVars
<1>1. ASSUME NEW s \in Specs, UserEdit(s) PROVE Outer
  <2>1. SameIdentity
    BY <1>1 DEF UserEdit, StoreCR, TypeOK, ServerType, SameIdentity
  <2> QED
    BY <1>1, <2>1, WriteStep DEF UserEdit
<1>2. CASE UserRemovesSTS
  BY <1>2, RemovalStep DEF UserRemovesSTS
<1>3. ASSUME NEW v \in 0 .. MaxSecret, SecretChange(v) PROVE Outer
  BY <1>3, Untouched DEF SecretChange
<1> QED
  BY <1>1, <1>2, <1>3 DEF User

LEMMA ClusterStep ==
  ASSUME TypeOK, Cluster
  PROVE  Outer
<1> USE DEF crVars, stsVars
<1>1. CASE GarbageCollect
  BY <1>1, RemovalStep DEF GarbageCollect
<1>2. CASE RollPod
  BY <1>2, PodStep DEF RollPod
<1>3. CASE StartPod
  BY <1>3, PodStep DEF StartPod
<1>4. CASE Evict
  BY <1>4, PodStep DEF Evict
<1>5. CASE SnapshotDriver
  BY <1>5, IdentityKept DEF SnapshotDriver, Outer, FreshOnlyIfKept
<1>6. CASE ClockTick
  BY <1>6, Untouched DEF ClockTick
<1> QED
  BY <1>1, <1>2, <1>3, <1>4, <1>5, <1>6 DEF Cluster

LEMMA GameStep ==
  ASSUME TypeOK, Game
  PROVE  Outer
<1> USE DEF crVars, stsVars
<1>1. CASE PatchServerStatus
  <2>1. cr' = [cr EXCEPT !.players = sample] \/ cr' = cr
    BY <1>1 DEF PatchServerStatus, StoreCR
  <2>2. SameIdentity
    BY <2>1 DEF TypeOK, ServerType, SameIdentity
  <2> QED
    BY <1>1, <2>2, WriteStep DEF PatchServerStatus
<1>2. CASE ~PatchServerStatus
  BY <1>2, Untouched DEF Game, Join, Leave, Scrape, ScrapeFails, PatchFails
<1> QED
  BY <1>1, <1>2

LEMMA AddFinalizerStep ==
  ASSUME TypeOK, FreshCopiesAgree, AddFinalizer, fresh.server
  PROVE  /\ rec.server = cr
         /\ cr'.exists = cr.exists /\ cr'.deleting = cr.deleting /\ cr'.fin
         /\ cr'.spec = cr.spec /\ cr'.players = cr.players
         /\ rec'.pc = "password" /\ rec'.server = cr'
         /\ ~fresh'.seen /\ fresh'.sts = fresh.sts
         /\ UNCHANGED <<seen, sts, stsSeen, owned>>
<1>1. rec.server = cr /\ cr \in ServerType
  BY DEF AddFinalizer, FreshCopiesAgree, TypeOK
<1>2. cr' = [cr EXCEPT !.fin = TRUE]
  BY <1>1, SameSpec DEF AddFinalizer
<1>3. /\ cr'.exists = cr.exists /\ cr'.deleting = cr.deleting /\ cr'.fin
      /\ cr'.spec = cr.spec /\ cr'.players = cr.players
  BY <1>1, <1>2 DEF ServerType
<1>4. rec' = [rec EXCEPT !.pc = "password", !.server.fin = TRUE]
  BY DEF AddFinalizer
<1>5. rec'.pc = "password" /\ rec'.server = [cr EXCEPT !.fin = TRUE]
  BY <1>1, <1>4 DEF TypeOK, RecType
<1>6. ~fresh'.seen /\ fresh'.sts = fresh.sts
  BY DEF AddFinalizer, TypeOK, FreshType
<1> QED
  BY <1>1, <1>2, <1>3, <1>5, <1>6 DEF AddFinalizer, stsVars

LEMMA RemoveFinalizerStep ==
  ASSUME TypeOK, RemoveFinalizer, fresh.server
  PROVE  /\ cr' = NoServer /\ ~cr'.exists /\ ~owned'
         /\ rec'.pc = "idle"
         /\ ~fresh'.seen /\ fresh'.sts = fresh.sts
         /\ UNCHANGED <<seen, sts, stsSeen>>
<1>1. Forget(fresh) \in FreshType
  BY ForgetType DEF TypeOK
<1>2. fresh' = [Forget(fresh) EXCEPT !.seen = FALSE]
  BY DEF RemoveFinalizer
<1>3. ~fresh'.seen /\ fresh'.sts = Forget(fresh).sts
  BY <1>1, <1>2 DEF FreshType
<1>4. cr' = NoServer /\ owned' = FALSE /\ rec' = Idle /\ UNCHANGED <<seen, sts, stsSeen>>
  BY DEF RemoveFinalizer
<1>5. ~NoServer.exists /\ Idle.pc = "idle"
  BY DEF NoServer, Idle
<1> QED
  BY <1>3, <1>4, <1>5, ForgetFields

-----------------------------------------------------------------------------
(* Each class of steps keeps the invariant.                                 *)

Copies == FreshCopiesAgree /\ ReconcileKnows /\ FinalizerHolds /\ DeletionsAreOurs

LEMMA CopiesInit == Init => Copies
<1> SUFFICES ASSUME Init PROVE Copies
  OBVIOUS
<1>1. rec.pc = "idle" /\ ~seen.exists /\ ~owned /\ seen = cr /\ stsSeen = sts
  BY DEF Init, Idle, NoServer
<1> QED
  BY <1>1 DEF Copies, FreshCopiesAgree, ReconcileKnows, FinalizerHolds, FinalizerPinsServer,
              DeletionsAreOurs, PastFinalizer, BeforeWrite

LEMMA StartedKeeps ==
  ASSUME Copies, Started
  PROVE  Copies'
<1> USE DEF Copies, Started
<1>1. EntryPoint(seen) \in {"deletePVC", "password", "addFinalizer"}
  BY DEF EntryPoint
<1>2. EntryPoint(seen) = "deletePVC" <=> seen.deleting
  BY DEF EntryPoint
<1>3. EntryPoint(seen) = "password" => seen.fin
  BY DEF EntryPoint
<1>4. FreshCopiesAgree'
  BY DEF FreshCopiesAgree
<1>5. ReconcileKnows'
  BY <1>1, <1>2 DEF ReconcileKnows, PastFinalizer, BeforeWrite
<1>6. FinalizerHolds'
  BY <1>1, <1>2, <1>3 DEF FinalizerHolds, FinalizerPinsServer, PastFinalizer
<1>7. DeletionsAreOurs'
  BY <1>1, <1>2 DEF DeletionsAreOurs, PastFinalizer
<1> QED
  BY <1>4, <1>5, <1>6, <1>7

LEMMA InnerKeeps ==
  ASSUME Copies, Inner
  PROVE  Copies'
<1> USE DEF Copies, Inner
<1>1. rec.pc # "idle" /\ rec'.pc \notin BeforeWrite
  BY DEF PastFinalizer, BeforeWrite
<1>2. FreshCopiesAgree'
  BY <1>1 DEF FreshCopiesAgree
<1>3. ReconcileKnows'
  BY <1>1 DEF ReconcileKnows, BeforeWrite, Strict
<1>4. FinalizerHolds'
  BY DEF FinalizerHolds, FinalizerPinsServer
<1>5. DeletionsAreOurs'
  BY <1>1 DEF DeletionsAreOurs, FinalizerHolds, FinalizerPinsServer, BeforeWrite
<1> QED
  BY <1>2, <1>3, <1>4, <1>5

LEMMA ReturnsKeeps ==
  ASSUME Copies, Returns
  PROVE  Copies'
<1> USE DEF Copies, Returns, SameIdentity
<1>1. FreshCopiesAgree'
  BY DEF FreshCopiesAgree
<1>2. ReconcileKnows'
  BY DEF ReconcileKnows, PastFinalizer, BeforeWrite
<1>3. FinalizerHolds'
  BY DEF FinalizerHolds, FinalizerPinsServer, PastFinalizer
<1>4. DeletionsAreOurs'
  BY DEF DeletionsAreOurs, PastFinalizer
<1> QED
  BY <1>1, <1>2, <1>3, <1>4

LEMMA OuterKeeps ==
  ASSUME Copies, Outer
  PROVE  Copies'
<1> USE DEF Copies, Outer, SameIdentity, FreshOnlyIfKept
<1>1. FreshCopiesAgree'
  BY DEF FreshCopiesAgree
<1>2. ReconcileKnows'
  BY DEF ReconcileKnows, Strict
<1>3. FinalizerHolds'
  BY DEF FinalizerHolds, FinalizerPinsServer
<1>4. owned' => owned
  OBVIOUS
<1>5. DeletionsAreOurs'
  BY <1>4 DEF DeletionsAreOurs
<1> QED
  BY <1>1, <1>2, <1>3, <1>5

LEMMA DeletePVCKeeps ==
  ASSUME TypeOK, Copies, DeletePVC
  PROVE  Copies'
<1>1. /\ rec.pc = "deletePVC" /\ rec'.pc = "removeFinalizer" /\ rec'.server = rec.server
      /\ UNCHANGED <<cr, seen, sts, stsSeen, owned, fresh>>
  BY GotoFields DEF DeletePVC, crVars, stsVars
<1>2. FreshCopiesAgree'
  BY <1>1 DEF Copies, FreshCopiesAgree
<1>3. ReconcileKnows'
  BY <1>1 DEF Copies, ReconcileKnows, PastFinalizer, BeforeWrite
<1>4. FinalizerHolds'
  BY <1>1 DEF Copies, FinalizerHolds, FinalizerPinsServer, PastFinalizer
<1>5. DeletionsAreOurs'
  BY <1>1 DEF Copies, DeletionsAreOurs, PastFinalizer
<1> QED
  BY <1>2, <1>3, <1>4, <1>5 DEF Copies

\* The CR that goes is the one the cache shows as being deleted.
LEMMA RemoveFinalizerKeeps ==
  ASSUME TypeOK, Copies, RemoveFinalizer, fresh.server
  PROVE  Copies'
<1>1. seen.deleting
  BY DEF RemoveFinalizer, Copies, ReconcileKnows, BeforeWrite
<1>2. FreshCopiesAgree'
  BY RemoveFinalizerStep DEF Copies, FreshCopiesAgree
<1>3. ReconcileKnows'
  BY RemoveFinalizerStep DEF ReconcileKnows, PastFinalizer, BeforeWrite
<1>4. FinalizerHolds'
  BY <1>1, RemoveFinalizerStep DEF FinalizerHolds, FinalizerPinsServer, PastFinalizer
<1>5. DeletionsAreOurs'
  BY RemoveFinalizerStep DEF DeletionsAreOurs, PastFinalizer
<1> QED
  BY <1>2, <1>3, <1>4, <1>5 DEF Copies

LEMMA AddFinalizerKeeps ==
  ASSUME TypeOK, Copies, AddFinalizer, fresh.server
  PROVE  Copies'
<1>1. FreshCopiesAgree
  BY DEF Copies
<1>2. /\ rec.pc = "addFinalizer" /\ seen = cr /\ cr.exists /\ ~cr.deleting
  BY <1>1, AddFinalizerStep DEF AddFinalizer, Copies, ReconcileKnows, BeforeWrite
<1>3. FreshCopiesAgree'
  BY <1>1, AddFinalizerStep DEF FreshCopiesAgree
<1>4. ReconcileKnows'
  BY <1>1, <1>2, AddFinalizerStep DEF ReconcileKnows, PastFinalizer, BeforeWrite
<1>5. FinalizerHolds'
  BY <1>1, <1>2, AddFinalizerStep DEF FinalizerHolds, FinalizerPinsServer
<1>6. DeletionsAreOurs'
  BY <1>1, <1>2, AddFinalizerStep DEF DeletionsAreOurs
<1> QED
  BY <1>3, <1>4, <1>5, <1>6 DEF Copies

LEMMA SyncCRKeeps ==
  ASSUME TypeOK, Copies, SyncCR
  PROVE  Copies'
<1>1. seen' = cr /\ UNCHANGED <<cr, sts, stsSeen, owned, rec, snap>>
  BY DEF SyncCR, stsVars
<1>2. fresh'.server = fresh.server /\ fresh'.sts = fresh.sts
  BY DEF SyncCR, TypeOK, FreshType
<1>3. FreshCopiesAgree'
  BY <1>1, <1>2 DEF Copies, FreshCopiesAgree
<1>4. ReconcileKnows'
  BY <1>1, <1>2 DEF Copies, FreshCopiesAgree, ReconcileKnows, Strict, BeforeWrite
<1>5. FinalizerHolds'
  BY <1>1 DEF Copies, FinalizerHolds, FinalizerPinsServer
<1>6. DeletionsAreOurs'
  BY <1>1 DEF Copies, DeletionsAreOurs
<1> QED
  BY <1>3, <1>4, <1>5, <1>6 DEF Copies

LEMMA CrashKeeps ==
  ASSUME Copies, Crash
  PROVE  Copies'
<1>1. rec'.pc = "idle" /\ seen' = cr /\ stsSeen' = sts /\ UNCHANGED <<cr, sts, owned>>
  BY DEF Crash, Idle
<1> QED
  BY <1>1 DEF Copies, FreshCopiesAgree, ReconcileKnows, FinalizerHolds, FinalizerPinsServer,
              DeletionsAreOurs, PastFinalizer, BeforeWrite

\* A CR is created only when no reconcile past the finalizer, no cached finalizer
\* and no owned StatefulSet is left of the previous one.
LEMMA CreateKeeps ==
  ASSUME TypeOK, Copies, NEW s \in Specs, UserCreate(s)
  PROVE  Copies'
<1>1. ~cr.exists /\ UNCHANGED <<seen, sts, stsSeen, owned, rec, snap>>
  BY DEF UserCreate, stsVars
<1>2. FreshOnlyIfKept /\ fresh'.sts = fresh.sts
  BY StoreCRFields DEF UserCreate, FreshOnlyIfKept
<1>3. FreshCopiesAgree'
  BY <1>1, <1>2 DEF Copies, FreshCopiesAgree, FreshOnlyIfKept
<1>4. ReconcileKnows'
  BY <1>1, <1>2 DEF Copies, ReconcileKnows, Strict, FreshOnlyIfKept
<1>5. FinalizerHolds'
  BY <1>1 DEF Copies, FinalizerHolds, FinalizerPinsServer
<1>6. DeletionsAreOurs'
  BY <1>1 DEF Copies, DeletionsAreOurs, FinalizerHolds, FinalizerPinsServer
<1> QED
  BY <1>3, <1>4, <1>5, <1>6 DEF Copies

LEMMA DeleteKeeps ==
  ASSUME TypeOK, Copies, UserDelete
  PROVE  Copies'
<1>1. UNCHANGED <<seen, sts, stsSeen, rec, snap>>
  BY DEF UserDelete
<1>2. owned' => owned /\ cr.fin
  BY DEF UserDelete
<1>3. FreshOnlyIfKept /\ fresh'.sts = fresh.sts
  BY StoreCRFields DEF UserDelete, FreshOnlyIfKept
<1>4. cr.fin => cr'.exists /\ cr'.fin /\ cr'.deleting
  BY DEF UserDelete, StoreCR, TypeOK, ServerType
<1>5. FreshCopiesAgree'
  BY <1>1, <1>3 DEF Copies, FreshCopiesAgree, FreshOnlyIfKept
<1>6. ReconcileKnows'
  BY <1>1, <1>3 DEF Copies, ReconcileKnows, Strict, FreshOnlyIfKept
<1>7. FinalizerHolds'
  BY <1>1, <1>4 DEF Copies, FinalizerHolds, FinalizerPinsServer
<1>8. DeletionsAreOurs'
  BY <1>1, <1>2, <1>4 DEF Copies, DeletionsAreOurs, FinalizerHolds, FinalizerPinsServer
<1> QED
  BY <1>5, <1>6, <1>7, <1>8 DEF Copies

LEMMA CopiesStep ==
  ASSUME TypeOK, Copies, Next
  PROVE  Copies'
<1>1. CASE Reconcile
  BY <1>1, ReconcileStep, StartedKeeps, InnerKeeps, ReturnsKeeps, OuterKeeps, DeletePVCKeeps,
     RemoveFinalizerKeeps, AddFinalizerKeeps
<1>2. CASE Operator /\ ~Reconcile
  BY <1>2, OperatorStep, SyncCRKeeps, CrashKeeps, OuterKeeps, ReturnsKeeps
<1>3. CASE User
  BY <1>3, UserStep, CreateKeeps, DeleteKeeps, OuterKeeps
<1>4. CASE Cluster \/ Game
  BY <1>4, ClusterStep, GameStep, OuterKeeps
<1> QED
  BY <1>1, <1>2, <1>3, <1>4 DEF Next

-----------------------------------------------------------------------------
(* Who deletes the volume and who writes the template.                      *)

\* handleDeletion alone takes the PVC away.
LEMMA VolumeKept ==
  ASSUME Next, ~DeletePVC
  PROVE  pvc => pvc'
<1> USE DEF pvcVars
<1>1. CASE UNCHANGED pvc
  BY <1>1
<1>2. CASE SyncPVC \/ Crash
  BY <1>1, <1>2 DEF SyncPVC, Crash
<1>3. CASE ReconcilePVC
  BY <1>3 DEF ReconcilePVC, ReturnError
<1>4. CASE Reconcile /\ ~ReconcilePVC
  BY <1>1, <1>4 DEF Reconcile, StartReconcile, RemoveFinalizer, AddFinalizer, CheckPassword,
     SetPhaseError, CheckDeferral, ReconcileStatefulSet, CreateStatefulSet,
     UpdateTemplate, CreateSnapshot, SnapshotReady, SnapshotFails, ApplyAfterSnapshot,
     UpdateStatus, ReturnError
<1>5. CASE SyncCR \/ SyncSTS \/ TimerFires \/ Resync \/ ApiFault
  BY <1>1, <1>5 DEF SyncCR, SyncSTS, TimerFires, Resync, ApiFault, ReturnError
<1>6. CASE User
  BY <1>1, <1>6 DEF User, UserCreate, UserEdit, UserDelete, UserRemovesSTS, RemoveStatefulSet,
     SecretChange
<1>7. CASE Cluster
  BY <1>1, <1>7 DEF Cluster, GarbageCollect, RemoveStatefulSet, RollPod, StartPod, Evict,
     SnapshotDriver, ClockTick
<1>8. CASE Game
  BY <1>1, <1>8 DEF Game, Join, Leave, Scrape, ScrapeFails, PatchServerStatus, PatchFails
<1> QED
  BY <1>2, <1>3, <1>4, <1>5, <1>6, <1>7, <1>8 DEF Next, Operator

\* The template of a StatefulSet that is there changes under two steps only.
LEMMA TemplateWriters ==
  ASSUME TypeOK, Next, sts.exists, sts'.exists, sts'.tmpl # sts.tmpl
  PROVE  ReconcileStatefulSet \/ ApplyAfterSnapshot
<1> USE DEF stsVars, StoreSTS
<1>1. CASE Reconcile /\ ~ReconcileStatefulSet /\ ~ApplyAfterSnapshot
  BY <1>1 DEF Reconcile, StartReconcile, DeletePVC, RemoveFinalizer, AddFinalizer,
     CheckPassword, SetPhaseError, ReconcilePVC, CheckDeferral, CreateSnapshot,
     SnapshotReady, SnapshotFails, UpdateStatus, ReturnError
<1>2. CASE Operator /\ ~Reconcile
  BY <1>2 DEF Operator, SyncCR, SyncSTS, SyncPVC, TimerFires, Resync, ApiFault, ReturnError, Crash
<1>3. ~RemoveStatefulSet
  <2>1. ~NoStatefulSet.exists
    BY DEF NoStatefulSet
  <2> QED
    BY <2>1 DEF RemoveStatefulSet
<1>4. CASE User
  BY <1>3, <1>4 DEF User, UserCreate, UserEdit, UserDelete, UserRemovesSTS, SecretChange
<1>5. CASE Cluster
  <2>1. sts'.tmpl = sts.tmpl
    BY <1>3, <1>5 DEF Cluster, GarbageCollect, RollPod, StartPod, Evict, SnapshotDriver,
       ClockTick, TypeOK, StatefulSetType
  <2> QED
    BY <2>1
<1>6. CASE Game
  BY <1>6 DEF Game, Join, Leave, Scrape, ScrapeFails, PatchServerStatus, PatchFails
<1> QED
  BY <1>1, <1>2, <1>4, <1>5, <1>6 DEF Next

-----------------------------------------------------------------------------
(* The theorems.                                                            *)

LEMMA SafetyStutters ==
  ASSUME SafetyInv, UNCHANGED vars
  PROVE  SafetyInv'
<1>1. TypeOK'
  BY DEF SafetyInv, vars, TypeOK
<1>2. FreshCopiesAgree'
  BY DEF SafetyInv, vars, FreshCopiesAgree
<1>3. ReconcileKnows'
  BY DEF SafetyInv, vars, ReconcileKnows, Strict
<1>4. FinalizerHolds'
  BY DEF SafetyInv, vars, FinalizerHolds, FinalizerPinsServer
<1>5. DeletionsAreOurs'
  BY DEF SafetyInv, vars, DeletionsAreOurs
<1> QED
  BY <1>1, <1>2, <1>3, <1>4, <1>5 DEF SafetyInv

LEMMA TypeStep ==
  ASSUME TypeOK, Next
  PROVE  TypeOK'
BY OperatorType, UserType, ClusterType, GameType DEF Next

\* The four parts of the safety invariant hold together in every reachable state:
\* fresh copies equal the stored objects, the program counter tells what the local
\* copy holds, the finalizer pins the CR, and no deletion of an earlier
\* incarnation of the CR is acted upon.
THEOREM SafetyInvariant == Spec => []SafetyInv
<1>1. Init => SafetyInv
  BY InitType, CopiesInit DEF SafetyInv, Copies
<1>2. SafetyInv /\ Next => SafetyInv'
  BY TypeStep, CopiesStep DEF SafetyInv, Copies
<1>3. SafetyInv /\ UNCHANGED vars => SafetyInv'
  BY SafetyStutters
<1> QED
  BY <1>1, <1>2, <1>3, PTL DEF Spec

\* A reconcile past the finalizer step works for a CR that exists and holds the
\* finalizer, however stale its copy (Reconcile, handleDeletion).
THEOREM FinalizerPins == Spec => []FinalizerPinsServer
<1>1. SafetyInv => FinalizerPinsServer
  BY DEF SafetyInv, FinalizerHolds
<1> QED
  BY <1>1, SafetyInvariant, PTL

\* No step deletes the savegame PVC of a live server whose StatefulSet is its own:
\* handleDeletion is the only deletion, and it never runs for such a server.
THEOREM SaveDataKept == Spec => LiveServerKeepsSaveData
<1> DEFINE Kept == cr.exists /\ ~cr.deleting /\ sts.exists /\ owned /\ pvc => pvc'
<1>1. SafetyInv /\ [Next]_vars => [Kept]_vars
  <2> SUFFICES ASSUME SafetyInv, Next, pvc, owned, ~cr.deleting PROVE pvc'
    OBVIOUS
  <2>1. ~DeletePVC
    BY DEF DeletePVC, SafetyInv, DeletionsAreOurs
  <2> QED
    BY <2>1, VolumeKept
<1> QED
  BY <1>1, SafetyInvariant, PTL DEF Spec, LiveServerKeepsSaveData

\* A reconcile writes back the spec and the player count it finds, or removes the CR.
LEMMA ForeignFields ==
  ASSUME SafetyInv, Reconcile
  PROVE  (cr'.spec = cr.spec /\ cr'.players = cr.players) \/ (RemoveFinalizer /\ fresh.server)
<1> USE DEF crVars, SafetyInv, TypeOK, FreshCopiesAgree
<1>1. CASE RemoveFinalizer
  BY <1>1 DEF RemoveFinalizer, ReturnError
<1>2. CASE AddFinalizer
  BY <1>2, AddFinalizerStep DEF AddFinalizer, ReturnError
<1>3. CASE CheckPassword
  <2>1. CASE cr' = WithStatus("Error", rec.server.deferred) /\ fresh.server
    BY <1>3, <2>1 DEF CheckPassword, WithStatus, ServerType
  <2>2. CASE cr' = cr
    BY <2>2
  <2> QED
    BY <1>3, <2>1, <2>2 DEF CheckPassword, SetPhaseError
<1>4. CASE UpdateStatus
  <2>1. CASE fresh.server
    <3>1. rec.server = cr /\ cr' = WithStatus(PhaseOf(stsSeen), rec.deferred)
      BY <1>4, <2>1 DEF UpdateStatus
    <3>2. cr'.spec = cr.spec /\ cr'.players = rec.server.players
      BY <3>1 DEF WithStatus, ServerType
    <3> QED
      BY <3>1, <3>2
  <2> QED
    BY <1>4, <2>1 DEF UpdateStatus, ReturnError
<1>5. CASE \/ StartReconcile \/ DeletePVC \/ ReconcilePVC \/ CheckDeferral
           \/ ReconcileStatefulSet \/ CreateSnapshot \/ SnapshotReady \/ SnapshotFails
           \/ ApplyAfterSnapshot
  BY <1>5 DEF StartReconcile, DeletePVC, ReconcilePVC, CheckDeferral, ReturnError,
     ReconcileStatefulSet, CreateStatefulSet, UpdateTemplate, CreateSnapshot,
     SnapshotReady, SnapshotFails, ApplyAfterSnapshot
<1> QED
  BY <1>1, <1>2, <1>3, <1>4, <1>5 DEF Reconcile

\* The finalizer and status updates of a reconcile leave the user's spec and the
\* sidecar's player count as they are: a copy that could differ is refused.
THEOREM ForeignFieldsKept == Spec => OperatorKeepsForeignFields
<1> DEFINE Kept == Reconcile /\ cr'.exists => cr'.spec = cr.spec /\ cr'.players = cr.players
<1>1. SafetyInv /\ RemoveFinalizer /\ fresh.server => ~cr'.exists
  BY RemoveFinalizerStep DEF SafetyInv
<1>2. SafetyInv /\ [Next]_vars => [Kept]_vars
  BY <1>1, ForeignFields
<1> QED
  BY <1>2, SafetyInvariant, PTL DEF Spec, OperatorKeepsForeignFields

\* Under StrictSnapshotBeforeUpdate the image of an existing StatefulSet changes
\* only when the snapshot the reconcile waited for is ready.
THEOREM StrictSnapshots == Spec => StrictSnapshotFirst
<1> DEFINE First == sts.exists /\ sts'.exists /\ sts'.tmpl.image # sts.tmpl.image /\ Strict
                    => snap = "ready"
<1>1. SafetyInv /\ [Next]_vars => [First]_vars
  <2> SUFFICES ASSUME SafetyInv, Next, sts.exists, sts'.exists, Strict,
                      sts'.tmpl.image # sts.tmpl.image
               PROVE  snap = "ready"
    OBVIOUS
  <2> USE DEF SafetyInv, TypeOK, stsVars, StoreSTS
  <2>1. CASE ReconcileStatefulSet
    <3>1. fresh.sts /\ ~NeedsSnapshot /\ sts' = [sts EXCEPT !.tmpl = Desired]
      BY <2>1 DEF ReconcileStatefulSet, CreateStatefulSet, UpdateTemplate, ReturnError
    <3>2. sts.tmpl.image = rec.server.spec.image
      BY <3>1 DEF NeedsSnapshot, Strict, FreshCopiesAgree
    <3>3. sts'.tmpl = Desired
      BY <3>1 DEF StatefulSetType
    <3>4. Desired.image = rec.server.spec.image
      BY DEF Desired
    <3> QED
      BY <3>2, <3>3, <3>4
  <2>2. CASE ApplyAfterSnapshot
    BY <2>2 DEF ApplyAfterSnapshot, ReconcileKnows
  <2> QED
    BY <2>1, <2>2, TemplateWriters
<1> QED
  BY <1>1, SafetyInvariant, PTL DEF Spec, StrictSnapshotFirst

=============================================================================
