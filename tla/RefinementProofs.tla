--------------------------- MODULE RefinementProofs ---------------------------
(* Reconciler implements its two abstract specifications: every step of it  *)
(* is a step of the abstract one or invisible to it.                        *)
EXTENDS ReconcilerRefines, ReconcilerSafety

-----------------------------------------------------------------------------
(* ServerLifecycle: the stage, the child and the save data.                 *)

Child == sts.exists /\ owned

LEMMA StageKept ==
  ASSUME SameIdentity
  PROVE  StageOf(cr)' = StageOf(cr)
BY DEF SameIdentity, StageOf

\* A step that changes no more than the status of the CR and the template or the
\* pod of the StatefulSet is not visible in the lifecycle.
LEMMA Invisible ==
  ASSUME SameIdentity, Child' = Child, pvc' = pvc
  PROVE  UNCHANGED Lifecycle!vars
BY StageKept DEF Lifecycle!vars, Child

LEMMA ErrorInvisible ==
  ASSUME ReturnError
  PROVE  UNCHANGED Lifecycle!vars
BY Invisible, IdentityKept DEF ReturnError, Child, crVars, stsVars, pvcVars

\* A reconcile past the finalizer step works for a server that is held.
LEMMA HeldPastFinalizer ==
  ASSUME SafetyInv, rec.pc \in PastFinalizer
  PROVE  Lifecycle!Held
BY DEF SafetyInv, FinalizerHolds, FinalizerPinsServer, Lifecycle!Held, StageOf

LEMMA TemplateInvisible ==
  ASSUME TypeOK, NEW current, UpdateTemplate(current)
  PROVE  UNCHANGED Lifecycle!vars
<1>1. CASE current
  <2>1. sts' = [sts EXCEPT !.tmpl = Desired] /\ UNCHANGED <<cr, owned, pvc>>
    BY <1>1 DEF UpdateTemplate, StoreSTS, crVars, pvcVars
  <2>2. sts'.exists = sts.exists
    BY <2>1 DEF TypeOK, StatefulSetType
  <2> QED
    BY <2>1, <2>2, Invisible, IdentityKept DEF Child
<1> QED
  BY <1>1, ErrorInvisible DEF UpdateTemplate

LEMMA StatefulSetVisible ==
  ASSUME SafetyInv, ReconcileStatefulSet
  PROVE  Lifecycle!GainChild \/ UNCHANGED Lifecycle!vars
<1>1. CASE ~stsSeen.exists /\ ~sts.exists
  <2>1. CreateStatefulSet
    BY <1>1 DEF ReconcileStatefulSet
  <2>2. ~Child /\ Child' /\ UNCHANGED <<cr, pvc>>
    BY <1>1, <2>1 DEF CreateStatefulSet, StoreSTS, Child, crVars, pvcVars
  <2>3. StageOf(cr)' = StageOf(cr)
    BY <2>2, StageKept, IdentityKept
  <2>4. Lifecycle!Held
    BY HeldPastFinalizer DEF ReconcileStatefulSet, PastFinalizer
  <2> QED
    BY <2>2, <2>3, <2>4 DEF Lifecycle!GainChild, Child
<1>2. CASE ~stsSeen.exists /\ sts.exists
  BY <1>2, ErrorInvisible DEF ReconcileStatefulSet
<1>3. CASE stsSeen.exists /\ NeedsSnapshot
  BY <1>3, Invisible, IdentityKept DEF ReconcileStatefulSet, Child, crVars, stsVars, pvcVars
<1>4. CASE stsSeen.exists /\ ~NeedsSnapshot
  BY <1>4, TemplateInvisible DEF ReconcileStatefulSet, SafetyInv
<1> QED
  BY <1>1, <1>2, <1>3, <1>4

LEMMA PVCVisible ==
  ASSUME SafetyInv, ReconcilePVC
  PROVE  Lifecycle!GainData \/ UNCHANGED Lifecycle!vars
<1>1. CASE ~pvcSeen /\ pvc
  BY <1>1, ErrorInvisible DEF ReconcilePVC
<1>2. CASE ~(~pvcSeen /\ pvc)
  <2>1. pvc' = (pvc \/ ~pvcSeen) /\ UNCHANGED <<cr, sts, owned>>
    BY <1>2 DEF ReconcilePVC, crVars, stsVars
  <2>2. StageOf(cr)' = StageOf(cr) /\ Child' = Child
    BY <2>1, StageKept, IdentityKept DEF Child
  <2>3. Lifecycle!Held
    BY HeldPastFinalizer DEF ReconcilePVC, PastFinalizer
  <2>4. pvc \in BOOLEAN
    BY DEF SafetyInv, TypeOK
  <2>5. CASE pvc' = pvc
    BY <2>1, <2>5, Invisible, IdentityKept DEF Child
  <2>6. CASE ~pvc /\ pvc' = TRUE
    BY <2>2, <2>3, <2>6 DEF Lifecycle!GainData, Child
  <2> QED
    BY <2>1, <2>4, <2>5, <2>6
<1> QED
  BY <1>1, <1>2

\* handleDeletion meets a child only if the CR that owns it is being deleted.
LEMMA DeletePVCVisible ==
  ASSUME SafetyInv, DeletePVC
  PROVE  Lifecycle!LoseData \/ UNCHANGED Lifecycle!vars
<1>1. Child => StageOf(cr) = "leaving"
  BY DEF DeletePVC, SafetyInv, DeletionsAreOurs, Child, StageOf
<1>2. pvc' = (pvc /\ (rec.server.spec.retain \/ ~pvcSeen)) /\ UNCHANGED <<cr, sts, owned>>
  BY DEF DeletePVC, crVars, stsVars
<1>3. StageOf(cr)' = StageOf(cr) /\ Child' = Child
  BY <1>2, StageKept, IdentityKept DEF Child
<1>4. pvc \in BOOLEAN
  BY DEF SafetyInv, TypeOK
<1>5. CASE pvc' = pvc
  BY <1>2, <1>5, Invisible, IdentityKept DEF Child
<1>6. CASE pvc /\ pvc' = FALSE
  BY <1>1, <1>3, <1>6 DEF Lifecycle!LoseData, Child
<1> QED
  BY <1>2, <1>4, <1>5, <1>6

LEMMA RemoveFinalizerVisible ==
  ASSUME SafetyInv, RemoveFinalizer
  PROVE  Lifecycle!Release \/ UNCHANGED Lifecycle!vars
<1>1. CASE fresh.server
  <2>1. StageOf(cr) = "leaving"
    BY <1>1 DEF RemoveFinalizer, SafetyInv, FreshCopiesAgree, ReconcileKnows, StageOf
  <2>2. ~cr'.exists /\ ~owned' /\ pvc' = pvc
    BY <1>1, RemoveFinalizerStep DEF SafetyInv, RemoveFinalizer, pvcVars
  <2>3. StageOf(cr)' = "absent"
    BY <2>2 DEF StageOf
  <2>4. Child' = FALSE
    BY <2>2 DEF Child
  <2> QED
    BY <2>1, <2>2, <2>3, <2>4 DEF Lifecycle!Release, Child
<1> QED
  BY <1>1, ErrorInvisible DEF RemoveFinalizer

LEMMA AddFinalizerVisible ==
  ASSUME SafetyInv, AddFinalizer
  PROVE  Lifecycle!Pin \/ UNCHANGED Lifecycle!vars
<1>1. CASE fresh.server
  <2>1. /\ rec.server = cr /\ cr'.exists = cr.exists /\ cr'.deleting = cr.deleting /\ cr'.fin
        /\ UNCHANGED <<sts, owned>>
    BY <1>1, AddFinalizerStep DEF SafetyInv
  <2>2. cr.exists /\ ~cr.deleting
    BY <2>1 DEF AddFinalizer, SafetyInv, ReconcileKnows
  <2>3. pvc' = pvc /\ Child' = Child
    BY <1>1, <2>1 DEF AddFinalizer, pvcVars, Child
  <2>4. StageOf(cr)' = "pinned"
    BY <2>1, <2>2 DEF StageOf
  <2>5. StageOf(cr) \in {"new", "pinned"}
    BY <2>2 DEF StageOf
  <2> QED
    BY <2>3, <2>4, <2>5 DEF Lifecycle!Pin, Lifecycle!vars, Child
<1> QED
  BY <1>1, ErrorInvisible DEF AddFinalizer

LEMMA OtherReconcileInvisible ==
  ASSUME SafetyInv,
         \/ StartReconcile \/ CheckPassword \/ CheckDeferral \/ CreateSnapshot
         \/ SnapshotReady \/ SnapshotFails \/ UpdateStatus
  PROVE  UNCHANGED Lifecycle!vars
<1>1. TypeOK
  BY DEF SafetyInv
<1>2. SameIdentity
  BY <1>1, StartStep, PasswordStep, StatusStep, IdentityKept
  DEF Started, Inner, Returns, Outer, CheckDeferral, CreateSnapshot, SnapshotReady,
      SnapshotFails, ReturnError, crVars
<1>3. UNCHANGED <<sts, owned, pvc>>
  BY DEF StartReconcile, CheckPassword, SetPhaseError, CheckDeferral, CreateSnapshot,
         SnapshotReady, SnapshotFails, UpdateStatus, ReturnError, stsVars, pvcVars
<1> QED
  BY <1>2, <1>3, Invisible DEF Child

LEMMA ReconcileRefines ==
  ASSUME SafetyInv, Reconcile
  PROVE  Lifecycle!Next \/ UNCHANGED Lifecycle!vars
<1>1. CASE ApplyAfterSnapshot
  BY <1>1, TemplateInvisible DEF ApplyAfterSnapshot, SafetyInv
<1> QED
  BY <1>1, StatefulSetVisible, PVCVisible, DeletePVCVisible, RemoveFinalizerVisible,
     AddFinalizerVisible, OtherReconcileInvisible
  DEF Reconcile, Lifecycle!Next

LEMMA OperatorRefines ==
  ASSUME SafetyInv, Operator, ~Reconcile
  PROVE  UNCHANGED Lifecycle!vars
<1>1. UNCHANGED <<cr, sts, owned, pvc>>
  BY DEF Operator, SyncCR, SyncSTS, SyncPVC, TimerFires, Resync, ApiFault, ReturnError,
         Crash, crVars, stsVars, pvcVars
<1> QED
  BY <1>1, Invisible, IdentityKept DEF Child

LEMMA RemovalVisible ==
  ASSUME SafetyInv, RemoveStatefulSet
  PROVE  Lifecycle!LoseChild \/ UNCHANGED Lifecycle!vars
<1>1. Child' = FALSE /\ UNCHANGED <<cr, pvc>>
  BY DEF RemoveStatefulSet, Child, crVars, pvcVars
<1>2. StageOf(cr)' = StageOf(cr)
  BY <1>1, StageKept, IdentityKept
<1>3. CASE Child
  BY <1>1, <1>2, <1>3 DEF Lifecycle!LoseChild, Child
<1>4. CASE ~Child
  <2>1. Child' = Child
    BY <1>1, <1>4 DEF Child
  <2> QED
    BY <1>1, <2>1, Invisible, IdentityKept
<1> QED
  BY <1>3, <1>4

LEMMA UserRefines ==
  ASSUME SafetyInv, User
  PROVE  Lifecycle!Next \/ UNCHANGED Lifecycle!vars
<1>1. ASSUME NEW s \in Specs, UserCreate(s) PROVE Lifecycle!Create
  <2>1. cr' = [NoServer EXCEPT !.exists = TRUE, !.spec = s]
    BY <1>1 DEF UserCreate, StoreCR
  <2>2. cr'.exists /\ ~cr'.deleting /\ ~cr'.fin
    BY <2>1 DEF NoServer
  <2>3. StageOf(cr) = "absent" /\ StageOf(cr)' = "new"
    BY <1>1, <2>2 DEF UserCreate, StageOf
  <2>4. UNCHANGED <<sts, owned, pvc>>
    BY <1>1 DEF UserCreate, stsVars, pvcVars
  <2> QED
    BY <2>3, <2>4 DEF Lifecycle!Create
<1>2. CASE UserDelete
  <2>1. sts' = sts /\ owned' = (owned /\ cr.fin) /\ pvc' = pvc
    BY <1>2 DEF UserDelete, pvcVars
  <2>2. Child' = Child
    BY <2>1 DEF Child, SafetyInv, DeletionsAreOurs, TypeOK
  <2>3. CASE cr.fin
    <3>1. cr'.exists /\ cr'.deleting
      BY <1>2, <2>3 DEF UserDelete, StoreCR, SafetyInv, TypeOK, ServerType
    <3>2. StageOf(cr) = "pinned" /\ StageOf(cr)' = "leaving"
      BY <1>2, <2>3, <3>1 DEF UserDelete, StageOf
    <3> QED
      BY <2>1, <2>2, <3>2 DEF Lifecycle!Delete, Lifecycle!Next, Child
  <2>4. CASE ~cr.fin
    <3>1. ~cr'.exists
      BY <1>2, <2>4 DEF UserDelete, StoreCR, NoServer
    <3>2. StageOf(cr) = "new" /\ StageOf(cr)' = "absent"
      BY <1>2, <2>4, <3>1 DEF UserDelete, StageOf
    <3> QED
      BY <2>1, <2>2, <3>2 DEF Lifecycle!Delete, Lifecycle!Next, Child
  <2> QED
    BY <2>3, <2>4
<1>3. ASSUME NEW s \in Specs, UserEdit(s) PROVE UNCHANGED Lifecycle!vars
  <2>1. SameIdentity
    BY <1>3 DEF UserEdit, StoreCR, SafetyInv, TypeOK, ServerType, SameIdentity
  <2> QED
    BY <1>3, <2>1, Invisible DEF UserEdit, Child, stsVars, pvcVars
<1>4. CASE UserRemovesSTS
  BY <1>4, RemovalVisible DEF UserRemovesSTS, Lifecycle!Next
<1>5. ASSUME NEW v \in 0 .. MaxSecret, SecretChange(v) PROVE UNCHANGED Lifecycle!vars
  BY <1>5, Invisible, IdentityKept DEF SecretChange, Child, crVars, stsVars, pvcVars
<1> QED
  BY <1>1, <1>2, <1>3, <1>4, <1>5 DEF User, Lifecycle!Next

LEMMA ClusterRefines ==
  ASSUME SafetyInv, Cluster
  PROVE  Lifecycle!Next \/ UNCHANGED Lifecycle!vars
<1>1. CASE GarbageCollect
  BY <1>1, RemovalVisible DEF GarbageCollect, Lifecycle!Next
<1>2. CASE RollPod \/ StartPod \/ Evict
  <2>1. sts'.exists = sts.exists
    BY <1>2 DEF RollPod, StartPod, Evict, StoreSTS, SafetyInv, TypeOK, StatefulSetType
  <2>2. UNCHANGED <<cr, owned, pvc>>
    BY <1>2 DEF RollPod, StartPod, Evict, crVars, pvcVars
  <2> QED
    BY <2>1, <2>2, Invisible, IdentityKept DEF Child
<1>3. CASE SnapshotDriver \/ ClockTick
  BY <1>3, Invisible, IdentityKept
  DEF SnapshotDriver, ClockTick, Child, crVars, stsVars, pvcVars
<1> QED
  BY <1>1, <1>2, <1>3 DEF Cluster

LEMMA GameRefines ==
  ASSUME SafetyInv, Game
  PROVE  UNCHANGED Lifecycle!vars
<1>1. SameIdentity
  BY GameStep DEF SafetyInv, Outer
<1>2. UNCHANGED <<sts, owned, pvc>>
  BY DEF Game, Join, Leave, Scrape, ScrapeFails, PatchServerStatus, PatchFails, stsVars, pvcVars
<1> QED
  BY <1>1, <1>2, Invisible DEF Child

\* The operator and its surroundings implement the lifecycle: pinned before anything
\* is made for it, leaving before it is gone, the child gone with it, and save
\* data never taken from under it (Reconcile, handleDeletion).
THEOREM LifecycleImplemented == Spec => ImplementsLifecycle
<1>1. Init => Lifecycle!Init
  <2> SUFFICES ASSUME Init PROVE Lifecycle!Init
    OBVIOUS
  <2>1. cr = NoServer /\ owned = FALSE /\ pvc = FALSE
    BY DEF Init
  <2>2. ~NoServer.exists
    BY DEF NoServer
  <2>3. StageOf(cr) = "absent"
    BY <2>1, <2>2 DEF StageOf
  <2> QED
    BY <2>1, <2>3 DEF Lifecycle!Init
<1>2. SafetyInv /\ [Next]_vars => [Lifecycle!Next]_(Lifecycle!vars)
  <2> SUFFICES ASSUME SafetyInv, [Next]_vars
               PROVE  Lifecycle!Next \/ UNCHANGED Lifecycle!vars
    OBVIOUS
  <2>1. CASE Next
    BY <2>1, ReconcileRefines, OperatorRefines, UserRefines, ClusterRefines, GameRefines DEF Next
  <2>2. CASE UNCHANGED vars
    BY <2>2, Invisible, IdentityKept DEF vars, Child
  <2> QED
    BY <2>1, <2>2
<1> QED
  BY <1>1, <1>2, SafetyInvariant, PTL DEF Spec, ImplementsLifecycle, Lifecycle!Spec

-----------------------------------------------------------------------------
(* PlayerReport: the players online, the sample and the reported count.     *)

LEMMA Counted ==
  ASSUME Reporting!Act
  PROVE  Reporting!Next
BY DEF Reporting!Next, Reporting!Ages

LEMMA CountKept ==
  ASSUME cr'.players = cr.players, cr'.exists = cr.exists, UNCHANGED playerVars,
         spent'["loss"] = spent["loss"]
  PROVE  UNCHANGED Reporting!vars
BY DEF Reporting!vars, playerVars

LEMMA CountReplaced ==
  ASSUME cr'.players = 0, cr'.exists # cr.exists, UNCHANGED playerVars,
         spent'["loss"] = spent["loss"]
  PROVE  Reporting!Next
<1>1. Reporting!Replace
  BY DEF Reporting!Replace, playerVars
<1> QED
  BY <1>1, Counted DEF Reporting!Act

\* Losses are counted apart from the other events.
LEMMA Losses ==
  ASSUME TypeOK, NEW k \in EventKind, Spend(k)
  PROVE  spent'["loss"] = IF k = "loss" THEN spent["loss"] + 1 ELSE spent["loss"]
<1>1. spent \in [EventKind -> Nat] /\ "loss" \in EventKind
  BY DEF TypeOK, EventKind
<1> QED
  BY <1>1 DEF Spend

LEMMA ReconcileReports ==
  ASSUME SafetyInv, Reconcile
  PROVE  Reporting!Next \/ UNCHANGED Reporting!vars
<1>1. UNCHANGED <<playerVars, spent>>
  BY DEF Reconcile, StartReconcile, DeletePVC, RemoveFinalizer, AddFinalizer, CheckPassword,
         ReconcilePVC, CheckDeferral, ReconcileStatefulSet, CreateSnapshot, SnapshotReady,
         SnapshotFails, ApplyAfterSnapshot, UpdateStatus
<1>2. CASE RemoveFinalizer /\ fresh.server
  <2>1. cr.exists
    BY <1>2 DEF RemoveFinalizer, SafetyInv, FreshCopiesAgree, ReconcileKnows
  <2>2. cr' = NoServer /\ ~cr'.exists
    BY <1>2, RemoveFinalizerStep DEF SafetyInv
  <2>3. cr'.players = 0
    BY <2>2 DEF NoServer
  <2> QED
    BY <1>1, <2>1, <2>2, <2>3, CountReplaced
<1>3. CASE ~(RemoveFinalizer /\ fresh.server)
  <2>1. cr'.exists = cr.exists
    BY <1>3, ReconcileStep, AddFinalizerStep
    DEF SafetyInv, Started, Inner, Returns, Outer, DeletePVC, SameIdentity, crVars
  <2>2. cr'.players = cr.players
    BY <1>3, ForeignFields
  <2> QED
    BY <1>1, <2>1, <2>2, CountKept
<1> QED
  BY <1>2, <1>3

LEMMA OperatorReports ==
  ASSUME SafetyInv, Operator, ~Reconcile
  PROVE  UNCHANGED Reporting!vars
<1>1. cr' = cr /\ UNCHANGED playerVars
  BY DEF Operator, SyncCR, SyncSTS, SyncPVC, TimerFires, Resync, ApiFault, ReturnError,
         Crash, crVars
<1>2. spent'["loss"] = spent["loss"]
  <2>1. CASE UNCHANGED spent
    BY <2>1
  <2>2. CASE Spend("fault") \/ Spend("crash")
    BY <2>2, Losses DEF SafetyInv, EventKind
  <2> QED
    BY <2>1, <2>2 DEF Operator, SyncCR, SyncSTS, SyncPVC, TimerFires, Resync, ApiFault, Crash
<1> QED
  BY <1>1, <1>2, CountKept

\* The pod and its sidecar go: nobody is online and nothing is left to report.
LEMMA StopReports ==
  ASSUME cr' = cr, StopPod, spent'["loss"] = spent["loss"]
  PROVE  Reporting!Next
<1>1. Reporting!Stop
  BY DEF StopPod, Reporting!Stop, Reporting!NoSample, NoSample
<1> QED
  BY <1>1, Counted DEF Reporting!Act

LEMMA UserReports ==
  ASSUME SafetyInv, User
  PROVE  Reporting!Next \/ UNCHANGED Reporting!vars
<1>1. spent'["loss"] = spent["loss"]
  <2>1. \E k \in EventKind \ {"loss"} : Spend(k)
    BY DEF User, UserCreate, UserEdit, UserDelete, UserRemovesSTS, SecretChange, EventKind
  <2> QED
    BY <2>1, Losses DEF SafetyInv
<1>2. ASSUME NEW s \in Specs, UserCreate(s) PROVE Reporting!Next
  <2>1. ~cr.exists /\ cr' = [NoServer EXCEPT !.exists = TRUE, !.spec = s] /\ UNCHANGED playerVars
    BY <1>2 DEF UserCreate, StoreCR
  <2>2. cr'.players = 0 /\ cr'.exists
    BY <2>1 DEF NoServer
  <2> QED
    BY <1>1, <2>1, <2>2, CountReplaced
<1>3. ASSUME NEW s \in Specs, UserEdit(s) PROVE UNCHANGED Reporting!vars
  <2>1. cr' = [cr EXCEPT !.spec = s] /\ UNCHANGED playerVars
    BY <1>3 DEF UserEdit, StoreCR
  <2>2. cr'.players = cr.players /\ cr'.exists = cr.exists
    BY <2>1 DEF SafetyInv, TypeOK, ServerType
  <2> QED
    BY <1>1, <2>1, <2>2, CountKept
<1>4. CASE UserDelete
  <2>1. cr.exists /\ UNCHANGED playerVars
    BY <1>4 DEF UserDelete
  <2>2. cr' = IF cr.fin THEN [cr EXCEPT !.deleting = TRUE] ELSE NoServer
    BY <1>4 DEF UserDelete, StoreCR
  <2>3. \/ cr'.players = cr.players /\ cr'.exists = cr.exists
        \/ cr'.players = 0 /\ ~cr'.exists
    BY <2>2 DEF SafetyInv, TypeOK, ServerType, NoServer
  <2> QED
    BY <1>1, <2>1, <2>3, CountKept, CountReplaced
<1>5. CASE UserRemovesSTS
  BY <1>1, <1>5, StopReports DEF UserRemovesSTS, RemoveStatefulSet, crVars
<1>6. ASSUME NEW v \in 0 .. MaxSecret, SecretChange(v) PROVE UNCHANGED Reporting!vars
  BY <1>1, <1>6, CountKept DEF SecretChange, crVars
<1> QED
  BY <1>2, <1>3, <1>4, <1>5, <1>6 DEF User

LEMMA ClusterReports ==
  ASSUME SafetyInv, Cluster
  PROVE  Reporting!Next \/ UNCHANGED Reporting!vars
<1>1. spent'["loss"] = spent["loss"]
  <2>1. CASE UNCHANGED spent
    BY <2>1
  <2>2. CASE Spend("evict") \/ Spend("clock")
    BY <2>2, Losses DEF SafetyInv, EventKind
  <2> QED
    BY <2>1, <2>2 DEF Cluster, GarbageCollect, RollPod, StartPod, Evict, SnapshotDriver, ClockTick
<1>2. CASE GarbageCollect \/ RollPod \/ Evict
  BY <1>1, <1>2, StopReports DEF GarbageCollect, RemoveStatefulSet, RollPod, Evict, crVars
<1>3. CASE StartPod \/ SnapshotDriver \/ ClockTick
  BY <1>1, <1>3, CountKept DEF StartPod, SnapshotDriver, ClockTick, crVars
<1> QED
  BY <1>2, <1>3 DEF Cluster

LEMMA PatchReports ==
  ASSUME SafetyInv, PatchServerStatus
  PROVE  Reporting!Patch \/ Reporting!Drop
<1>1. online' = online /\ sample # NoSample /\ sample' = NoSample /\ spent' = spent
  BY DEF PatchServerStatus
<1>2. cr' = IF cr.exists THEN [cr EXCEPT !.players = sample] ELSE cr
  BY DEF PatchServerStatus, StoreCR
<1>3. cr'.exists = cr.exists /\ cr'.players \in {sample, cr.players}
  BY <1>2 DEF SafetyInv, TypeOK, ServerType
<1> QED
  BY <1>1, <1>3 DEF Reporting!Patch, Reporting!Drop, Reporting!NoSample, NoSample

LEMMA GameReports ==
  ASSUME SafetyInv, Game
  PROVE  Reporting!Next
<1> SUFFICES Reporting!Act
  BY Counted
<1> USE DEF Reporting!Act
<1>1. CASE PatchServerStatus
  BY <1>1, PatchReports
<1>2. CASE Join \/ Leave
  <2>1. spent'["loss"] = spent["loss"] /\ UNCHANGED <<cr, sample>>
    BY <1>2, Losses DEF Join, Leave, SafetyInv, EventKind, crVars
  <2> QED
    BY <1>2, <2>1 DEF Join, Leave, Reporting!Join, Reporting!Leave
<1>3. CASE Scrape
  BY <1>3 DEF Scrape, Reporting!Scrape, Reporting!NoSample, NoSample, crVars
<1>4. CASE ScrapeFails \/ PatchFails
  <2>1. spent'["loss"] = spent["loss"] + 1 /\ UNCHANGED <<cr, online>>
    BY <1>4, Losses DEF ScrapeFails, PatchFails, SafetyInv, EventKind, crVars
  <2> QED
    BY <1>4, <2>1
    DEF ScrapeFails, PatchFails, Reporting!ScrapeFails, Reporting!Drop, Reporting!NoSample, NoSample
<1> QED
  BY <1>1, <1>2, <1>3, <1>4 DEF Game

\* The operator implements its side of PlayerReport: as long as the CR lives, no
\* whole-object update of it (AddFinalizer, setPhaseError, updateStatus) brings back an
\* earlier count, or none.
THEOREM PlayerReportKept == Spec => KeepsPlayerReport
<1>1. Init => Reporting!Init
  <2> SUFFICES ASSUME Init PROVE Reporting!Init
    OBVIOUS
  <2>1. NoServer.players = 0
    BY DEF NoServer
  <2>2. spent["loss"] = 0
    BY DEF Init, EventKind
  <2> QED
    BY <2>1, <2>2 DEF Init, Reporting!Init, Reporting!NoSample, NoSample
<1>2. SafetyInv /\ [Next]_vars => [Reporting!Next]_(Reporting!vars)
  <2> SUFFICES ASSUME SafetyInv, [Next]_vars
               PROVE  Reporting!Next \/ UNCHANGED Reporting!vars
    OBVIOUS
  <2>1. CASE Next
    BY <2>1, ReconcileReports, OperatorReports, UserReports, ClusterReports, GameReports DEF Next
  <2>2. CASE UNCHANGED vars
    BY <2>2, CountKept DEF vars, playerVars
  <2> QED
    BY <2>1, <2>2
<1> QED
  BY <1>1, <1>2, SafetyInvariant, PTL DEF Spec, KeepsPlayerReport, Reporting!Spec
=============================================================================
