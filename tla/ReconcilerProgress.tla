-------------------------- MODULE ReconcilerProgress --------------------------
(* No wakeup is lost: an operator with nothing left to do has converged.    *)
(* Every step either queues the server's key, or is one of another actor    *)
(* that leaves a view that is still current as it was, or is a step of the  *)
(* reconcile, which reads and writes through views that are.                *)
EXTENDS ReconcilerSafety

\* The three parts of ViewIsCurrent.
HashIsCurrent ==
  rec.pc \in PastFinalizer \ {"password"} /\ ~queued /\ fresh.seen /\ fresh.server
    => rec.hash = Hash

TemplateIsCurrent ==
  rec.pc = "status" /\ ~queued /\ fresh.sts /\ ~rec.deferred
    => sts.exists /\ sts.tmpl = Desired

Awaiting == {"snapshot", "await", "apply"}

TargetExists == rec.pc \in Awaiting /\ fresh.existing => sts.exists

\* What has to be kept: the safety invariant is there already.
View == HashIsCurrent /\ TemplateIsCurrent /\ RestImpliesConverged

LEMMA IInvParts == IInv <=> SafetyInv /\ View /\ TargetExists
BY DEF IInv, ViewIsCurrent, View, HashIsCurrent, TemplateIsCurrent, TargetExists, Awaiting

-----------------------------------------------------------------------------
(* The classes of steps.                                                    *)

\* A step of another actor while no event is queued.
Quiet ==
  /\ ~queued' => ~queued
  /\ ~queued' /\ ~timer' => ~timer
  /\ ~queued' /\ fresh'.seen => fresh.seen /\ cr' = cr /\ Hash' = Hash
  /\ fresh'.server => fresh.server
  /\ ~queued' /\ fresh'.sts => fresh.sts /\ sts' = sts
  /\ rec' = rec

\* A step of the reconcile with the hash it has computed.
Works ==
  /\ rec.pc \in PastFinalizer \ {"password"} /\ rec'.pc \in PastFinalizer \ {"password"}
  /\ rec'.server = rec.server /\ rec'.hash = rec.hash
  /\ fresh'.seen = fresh.seen /\ fresh'.server = fresh.server
  /\ UNCHANGED <<cr, secret, queued>>

LEMMA QueuedKeeps ==
  ASSUME queued'
  PROVE  View'
BY DEF View, HashIsCurrent, TemplateIsCurrent, RestImpliesConverged

LEMMA QuietKeeps ==
  ASSUME View, Quiet
  PROVE  View'
<1>1. HashIsCurrent'
  BY DEF View, HashIsCurrent, Quiet
<1>2. TemplateIsCurrent'
  BY DEF View, TemplateIsCurrent, Quiet, Desired
<1>3. RestImpliesConverged'
  <2> SUFFICES ASSUME rec.pc' = "idle", ~queued', ~timer', fresh'.seen, fresh'.sts,
                      cr'.exists, ~cr'.deleting
               PROVE  (/\ sts.exists /\ sts.tmpl = [image |-> cr.spec.image, hash |-> Hash]
                       /\ ~cr.deferred /\ cr.phase = PhaseOf(sts))'
    BY DEF RestImpliesConverged
  <2>1. /\ rec.pc = "idle" /\ ~queued /\ ~timer /\ fresh.seen /\ fresh.sts
        /\ cr' = cr /\ Hash' = Hash /\ sts' = sts
    BY DEF Quiet
  <2>2. /\ sts.exists /\ sts.tmpl = [image |-> cr.spec.image, hash |-> Hash]
        /\ ~cr.deferred /\ cr.phase = PhaseOf(sts)
    BY <2>1 DEF View, RestImpliesConverged
  <2> QED
    BY <2>1, <2>2 DEF PhaseOf
<1> QED
  BY <1>1, <1>2, <1>3 DEF View

LEMMA WorksKeeps ==
  ASSUME View, Works, TemplateIsCurrent'
  PROVE  View'
<1>1. HashIsCurrent'
  BY DEF View, HashIsCurrent, Works, Hash
<1>2. RestImpliesConverged'
  BY DEF RestImpliesConverged, Works, PastFinalizer
<1> QED
  BY <1>1, <1>2 DEF View

-----------------------------------------------------------------------------
(* The reconcile.                                                           *)

LEMMA GotoHash ==
  ASSUME TypeOK, NEW step, Goto(step)
  PROVE  rec'.hash = rec.hash /\ rec'.deferred = rec.deferred
BY DEF TypeOK, RecType, Goto

LEMMA ErrorQueues ==
  ASSUME ReturnError
  PROVE  queued'
BY DEF ReturnError, Requeue

LEMMA StartView ==
  ASSUME SafetyInv, View, StartReconcile
  PROVE  View'
<1>1. CASE seen.exists /\ (seen.deleting => seen.fin)
  <2>1. rec' = [Idle EXCEPT !.pc = EntryPoint(seen), !.server = seen]
    BY <1>1 DEF StartReconcile
  <2>2. rec'.pc = EntryPoint(seen)
    BY <2>1 DEF Idle
  <2>3. rec'.pc \in {"deletePVC", "password", "addFinalizer"}
    BY <2>2 DEF EntryPoint
  <2> QED
    BY <2>3 DEF View, HashIsCurrent, TemplateIsCurrent, RestImpliesConverged, PastFinalizer
<1>2. CASE ~(seen.exists /\ (seen.deleting => seen.fin))
  <2>1. rec.pc = "idle" /\ UNCHANGED <<rec, fresh, cr>>
    BY <1>2 DEF StartReconcile, crVars
  <2>2. fresh.seen => ~(cr.exists /\ ~cr.deleting)
    BY <1>2 DEF SafetyInv, FreshCopiesAgree
  <2> QED
    BY <2>1, <2>2 DEF View, HashIsCurrent, TemplateIsCurrent, RestImpliesConverged, PastFinalizer
<1> QED
  BY <1>1, <1>2

\* Steps that stay before the hash is computed, or remove the CR.
LEMMA EarlyView ==
  ASSUME SafetyInv, View, DeletePVC \/ RemoveFinalizer \/ AddFinalizer
  PROVE  View'
<1>1. CASE DeletePVC
  <2>1. rec'.pc = "removeFinalizer"
    BY <1>1, GotoFields DEF DeletePVC, SafetyInv
  <2> QED
    BY <2>1 DEF View, HashIsCurrent, TemplateIsCurrent, RestImpliesConverged, PastFinalizer
<1>2. CASE RemoveFinalizer /\ fresh.server
  <2>1. rec' = Idle /\ cr' = NoServer
    BY <1>2 DEF RemoveFinalizer
  <2>2. rec'.pc = "idle" /\ ~cr'.exists
    BY <2>1 DEF Idle, NoServer
  <2> QED
    BY <2>2 DEF View, HashIsCurrent, TemplateIsCurrent, RestImpliesConverged, PastFinalizer
<1>3. CASE AddFinalizer /\ fresh.server
  <2>1. rec'.pc = "password"
    BY <1>3 DEF AddFinalizer, SafetyInv, TypeOK, RecType
  <2> QED
    BY <2>1 DEF View, HashIsCurrent, TemplateIsCurrent, RestImpliesConverged
<1> QED
  BY <1>1, <1>2, <1>3, ErrorQueues, QueuedKeeps DEF RemoveFinalizer, AddFinalizer

LEMMA PasswordView ==
  ASSUME SafetyInv, View, CheckPassword
  PROVE  View'
<1>1. CASE rec.server.spec.pw /\ secret = 0
  BY <1>1, QueuedKeeps DEF CheckPassword, SetPhaseError, Requeue
<1>2. CASE ~(rec.server.spec.pw /\ secret = 0)
  <2>1. /\ rec' = [rec EXCEPT !.pc = "pvc", !.hash = IF rec.server.spec.pw THEN secret ELSE 0]
        /\ UNCHANGED <<cr, fresh, secret>> /\ rec.pc = "password"
    BY <1>2 DEF CheckPassword, crVars
  <2>2. rec'.pc = "pvc" /\ rec'.hash = IF rec.server.spec.pw THEN secret ELSE 0
    BY <2>1 DEF SafetyInv, TypeOK, RecType
  <2>3. fresh.server => rec.server = cr
    BY <2>1 DEF SafetyInv, FreshCopiesAgree
  <2>4. HashIsCurrent'
    BY <2>1, <2>2, <2>3 DEF HashIsCurrent, Hash
  <2> QED
    BY <2>2, <2>4 DEF View, TemplateIsCurrent, RestImpliesConverged
<1> QED
  BY <1>1, <1>2

\* Steps that neither touch the StatefulSet nor end before the status step.
LEMMA PlainView ==
  ASSUME SafetyInv, View,
         ReconcilePVC \/ CheckDeferral \/ CreateSnapshot \/ SnapshotReady \/ SnapshotFails
  PROVE  View'
<1> USE DEF SafetyInv
<1>1. CASE CheckDeferral
  <2>1. /\ rec' = [rec EXCEPT !.deferred = HoldBack, !.pc = IF HoldBack THEN "status" ELSE "statefulset"]
        /\ UNCHANGED <<cr, fresh, secret, queued>> /\ rec.pc = "deferral"
    BY <1>1 DEF CheckDeferral, crVars
  <2>2. /\ rec'.pc = IF HoldBack THEN "status" ELSE "statefulset"
        /\ rec'.server = rec.server /\ rec'.hash = rec.hash /\ rec'.deferred = HoldBack
    BY <2>1 DEF TypeOK, RecType
  <2>3. Works
    BY <2>1, <2>2 DEF Works, PastFinalizer
  <2>4. TemplateIsCurrent'
    BY <2>2 DEF TemplateIsCurrent
  <2> QED
    BY <2>3, <2>4, WorksKeeps
<1>2. CASE ReturnError
  BY <1>2, ErrorQueues, QueuedKeeps
<1>3. ASSUME NEW step \in {"deferral", "await", "apply"}, Goto(step),
             rec.pc \in PastFinalizer \ {"password"}, UNCHANGED <<cr, fresh, secret, queued>>
      PROVE  View'
  <2>1. Works
    BY <1>3, GotoFields, GotoHash DEF Works, PastFinalizer
  <2>2. TemplateIsCurrent'
    BY <1>3, GotoFields DEF TemplateIsCurrent
  <2> QED
    BY <2>1, <2>2, WorksKeeps
<1> QED
  BY <1>1, <1>2, <1>3
  DEF ReconcilePVC, CreateSnapshot, SnapshotReady, SnapshotFails, crVars, PastFinalizer

\* Writing the template leads to the status step with the template in place.
LEMMA TemplateView ==
  ASSUME SafetyInv, View, NEW current, UpdateTemplate(current), current => sts.exists,
         rec.pc \in PastFinalizer \ {"password"}, UNCHANGED secret
  PROVE  View'
<1> USE DEF SafetyInv
<1>1. CASE current
  <2>1. /\ sts' = [sts EXCEPT !.tmpl = Desired] /\ Goto("status")
        /\ UNCHANGED <<cr, queued, secret>>
    BY <1>1 DEF UpdateTemplate, StoreSTS, crVars
  <2>2. /\ fresh'.seen = fresh.seen /\ fresh'.server = fresh.server
    BY <1>1, StoreSTSFields DEF UpdateTemplate
  <2>3. sts'.exists /\ sts'.tmpl = Desired
    BY <1>1, <2>1 DEF TypeOK, StatefulSetType
  <2>4. Works
    BY <2>1, <2>2, GotoFields, GotoHash DEF Works, PastFinalizer
  <2>5. Desired' = Desired
    BY <2>4 DEF Works, Desired
  <2>6. TemplateIsCurrent'
    BY <2>3, <2>5 DEF TemplateIsCurrent
  <2> QED
    BY <2>4, <2>6, WorksKeeps
<1> QED
  BY <1>1, ErrorQueues, QueuedKeeps DEF UpdateTemplate

LEMMA StatefulSetView ==
  ASSUME SafetyInv, View, ReconcileStatefulSet
  PROVE  View'
<1> USE DEF SafetyInv
<1>1. rec.pc \in PastFinalizer \ {"password"} /\ UNCHANGED secret
  BY DEF ReconcileStatefulSet, PastFinalizer
<1>2. CASE ~stsSeen.exists /\ ~sts.exists
  <2>1. CreateStatefulSet
    BY <1>2 DEF ReconcileStatefulSet
  <2>2. /\ sts' = [exists |-> TRUE, tmpl |-> Desired, rev |-> Desired, ready |-> FALSE]
        /\ Goto("status") /\ UNCHANGED <<cr, queued>>
    BY <2>1 DEF CreateStatefulSet, StoreSTS, crVars
  <2>3. fresh'.seen = fresh.seen /\ fresh'.server = fresh.server
    BY <2>1, StoreSTSFields DEF CreateStatefulSet
  <2>4. Works
    <3>1. rec'.pc = "status" /\ rec'.server = rec.server /\ rec'.hash = rec.hash
      BY <2>2, GotoFields, GotoHash
    <3>2. rec'.pc \in PastFinalizer \ {"password"}
      BY <3>1 DEF PastFinalizer
    <3> QED
      BY <1>1, <2>2, <2>3, <3>1, <3>2 DEF Works
  <2>5. Desired' = Desired
    BY <2>4 DEF Works, Desired
  <2>6. TemplateIsCurrent'
    BY <2>2, <2>5 DEF TemplateIsCurrent
  <2> QED
    BY <2>4, <2>6, WorksKeeps
<1>3. CASE ~stsSeen.exists /\ sts.exists
  BY <1>3, ErrorQueues, QueuedKeeps DEF ReconcileStatefulSet
<1>4. CASE stsSeen.exists /\ NeedsSnapshot
  <2>1. /\ Goto("snapshot") /\ fresh' = [fresh EXCEPT !.existing = fresh.sts]
        /\ UNCHANGED <<cr, queued>>
    BY <1>4 DEF ReconcileStatefulSet, crVars
  <2>2. fresh'.seen = fresh.seen /\ fresh'.server = fresh.server
    BY <2>1 DEF TypeOK, FreshType
  <2>3. Works
    BY <1>1, <2>1, <2>2, GotoFields, GotoHash DEF Works, PastFinalizer
  <2>4. TemplateIsCurrent'
    BY <2>1, GotoFields DEF TemplateIsCurrent
  <2> QED
    BY <2>3, <2>4, WorksKeeps
<1>5. CASE stsSeen.exists /\ ~NeedsSnapshot
  <2>1. UpdateTemplate(fresh.sts)
    BY <1>5 DEF ReconcileStatefulSet
  <2>2. fresh.sts => sts.exists
    BY <1>5 DEF FreshCopiesAgree
  <2> QED
    BY <1>1, <2>1, <2>2, TemplateView
<1> QED
  BY <1>2, <1>3, <1>4, <1>5

LEMMA ApplyView ==
  ASSUME SafetyInv, View, TargetExists, ApplyAfterSnapshot
  PROVE  View'
<1>1. UpdateTemplate(fresh.existing) /\ rec.pc = "apply" /\ UNCHANGED secret
  BY DEF ApplyAfterSnapshot
<1>2. fresh.existing => sts.exists
  BY <1>1 DEF TargetExists, Awaiting
<1> QED
  BY <1>1, <1>2, TemplateView DEF PastFinalizer

\* The status is written from current views, or an event is on its way.
LEMMA StatusView ==
  ASSUME SafetyInv, View, UpdateStatus
  PROVE  View'
<1> USE DEF SafetyInv
<1>1. CASE fresh.server
  <2>1. /\ rec.pc = "status" /\ rec' = Idle
        /\ cr' = WithStatus(PhaseOf(stsSeen), rec.deferred)
        /\ timer' = (timer \/ rec.deferred) /\ UNCHANGED <<sts, queued, secret>>
    BY <1>1 DEF UpdateStatus, stsVars
  <2>2. (fresh'.seen => fresh.seen /\ cr' = cr) /\ fresh'.sts = fresh.sts
    BY <1>1, StatusFresh DEF UpdateStatus
  <2>3. cr'.phase = PhaseOf(stsSeen) /\ cr'.deferred = rec.deferred
    BY <2>1 DEF WithStatus, TypeOK, ServerType
  <2>4. rec.server = cr
    BY <1>1, <2>1 DEF FreshCopiesAgree
  <2>5. rec'.pc = "idle"
    BY <2>1 DEF Idle
  <2>6. RestImpliesConverged'
    <3> SUFFICES ASSUME ~queued', ~timer', fresh'.seen, fresh'.sts
                 PROVE  (/\ sts.exists /\ sts.tmpl = [image |-> cr.spec.image, hash |-> Hash]
                         /\ ~cr.deferred /\ cr.phase = PhaseOf(sts))'
      BY DEF RestImpliesConverged
    <3>1. /\ ~queued /\ ~rec.deferred /\ fresh.seen /\ fresh.sts
          /\ cr' = cr /\ stsSeen = sts /\ Hash' = Hash
      BY <2>1, <2>2 DEF FreshCopiesAgree, Hash
    <3>2. rec.hash = Hash
      BY <1>1, <2>1, <3>1 DEF View, HashIsCurrent, PastFinalizer
    <3>3. sts.exists /\ sts.tmpl = [image |-> cr.spec.image, hash |-> Hash]
      BY <2>1, <2>4, <3>1, <3>2 DEF View, TemplateIsCurrent, Desired
    <3> QED
      BY <2>1, <2>3, <3>1, <3>3 DEF PhaseOf
  <2> QED
    BY <2>5, <2>6 DEF View, HashIsCurrent, TemplateIsCurrent, PastFinalizer
<1> QED
  BY <1>1, ErrorQueues, QueuedKeeps DEF UpdateStatus

LEMMA ReconcileView ==
  ASSUME SafetyInv, View, TargetExists, Reconcile
  PROVE  View'
BY StartView, EarlyView, PasswordView, PlainView, StatefulSetView, ApplyView, StatusView
DEF Reconcile

-----------------------------------------------------------------------------
(* The other actors.                                                        *)

LEMMA HashKept ==
  ASSUME cr' = cr, secret' = secret
  PROVE  Hash' = Hash
BY DEF Hash

LEMMA OperatorView ==
  ASSUME SafetyInv, View, Operator, ~Reconcile
  PROVE  View'
<1>1. CASE SyncCR \/ SyncSTS \/ TimerFires \/ Resync \/ ApiFault
  <2>1. queued'
    BY <1>1, ErrorQueues DEF SyncCR, SyncSTS, TimerFires, Resync, ApiFault
  <2> QED
    BY <2>1, QueuedKeeps
<1>2. CASE SyncPVC
  <2>1. UNCHANGED <<cr, sts, secret, fresh, rec, queued, timer>>
    BY <1>2 DEF SyncPVC, crVars, stsVars
  <2> QED
    BY <2>1, HashKept, QuietKeeps DEF Quiet
<1>3. CASE Crash
  <2>1. rec'.pc = "idle" /\ cr' = cr /\ queued' = cr.exists
    BY <1>3 DEF Crash, Idle
  <2> QED
    BY <2>1 DEF View, HashIsCurrent, TemplateIsCurrent, RestImpliesConverged, PastFinalizer
<1> QED
  BY <1>1, <1>2, <1>3 DEF Operator

\* A write of the CR by someone else makes the cached copy stale.
LEMMA ForeignWriteView ==
  ASSUME SafetyInv, View, NEW new, StoreCR(new),
         UNCHANGED <<sts, secret, rec, queued, timer>>
  PROVE  View'
<1>1. /\ fresh'.seen => fresh.seen /\ cr' = cr
      /\ fresh'.server => fresh.server
      /\ fresh'.sts = fresh.sts
  BY StoreCRFields DEF SafetyInv
<1> QED
  BY <1>1, HashKept, QuietKeeps DEF Quiet

\* So does one of the StatefulSet.
LEMMA ForeignSTSView ==
  ASSUME SafetyInv, View, NEW new, StoreSTS(new),
         UNCHANGED <<cr, secret, rec, queued, timer>>
  PROVE  View'
<1>1. /\ fresh'.seen = fresh.seen /\ fresh'.server = fresh.server
      /\ fresh'.sts => fresh.sts /\ sts' = sts
  BY StoreSTSFields DEF SafetyInv
<1> QED
  BY <1>1, HashKept, QuietKeeps DEF Quiet

LEMMA SecretView ==
  ASSUME SafetyInv, View, NEW v \in 0 .. MaxSecret, SecretChange(v)
  PROVE  View'
<1>1. /\ queued' = (queued \/ (seen.exists /\ seen.spec.pw))
      /\ UNCHANGED <<cr, sts, fresh, rec, timer>>
  BY DEF SecretChange, crVars, stsVars
<1>2. CASE queued'
  BY <1>2, QueuedKeeps
<1>3. CASE ~queued' /\ (cr.exists => ~cr.spec.pw)
  <2>1. CASE cr.exists
    <3>1. Hash' = Hash
      BY <1>1, <1>3, <2>1 DEF Hash
    <3> QED
      BY <1>1, <3>1, QuietKeeps DEF Quiet
  <2>2. CASE ~cr.exists
    <3>1. rec.pc \notin PastFinalizer
      BY <2>2 DEF SafetyInv, FinalizerHolds, FinalizerPinsServer
    <3> QED
      BY <1>1, <2>2, <3>1 DEF View, HashIsCurrent, TemplateIsCurrent, RestImpliesConverged,
                              PastFinalizer
  <2> QED
    BY <2>1, <2>2
<1>4. CASE ~queued' /\ cr.exists /\ cr.spec.pw
  <2>1. ~fresh.seen /\ ~queued
    BY <1>1, <1>4 DEF SafetyInv, FreshCopiesAgree
  <2> QED
    BY <1>1, <2>1, QuietKeeps DEF Quiet
<1> QED
  BY <1>2, <1>3, <1>4

LEMMA UserView ==
  ASSUME SafetyInv, View, User
  PROVE  View'
<1>1. ASSUME NEW s \in Specs, UserCreate(s) \/ UserEdit(s) PROVE View'
  BY <1>1, ForeignWriteView DEF UserCreate, UserEdit, stsVars
<1>2. CASE UserDelete
  BY <1>2, ForeignWriteView DEF UserDelete
<1>3. CASE UserRemovesSTS
  BY <1>3, ForeignSTSView DEF UserRemovesSTS, RemoveStatefulSet, crVars
<1> QED
  BY <1>1, <1>2, <1>3, SecretView DEF User

LEMMA QuietRest ==
  ASSUME View, UNCHANGED <<cr, sts, secret, fresh, rec, queued, timer>>
  PROVE  View'
BY HashKept, QuietKeeps DEF Quiet

LEMMA ClusterView ==
  ASSUME SafetyInv, View, Cluster \/ Game
  PROVE  View'
<1>1. CASE GarbageCollect \/ RollPod \/ StartPod \/ Evict
  BY <1>1, ForeignSTSView DEF GarbageCollect, RemoveStatefulSet, RollPod, StartPod, Evict, crVars
<1>2. CASE PatchServerStatus
  BY <1>2, ForeignWriteView DEF PatchServerStatus, stsVars
<1>3. CASE SnapshotDriver \/ ClockTick \/ Join \/ Leave \/ Scrape \/ ScrapeFails \/ PatchFails
  BY <1>3, QuietRest DEF SnapshotDriver, ClockTick, Join, Leave, Scrape, ScrapeFails, PatchFails,
     crVars, stsVars
<1> QED
  BY <1>1, <1>2, <1>3 DEF Cluster, Game

LEMMA ViewStep ==
  ASSUME SafetyInv, View, TargetExists, Next
  PROVE  View'
BY ReconcileView, OperatorView, UserView, ClusterView DEF Next

-----------------------------------------------------------------------------
(* What the reconcile is about to update after a snapshot.                  *)

LEMMA TargetAway ==
  ASSUME rec'.pc \notin Awaiting
  PROVE  TargetExists'
BY DEF TargetExists

LEMMA TargetKept ==
  ASSUME TargetExists, rec.pc \in Awaiting \/ rec' = rec, UNCHANGED <<sts, fresh>>
  PROVE  TargetExists'
BY DEF TargetExists

\* A StatefulSet that changes is not the one that was read.
LEMMA TargetStored ==
  ASSUME TypeOK, TargetExists, NEW new, StoreSTS(new), rec' = rec
  PROVE  TargetExists'
<1>1. fresh'.existing => fresh.existing /\ sts' = sts
  BY DEF TypeOK, FreshType, StoreSTS
<1> QED
  BY <1>1 DEF TargetExists

LEMMA TargetOfWrite ==
  ASSUME TypeOK, TargetExists, NEW new, StoreCR(new), UNCHANGED <<sts, rec>>
  PROVE  TargetExists'
<1>1. fresh'.existing = fresh.existing
  BY DEF TypeOK, FreshType, StoreCR
<1> QED
  BY <1>1 DEF TargetExists

LEMMA TargetOfReturn ==
  ASSUME rec' = Idle
  PROVE  TargetExists'
BY TargetAway DEF Idle, Awaiting

LEMMA ErrorTarget ==
  ASSUME ReturnError
  PROVE  TargetExists'
BY TargetOfReturn DEF ReturnError, Requeue

LEMMA EarlyTarget ==
  ASSUME SafetyInv, TargetExists,
         StartReconcile \/ DeletePVC \/ RemoveFinalizer \/ AddFinalizer \/ CheckPassword
         \/ ReconcilePVC \/ CheckDeferral \/ UpdateStatus
  PROVE  TargetExists'
<1> USE DEF SafetyInv
<1>1. CASE StartReconcile /\ seen.exists /\ (seen.deleting => seen.fin)
  <2>1. rec' = [Idle EXCEPT !.pc = EntryPoint(seen), !.server = seen]
    BY <1>1 DEF StartReconcile
  <2>2. rec'.pc = EntryPoint(seen)
    BY <2>1 DEF Idle
  <2> QED
    BY <2>2, TargetAway DEF EntryPoint, Awaiting
<1>2. CASE StartReconcile /\ ~(seen.exists /\ (seen.deleting => seen.fin))
  BY <1>2, TargetKept DEF StartReconcile, stsVars
<1>3. CASE DeletePVC \/ ReconcilePVC
  <2>1. CASE ReturnError
    BY <2>1, ErrorTarget
  <2>2. CASE Goto("removeFinalizer") \/ Goto("deferral")
    BY <2>2, GotoFields, TargetAway DEF Awaiting
  <2> QED
    BY <1>3, <2>1, <2>2 DEF DeletePVC, ReconcilePVC
<1>4. CASE RemoveFinalizer
  BY <1>4, ErrorTarget, TargetOfReturn DEF RemoveFinalizer
<1>5. CASE UpdateStatus
  BY <1>5, ErrorTarget, TargetOfReturn DEF UpdateStatus
<1>6. CASE AddFinalizer
  <2>1. CASE fresh.server
    <3>1. rec' = [rec EXCEPT !.pc = "password", !.server.fin = TRUE]
      BY <1>6, <2>1 DEF AddFinalizer
    <3>2. rec'.pc = "password"
      BY <3>1 DEF TypeOK, RecType
    <3> QED
      BY <3>2, TargetAway DEF Awaiting
  <2> QED
    BY <1>6, <2>1, ErrorTarget DEF AddFinalizer
<1>7. CASE CheckPassword
  <2>1. CASE rec.server.spec.pw /\ secret = 0
    BY <1>7, <2>1, TargetOfReturn DEF CheckPassword, SetPhaseError, Requeue
  <2>2. CASE ~(rec.server.spec.pw /\ secret = 0)
    <3>1. rec' = [rec EXCEPT !.pc = "pvc", !.hash = IF rec.server.spec.pw THEN secret ELSE 0]
      BY <1>7, <2>2 DEF CheckPassword
    <3>2. rec'.pc = "pvc"
      BY <3>1 DEF TypeOK, RecType
    <3> QED
      BY <3>2, TargetAway DEF Awaiting
  <2> QED
    BY <2>1, <2>2
<1>8. CASE CheckDeferral
  <2>1. rec' = [rec EXCEPT !.deferred = HoldBack, !.pc = IF HoldBack THEN "status" ELSE "statefulset"]
    BY <1>8 DEF CheckDeferral
  <2>2. rec'.pc = IF HoldBack THEN "status" ELSE "statefulset"
    BY <2>1 DEF TypeOK, RecType
  <2> QED
    BY <2>2, TargetAway DEF Awaiting
<1> QED
  BY <1>1, <1>2, <1>3, <1>4, <1>5, <1>6, <1>7, <1>8

LEMMA TemplateTarget ==
  ASSUME TypeOK, NEW current, UpdateTemplate(current)
  PROVE  TargetExists'
BY GotoFields, TargetAway, ErrorTarget DEF UpdateTemplate, Awaiting

LEMMA LateTarget ==
  ASSUME SafetyInv, TargetExists,
         ReconcileStatefulSet \/ CreateSnapshot \/ SnapshotReady \/ SnapshotFails
         \/ ApplyAfterSnapshot
  PROVE  TargetExists'
<1> USE DEF SafetyInv
<1>1. CASE ApplyAfterSnapshot
  BY <1>1, TemplateTarget DEF ApplyAfterSnapshot
<1>2. CASE CreateSnapshot \/ SnapshotReady \/ SnapshotFails
  <2>1. CASE ReturnError
    BY <2>1, ErrorTarget
  <2>2. CASE ~ReturnError
    BY <1>2, <2>2, TargetKept DEF CreateSnapshot, SnapshotReady, SnapshotFails, stsVars, Awaiting
  <2> QED
    BY <2>1, <2>2
<1>3. CASE ReconcileStatefulSet /\ stsSeen.exists /\ NeedsSnapshot
  <2>1. fresh' = [fresh EXCEPT !.existing = fresh.sts] /\ sts' = sts
    BY <1>3 DEF ReconcileStatefulSet, stsVars
  <2>2. fresh'.existing = fresh.sts
    BY <2>1 DEF TypeOK, FreshType
  <2>3. fresh.sts => sts.exists
    BY <1>3 DEF FreshCopiesAgree
  <2> QED
    BY <2>1, <2>2, <2>3 DEF TargetExists
<1>4. CASE ReconcileStatefulSet /\ ~(stsSeen.exists /\ NeedsSnapshot)
  <2>1. CreateStatefulSet \/ ReturnError \/ UpdateTemplate(fresh.sts)
    BY <1>4 DEF ReconcileStatefulSet
  <2>2. CASE CreateStatefulSet
    <3>1. Goto("status")
      BY <2>2 DEF CreateStatefulSet
    <3>2. rec'.pc \notin Awaiting
      BY <3>1, GotoFields DEF Awaiting
    <3> QED
      BY <3>2, TargetAway
  <2> QED
    BY <2>1, <2>2, ErrorTarget, TemplateTarget
<1> QED
  BY <1>1, <1>2, <1>3, <1>4

LEMMA OperatorTarget ==
  ASSUME SafetyInv, TargetExists, Operator
  PROVE  TargetExists'
<1>1. CASE Reconcile
  BY <1>1, EarlyTarget, LateTarget DEF Reconcile
<1>2. CASE SyncCR \/ SyncSTS
  <2>1. fresh'.existing = fresh.existing
    BY <1>2 DEF SyncCR, SyncSTS, SafetyInv, TypeOK, FreshType
  <2>2. UNCHANGED <<sts, rec>>
    BY <1>2 DEF SyncCR, SyncSTS, stsVars
  <2> QED
    BY <2>1, <2>2 DEF TargetExists
<1>3. CASE SyncPVC \/ TimerFires \/ Resync
  BY <1>3, TargetKept DEF SyncPVC, TimerFires, Resync, stsVars
<1>4. CASE ApiFault
  BY <1>4, ErrorTarget DEF ApiFault
<1>5. CASE Crash
  BY <1>5, TargetOfReturn DEF Crash
<1> QED
  BY <1>1, <1>2, <1>3, <1>4, <1>5 DEF Operator

LEMMA UserTarget ==
  ASSUME SafetyInv, TargetExists, User
  PROVE  TargetExists'
<1> USE DEF SafetyInv
<1>1. ASSUME NEW s \in Specs, UserCreate(s) \/ UserEdit(s) PROVE TargetExists'
  BY <1>1, TargetOfWrite DEF UserCreate, UserEdit, stsVars
<1>2. CASE UserDelete
  BY <1>2, TargetOfWrite DEF UserDelete
<1>3. CASE UserRemovesSTS
  BY <1>3, TargetStored DEF UserRemovesSTS, RemoveStatefulSet
<1>4. ASSUME NEW v \in 0 .. MaxSecret, SecretChange(v) PROVE TargetExists'
  BY <1>4, TargetKept DEF SecretChange, stsVars
<1> QED
  BY <1>1, <1>2, <1>3, <1>4 DEF User

LEMMA ClusterTarget ==
  ASSUME SafetyInv, TargetExists, Cluster \/ Game
  PROVE  TargetExists'
<1> USE DEF SafetyInv
<1>1. CASE GarbageCollect \/ RollPod \/ StartPod \/ Evict
  BY <1>1, TargetStored DEF GarbageCollect, RemoveStatefulSet, RollPod, StartPod, Evict
<1>2. CASE PatchServerStatus
  BY <1>2, TargetOfWrite DEF PatchServerStatus, stsVars
<1>3. CASE SnapshotDriver \/ ClockTick \/ Join \/ Leave \/ Scrape \/ ScrapeFails \/ PatchFails
  BY <1>3, TargetKept DEF SnapshotDriver, ClockTick, Join, Leave, Scrape, ScrapeFails, PatchFails,
     stsVars
<1> QED
  BY <1>1, <1>2, <1>3 DEF Cluster, Game

-----------------------------------------------------------------------------

LEMMA ViewInit ==
  ASSUME Init
  PROVE  View /\ TargetExists
<1>1. rec.pc = "idle" /\ ~cr.exists
  BY DEF Init, Idle, NoServer
<1> QED
  BY <1>1 DEF View, HashIsCurrent, TemplateIsCurrent, RestImpliesConverged, TargetExists,
              Awaiting, PastFinalizer

LEMMA ViewStutter ==
  ASSUME View, TargetExists, UNCHANGED vars
  PROVE  View' /\ TargetExists'
<1>1. UNCHANGED <<cr, sts, secret, fresh, rec, queued, timer>>
  BY DEF vars, crVars, stsVars
<1> QED
  BY <1>1, QuietRest, TargetKept

\* No wakeup is lost, whatever the events and faults: when the operator has
\* nothing left to do (no key queued, no timer, its caches up to date), the
\* StatefulSet carries the template that spec and password Secret ask for, and
\* the CR's status says so.
THEOREM RestIsConverged == Spec => []RestImpliesConverged
<1>1. Init /\ SafetyInv => IInv
  BY ViewInit, IInvParts
<1>2. IInv /\ SafetyInv' /\ Next => IInv'
  <2> SUFFICES ASSUME SafetyInv, View, TargetExists, SafetyInv', Next
               PROVE  (SafetyInv /\ View /\ TargetExists)'
    BY IInvParts DEF IInv, ViewIsCurrent, View, HashIsCurrent, TemplateIsCurrent, TargetExists,
                     Awaiting
  <2> QED
    BY ViewStep, OperatorTarget, UserTarget, ClusterTarget DEF Next
<1>3. IInv /\ SafetyInv' /\ UNCHANGED vars => IInv'
  <2> SUFFICES ASSUME SafetyInv, View, TargetExists, SafetyInv', UNCHANGED vars
               PROVE  (SafetyInv /\ View /\ TargetExists)'
    BY IInvParts DEF IInv, ViewIsCurrent, View, HashIsCurrent, TemplateIsCurrent, TargetExists,
                     Awaiting
  <2> QED
    BY ViewStutter
<1>4. IInv => RestImpliesConverged
  BY IInvParts DEF View
<1> QED
  BY <1>1, <1>2, <1>3, <1>4, SafetyInvariant, PTL DEF Spec
=============================================================================
