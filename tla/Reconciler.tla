------------------------------ MODULE Reconciler ------------------------------
(***************************************************************************)
(* The reconcile loop of the operator for one EnshroudedServer, with the   *)
(* actors it races with: the user, the informer caches, the metrics        *)
(* sidecar, the StatefulSet controller, the garbage collector, the CSI     *)
(* snapshot driver and the clock.                                          *)
(*                                                                         *)
(* Reads go to the informer cache, writes to the API server.  A write of a *)
(* whole object succeeds only if the copy it is based on still carries the *)
(* live resourceVersion.  resourceVersions are only ever compared with the *)
(* live one, so a copy needs one bit: "fresh" says which copies carry it.  *)
(***************************************************************************)
EXTENDS Integers

CONSTANTS Image,       \* the container images a spec may name
          Specs,       \* the specs the user may apply
          MaxSecret,   \* values of the password key; 0 is a missing Secret or key
          MaxPlayers,  \* bound on connected players
          Budget       \* how often each kind of outside event may happen

Strategy == {"NoSnapshot", "SnapshotBeforeUpdate", "StrictSnapshotBeforeUpdate"}

SpecType == [image : Image, defer : BOOLEAN, retain : BOOLEAN,
             strategy : Strategy, pw : BOOLEAN]

EventKind == {"create", "edit", "delete", "removeSTS", "secret", "clock",
              "join", "loss", "evict", "fault", "crash", "resync"}

ASSUME SpecsAssumption == Specs # {} /\ Specs \subseteq SpecType
ASSUME MaxAssumption == MaxSecret \in Nat /\ MaxPlayers \in Nat
ASSUME BudgetAssumption == Budget \in [EventKind -> Nat]

VARIABLES cr,        \* the EnshroudedServer stored by the API server
          sts,       \* the stored StatefulSet, with the state of its one pod
          owned,     \* the StatefulSet's owner reference names the live CR's UID
          pvc,       \* the savegame PVC exists and is not terminating
          secret,    \* value of the referenced password key, 0 if missing, as cached
          seen,      \* the CR in the informer cache
          stsSeen,   \* the StatefulSet in the informer cache
          pvcSeen,   \* the PVC is in the informer cache
          fresh,     \* which copies carry the live resourceVersion
          rec,       \* the running reconcile: program counter and locals
          snap,      \* the pre-update VolumeSnapshot this reconcile waits for
          queued,    \* the work queue holds the server's key
          timer,     \* a RequeueAfter of one minute is pending
          window,    \* the clock is inside a maintenance window
          online,    \* players connected to the game server
          sample,    \* answer of an A2S query the sidecar has yet to report
          spent      \* outside events so far, per kind

crVars     == <<cr, seen>>
stsVars    == <<sts, owned, stsSeen>>
pvcVars    == <<pvc, pvcSeen>>
playerVars == <<online, sample>>
vars == <<cr, sts, owned, pvc, secret, seen, stsSeen, pvcSeen, fresh, rec,
          snap, queued, timer, window, online, sample, spent>>

Phase == {"", "Pending", "Running", "Updating", "Error"}

ServerType == [exists : BOOLEAN, deleting : BOOLEAN, fin : BOOLEAN, spec : Specs,
               players : 0 .. MaxPlayers, phase : Phase, deferred : BOOLEAN]

Template == [image : Image, hash : 0 .. MaxSecret]

StatefulSetType == [exists : BOOLEAN, tmpl : Template, rev : Template, ready : BOOLEAN]

Step == {"idle", "deletePVC", "removeFinalizer", "addFinalizer", "password", "pvc",
         "deferral", "statefulset", "snapshot", "await", "apply", "status"}

RecType == [pc : Step, server : ServerType, hash : 0 .. MaxSecret, deferred : BOOLEAN]

FreshType == [seen : BOOLEAN, server : BOOLEAN, sts : BOOLEAN, existing : BOOLEAN]

SnapState == {"none", "pending", "ready", "failed"}

AnySpec     == CHOOSE s \in Specs : TRUE
AnyTemplate == [image |-> AnySpec.image, hash |-> 0]
NoSample    == -1

NoServer == [exists |-> FALSE, deleting |-> FALSE, fin |-> FALSE, spec |-> AnySpec,
             players |-> 0, phase |-> "", deferred |-> FALSE]

NoStatefulSet == [exists |-> FALSE, tmpl |-> AnyTemplate, rev |-> AnyTemplate,
                  ready |-> FALSE]

Idle == [pc |-> "idle", server |-> NoServer, hash |-> 0, deferred |-> FALSE]

Init ==
  /\ cr = NoServer /\ seen = NoServer
  /\ sts = NoStatefulSet /\ stsSeen = NoStatefulSet /\ owned = FALSE
  /\ pvc = FALSE /\ pvcSeen = FALSE
  /\ secret \in 0 .. MaxSecret
  /\ fresh = [seen |-> TRUE, server |-> FALSE, sts |-> TRUE, existing |-> FALSE]
  /\ rec = Idle /\ snap = "none"
  /\ queued = FALSE /\ timer = FALSE
  /\ window \in BOOLEAN
  /\ online = 0 /\ sample = NoSample
  /\ spent = [k \in EventKind |-> 0]

-----------------------------------------------------------------------------
(* Helpers: the effect of a write on the copies other actors hold.          *)

Spend(kind) ==
  /\ spent[kind] < Budget[kind]
  /\ spent' = [spent EXCEPT ![kind] = @ + 1]

\* The API server stores new; a write that changes nothing keeps the version.
StoreCR(new) ==
  /\ cr' = new
  /\ fresh' = IF new = cr THEN fresh
              ELSE [fresh EXCEPT !.seen = FALSE, !.server = FALSE]

StoreSTS(new) ==
  /\ sts' = new
  /\ fresh' = IF new = sts THEN fresh
              ELSE [fresh EXCEPT !.sts = FALSE, !.existing = FALSE]

\* Mutant: the error is swallowed, the queue forgets the key.
RequeueForgets == rec' = Idle /\ snap' = "none" /\ UNCHANGED queued

\* The reconcile returns an error: the key is queued again (with backoff).
Requeue == rec' = Idle /\ snap' = "none" /\ queued' = TRUE

\* fresh once the reconcile has returned, from the value f it had before.
Forget(f) == [f EXCEPT !.server = FALSE, !.existing = FALSE]

Goto(step) == rec' = [rec EXCEPT !.pc = step]

\* The outcome of a write refused for a stale version, a failed call, ...
ReturnError ==
  /\ Requeue
  /\ fresh' = Forget(fresh)
  /\ UNCHANGED <<crVars, stsVars, pvcVars>>

-----------------------------------------------------------------------------
(* The reconcile, one action per call that reads or writes shared state.    *)

\* Mutant: children are created without waiting for the finalizer.
EntryPointUnpinned(s) == IF s.deleting THEN "deletePVC" ELSE "password"

\* Mutant: retainOnDelete=false alone starts the clean-up.
EntryPointEager(s) == IF s.deleting \/ (s.fin /\ ~s.spec.retain) THEN "deletePVC"
                      ELSE IF s.fin THEN "password" ELSE "addFinalizer"

EntryPoint(s) == IF s.deleting THEN "deletePVC"
                 ELSE IF s.fin THEN "password" ELSE "addFinalizer"

\* Reconcile reads the CR from the cache and dispatches on its metadata.
StartReconcile ==
  /\ rec.pc = "idle" /\ queued
  /\ queued' = FALSE
  /\ IF seen.exists /\ (seen.deleting => seen.fin)
     THEN /\ rec' = [Idle EXCEPT !.pc = EntryPoint(seen), !.server = seen]
          /\ fresh' = [fresh EXCEPT !.server = fresh.seen]
     ELSE UNCHANGED <<rec, fresh>>
  /\ UNCHANGED <<crVars, stsVars, pvcVars, secret, snap, timer, window, playerVars, spent>>

\* Mutant: a PVC that is already gone is an error.
DeletePVCOrFail ==
  /\ rec.pc = "deletePVC"
  /\ IF rec.server.spec.retain \/ pvcSeen
     THEN /\ pvc' = (pvc /\ rec.server.spec.retain)
          /\ Goto("removeFinalizer")
          /\ UNCHANGED <<crVars, stsVars, pvcSeen, fresh, snap, queued>>
     ELSE ReturnError
  /\ UNCHANGED <<secret, timer, window, playerVars, spent>>

\* handleDeletion: Get (cached) and Delete of the PVC; NotFound is ignored.
DeletePVC ==
  /\ rec.pc = "deletePVC"
  /\ pvc' = (pvc /\ (rec.server.spec.retain \/ ~pvcSeen))
  /\ Goto("removeFinalizer")
  /\ UNCHANGED <<crVars, stsVars, pvcSeen, secret, fresh, snap, queued, timer, window,
                 playerVars, spent>>

\* handleDeletion: the last finalizer goes, and with it the CR.
RemoveFinalizer ==
  /\ rec.pc = "removeFinalizer"
  /\ IF fresh.server
     THEN /\ cr' = NoServer /\ owned' = FALSE
          /\ rec' = Idle
          /\ fresh' = [Forget(fresh) EXCEPT !.seen = FALSE]
          /\ UNCHANGED <<seen, sts, stsSeen, pvcVars, snap, queued>>
     ELSE ReturnError
  /\ UNCHANGED <<secret, timer, window, playerVars, spent>>

\* Update of metadata and spec; its response refreshes the local copy.
AddFinalizer ==
  /\ rec.pc = "addFinalizer"
  /\ IF fresh.server
     THEN /\ cr' = [cr EXCEPT !.spec = rec.server.spec, !.fin = TRUE]
          /\ fresh' = [fresh EXCEPT !.seen = FALSE]
          /\ rec' = [rec EXCEPT !.pc = "password", !.server.fin = TRUE]
          /\ UNCHANGED <<seen, stsVars, pvcVars, snap, queued>>
     ELSE ReturnError
  /\ UNCHANGED <<secret, timer, window, playerVars, spent>>

\* What Status().Update stores: the whole status of the local copy.
WithStatus(phase, deferred) ==
  [cr EXCEPT !.players = rec.server.players, !.phase = phase, !.deferred = deferred]

\* setPhaseError: a refused status write is ignored, the error is returned.
SetPhaseError ==
  /\ Requeue
  /\ cr' = IF fresh.server THEN WithStatus("Error", rec.server.deferred) ELSE cr
  /\ fresh' = [Forget(fresh) EXCEPT !.seen = @ /\ cr' = cr]
  /\ UNCHANGED <<seen, stsVars, pvcVars>>

\* The password Secret is validated and hashed for the restart annotation.
CheckPassword ==
  /\ rec.pc = "password"
  /\ IF rec.server.spec.pw /\ secret = 0
     THEN SetPhaseError
     ELSE /\ rec' = [rec EXCEPT !.pc = "pvc",
                                !.hash = IF rec.server.spec.pw THEN secret ELSE 0]
          /\ UNCHANGED <<crVars, stsVars, pvcVars, fresh, snap, queued>>
  /\ UNCHANGED <<secret, timer, window, playerVars, spent>>

\* Mutant: the volume is taken to exist when the StatefulSet does.
ReconcilePVCOnce ==
  /\ rec.pc = "pvc"
  /\ IF ~pvcSeen /\ ~stsSeen.exists /\ pvc
     THEN ReturnError
     ELSE /\ pvc' = (pvc \/ (~pvcSeen /\ ~stsSeen.exists))
          /\ Goto("deferral")
          /\ UNCHANGED <<crVars, stsVars, pvcSeen, fresh, snap, queued>>
  /\ UNCHANGED <<secret, timer, window, playerVars, spent>>

\* Created when the cache has none; AlreadyExists is an error.
ReconcilePVC ==
  /\ rec.pc = "pvc"
  /\ IF ~pvcSeen /\ pvc
     THEN ReturnError
     ELSE /\ pvc' = (pvc \/ ~pvcSeen)
          /\ Goto("deferral")
          /\ UNCHANGED <<crVars, stsVars, pvcSeen, fresh, snap, queued>>
  /\ UNCHANGED <<secret, timer, window, playerVars, spent>>

HoldBack == rec.server.spec.defer /\ rec.server.players > 0 /\ ~window

CheckDeferral ==
  /\ rec.pc = "deferral"
  /\ rec' = [rec EXCEPT !.deferred = HoldBack,
                        !.pc = IF HoldBack THEN "status" ELSE "statefulset"]
  /\ UNCHANGED <<crVars, stsVars, pvcVars, secret, fresh, snap, queued, timer, window,
                 playerVars, spent>>

\* buildStatefulSet: the part of the pod template that can change.
Desired == [image |-> rec.server.spec.image, hash |-> rec.hash]

CreateStatefulSet ==
  /\ StoreSTS([exists |-> TRUE, tmpl |-> Desired, rev |-> Desired, ready |-> FALSE])
  /\ owned' = TRUE
  /\ Goto("status")
  /\ UNCHANGED <<crVars, stsSeen, pvcVars, snap, queued>>

\* Update of the template; current is whether the copy it starts from is live.
UpdateTemplate(current) ==
  IF current
  THEN /\ StoreSTS([sts EXCEPT !.tmpl = Desired])
       /\ Goto("status")
       /\ UNCHANGED <<crVars, owned, stsSeen, pvcVars, snap, queued>>
  ELSE ReturnError

\* The upgrade strategy asks for a snapshot when the image is about to change.
NeedsSnapshot == /\ rec.server.spec.strategy # "NoSnapshot"
                 /\ stsSeen.tmpl.image # rec.server.spec.image

ReconcileStatefulSet ==
  /\ rec.pc = "statefulset"
  /\ CASE ~stsSeen.exists /\ ~sts.exists -> CreateStatefulSet
       [] ~stsSeen.exists /\ sts.exists  -> ReturnError
       [] stsSeen.exists /\ NeedsSnapshot ->
            /\ Goto("snapshot")
            /\ fresh' = [fresh EXCEPT !.existing = fresh.sts]
            /\ UNCHANGED <<crVars, stsVars, pvcVars, snap, queued>>
       [] stsSeen.exists /\ ~NeedsSnapshot -> UpdateTemplate(fresh.sts)
  /\ UNCHANGED <<secret, timer, window, playerVars, spent>>

Strict == rec.server.spec.strategy = "StrictSnapshotBeforeUpdate"

CreateSnapshot ==
  /\ rec.pc = "snapshot"
  /\ snap' = "pending"
  /\ Goto("await")
  /\ UNCHANGED <<crVars, stsVars, pvcVars, secret, fresh, queued, timer, window,
                 playerVars, spent>>

\* The poll finds ReadyToUse.
SnapshotReady ==
  /\ rec.pc = "await" /\ snap = "ready"
  /\ Goto("apply")
  /\ UNCHANGED <<crVars, stsVars, pvcVars, secret, fresh, snap, queued, timer, window,
                 playerVars, spent>>

\* Mutant: strict mode proceeds like the lenient one.
SnapshotFailsLeniently ==
  /\ rec.pc \in {"snapshot", "await"}
  /\ Goto("apply")
  /\ UNCHANGED <<crVars, stsVars, pvcVars, fresh, snap, queued, secret, timer, window,
                 playerVars, spent>>

\* Create or Get fails, the driver reports an error, or three minutes pass; the
\* deadline may pass between a poll and the snapshot becoming ready.
SnapshotFails ==
  /\ rec.pc \in {"snapshot", "await"}
  /\ IF Strict THEN ReturnError
     ELSE /\ Goto("apply")
          /\ UNCHANGED <<crVars, stsVars, pvcVars, fresh, snap, queued>>
  /\ UNCHANGED <<secret, timer, window, playerVars, spent>>

\* Update with the copy of the StatefulSet read before the wait.
ApplyAfterSnapshot ==
  /\ rec.pc = "apply"
  /\ UpdateTemplate(fresh.existing)
  /\ UNCHANGED <<secret, timer, window, playerVars, spent>>

PhaseOf(s) == CASE s.exists /\ s.ready -> "Running"
                [] s.exists /\ ~s.ready /\ s.rev # s.tmpl -> "Updating"
                [] OTHER -> "Pending"

\* Mutant: no RequeueAfter for a deferred update.
UpdateStatusOnce ==
  /\ rec.pc = "status"
  /\ IF fresh.server
     THEN /\ cr' = WithStatus(PhaseOf(stsSeen), rec.deferred)
          /\ fresh' = [Forget(fresh) EXCEPT !.seen = @ /\ cr' = cr]
          /\ rec' = Idle /\ snap' = "none"
          /\ UNCHANGED <<seen, stsVars, pvcVars, queued>>
     ELSE ReturnError
  /\ UNCHANGED <<secret, timer, window, playerVars, spent>>

\* Mutant: the status is written without comparing resourceVersions.
UpdateStatusBlindly ==
  /\ rec.pc = "status"
  /\ cr' = WithStatus(PhaseOf(stsSeen), rec.deferred)
  /\ fresh' = [Forget(fresh) EXCEPT !.seen = @ /\ cr' = cr]
  /\ rec' = Idle /\ snap' = "none"
  /\ timer' = (timer \/ rec.deferred)
  /\ UNCHANGED <<seen, stsVars, pvcVars, queued, secret, window, playerVars, spent>>

\* updateStatus; a deferred update asks for another look in a minute.
UpdateStatus ==
  /\ rec.pc = "status"
  /\ IF fresh.server
     THEN /\ cr' = WithStatus(PhaseOf(stsSeen), rec.deferred)
          /\ fresh' = [Forget(fresh) EXCEPT !.seen = @ /\ cr' = cr]
          /\ rec' = Idle /\ snap' = "none"
          /\ timer' = (timer \/ rec.deferred)
          /\ UNCHANGED <<seen, stsVars, pvcVars, queued>>
     ELSE ReturnError /\ UNCHANGED timer
  /\ UNCHANGED <<secret, window, playerVars, spent>>

Reconcile ==
  \/ StartReconcile \/ DeletePVC \/ RemoveFinalizer \/ AddFinalizer \/ CheckPassword
  \/ ReconcilePVC \/ CheckDeferral \/ ReconcileStatefulSet \/ CreateSnapshot
  \/ SnapshotReady \/ SnapshotFails \/ ApplyAfterSnapshot \/ UpdateStatus

-----------------------------------------------------------------------------
(* The operator's surroundings: caches, work queue, restarts.               *)

\* A watch event refreshes the cache, then queues the owner's key.
SyncCR ==
  /\ ~fresh.seen
  /\ seen' = cr /\ fresh' = [fresh EXCEPT !.seen = TRUE] /\ queued' = TRUE
  /\ UNCHANGED <<cr, stsVars, pvcVars, secret, rec, snap, timer, window, playerVars, spent>>

SyncSTS ==
  /\ ~fresh.sts
  /\ stsSeen' = sts /\ fresh' = [fresh EXCEPT !.sts = TRUE] /\ queued' = TRUE
  /\ UNCHANGED <<crVars, sts, owned, pvcVars, secret, rec, snap, timer, window,
                 playerVars, spent>>

\* The controller neither owns nor watches PVCs: nothing is queued.
SyncPVC ==
  /\ pvcSeen # pvc
  /\ pvcSeen' = pvc
  /\ UNCHANGED <<crVars, stsVars, pvc, secret, fresh, rec, snap, queued, timer, window,
                 playerVars, spent>>

TimerFires ==
  /\ timer
  /\ timer' = FALSE /\ queued' = TRUE
  /\ UNCHANGED <<crVars, stsVars, pvcVars, secret, fresh, rec, snap, window, playerVars, spent>>

\* The informer's periodic resync replays the cached CR to the queue, again and again;
\* a budget of zero leaves it out.
Resync ==
  /\ Budget["resync"] > 0 /\ seen.exists
  /\ queued' = TRUE
  /\ UNCHANGED <<crVars, stsVars, pvcVars, secret, fresh, rec, snap, timer, window, playerVars,
                 spent>>

\* Any API call of a reconcile may fail; some are reported after taking effect.
ApiFault ==
  /\ Spend("fault") /\ rec.pc # "idle"
  /\ ReturnError
  /\ UNCHANGED <<secret, timer, window, playerVars>>

\* The operator process dies; its successor lists everything afresh.
Crash ==
  /\ Spend("crash")
  /\ rec' = Idle /\ snap' = "none" /\ timer' = FALSE
  /\ seen' = cr /\ stsSeen' = sts /\ pvcSeen' = pvc
  /\ fresh' = [seen |-> TRUE, server |-> FALSE, sts |-> TRUE, existing |-> FALSE]
  /\ queued' = cr.exists
  /\ UNCHANGED <<cr, sts, owned, pvc, secret, window, playerVars>>

Operator == Reconcile \/ SyncCR \/ SyncSTS \/ SyncPVC \/ TimerFires \/ Resync
            \/ ApiFault \/ Crash

-----------------------------------------------------------------------------
(* The user and the cluster.                                                *)

UserCreate(s) ==
  /\ Spend("create") /\ ~cr.exists
  /\ StoreCR([NoServer EXCEPT !.exists = TRUE, !.spec = s])
  /\ UNCHANGED <<seen, stsVars, pvcVars, secret, rec, snap, queued, timer, window, playerVars>>

UserEdit(s) ==
  /\ Spend("edit") /\ cr.exists /\ s # cr.spec
  /\ StoreCR([cr EXCEPT !.spec = s])
  /\ UNCHANGED <<seen, stsVars, pvcVars, secret, rec, snap, queued, timer, window, playerVars>>

\* Deletion waits for the finalizer; without one the CR is gone at once.
UserDelete ==
  /\ Spend("delete") /\ cr.exists /\ ~cr.deleting
  /\ StoreCR(IF cr.fin THEN [cr EXCEPT !.deleting = TRUE] ELSE NoServer)
  /\ owned' = (owned /\ cr.fin)
  /\ UNCHANGED <<seen, sts, stsSeen, pvcVars, secret, rec, snap, queued, timer, window,
                 playerVars>>

\* Mutant: only the password of a server that runs is watched.
SecretChangeWhileRunning(v) ==
  /\ Spend("secret") /\ v # secret
  /\ secret' = v
  /\ queued' = (queued \/ (seen.exists /\ seen.spec.pw /\ seen.phase = "Running"))
  /\ UNCHANGED <<crVars, stsVars, pvcVars, fresh, rec, snap, timer, window, playerVars>>

\* A change of the Secret is mapped to servers whose cached spec refers to it.
SecretChange(v) ==
  /\ Spend("secret") /\ v # secret
  /\ secret' = v
  /\ queued' = (queued \/ (seen.exists /\ seen.spec.pw))
  /\ UNCHANGED <<crVars, stsVars, pvcVars, fresh, rec, snap, timer, window, playerVars>>

\* The pod stops: players are cut off, the sidecar goes with it.
StopPod == online' = 0 /\ sample' = NoSample

RemoveStatefulSet ==
  /\ sts.exists
  /\ StoreSTS(NoStatefulSet) /\ owned' = FALSE
  /\ StopPod
  /\ UNCHANGED <<crVars, stsSeen, pvcVars, secret, rec, snap, queued, timer, window>>

UserRemovesSTS == Spend("removeSTS") /\ RemoveStatefulSet

GarbageCollect == ~owned /\ RemoveStatefulSet /\ UNCHANGED spent

\* The StatefulSet controller replaces a pod of an old revision ...
RollPod ==
  /\ sts.exists /\ sts.ready /\ sts.rev # sts.tmpl
  /\ StoreSTS([sts EXCEPT !.ready = FALSE])
  /\ StopPod
  /\ UNCHANGED <<crVars, owned, stsSeen, pvcVars, secret, rec, snap, queued, timer, window, spent>>

\* ... and starts one of the current template as soon as its volume exists: what keeps
\* a pod waiting here does not depend on its revision (ChildObjects has pods that wait
\* at an old one).
StartPod ==
  /\ sts.exists /\ ~sts.ready /\ pvc
  /\ StoreSTS([sts EXCEPT !.ready = TRUE, !.rev = sts.tmpl])
  /\ UNCHANGED <<crVars, owned, stsSeen, pvcVars, secret, rec, snap, queued, timer, window,
                 playerVars, spent>>

\* The pod dies for a reason of its own.
Evict ==
  /\ Spend("evict") /\ sts.exists /\ sts.ready
  /\ StoreSTS([sts EXCEPT !.ready = FALSE])
  /\ StopPod
  /\ UNCHANGED <<crVars, owned, stsSeen, pvcVars, secret, rec, snap, queued, timer, window>>

SnapshotDriver ==
  /\ rec.pc = "await" /\ snap = "pending"
  /\ snap' \in {"ready", "failed"}
  /\ UNCHANGED <<crVars, stsVars, pvcVars, secret, fresh, rec, queued, timer, window,
                 playerVars, spent>>

ClockTick ==
  /\ Spend("clock")
  /\ window' = ~window
  /\ UNCHANGED <<crVars, stsVars, pvcVars, secret, fresh, rec, snap, queued, timer, playerVars>>

Join ==
  /\ Spend("join") /\ sts.ready /\ online < MaxPlayers
  /\ online' = online + 1
  /\ UNCHANGED <<crVars, stsVars, pvcVars, secret, fresh, rec, snap, queued, timer, window, sample>>

Leave ==
  /\ online > 0
  /\ online' = online - 1
  /\ UNCHANGED <<crVars, stsVars, pvcVars, secret, fresh, rec, snap, queued, timer, window,
                 sample, spent>>

\* The sidecar queries the game server over A2S, whether or not that is up yet; a
\* server that is not up has nobody online and is reported so ...
Scrape ==
  /\ sts.exists /\ (sts.ready \/ pvc) /\ sample = NoSample
  /\ sample' = online
  /\ UNCHANGED <<crVars, stsVars, pvcVars, secret, fresh, rec, snap, queued, timer, window,
                 online, spent>>

\* ... and counts zero players when a server that is up does not answer in time,
\* even if its answer is under way.
ScrapeFails ==
  /\ Spend("loss") /\ sts.ready
  /\ sample' = 0
  /\ UNCHANGED <<crVars, stsVars, pvcVars, secret, fresh, rec, snap, queued, timer, window, online>>

\* Mutant: the patch is sent although no answer has been counted.
PatchWithoutSample ==
  /\ sample' = NoSample
  /\ StoreCR(IF cr.exists THEN [cr EXCEPT !.players = sample] ELSE cr)
  /\ UNCHANGED <<seen, stsVars, pvcVars, secret, rec, snap, queued, timer, window, online, spent>>

\* patchServerStatus: a merge patch of this field alone, skipped if unchanged.
PatchServerStatus ==
  /\ sample # NoSample
  /\ sample' = NoSample
  /\ StoreCR(IF cr.exists THEN [cr EXCEPT !.players = sample] ELSE cr)
  /\ UNCHANGED <<seen, stsVars, pvcVars, secret, rec, snap, queued, timer, window, online, spent>>

\* The patch is refused or lost: logged, and left to the next scrape.
PatchFails ==
  /\ Spend("loss") /\ sample # NoSample
  /\ sample' = NoSample
  /\ UNCHANGED <<crVars, stsVars, pvcVars, secret, fresh, rec, snap, queued, timer, window, online>>

User == \/ \E s \in Specs : UserCreate(s) \/ UserEdit(s)
        \/ UserDelete \/ UserRemovesSTS
        \/ \E v \in 0 .. MaxSecret : SecretChange(v)

Cluster == GarbageCollect \/ RollPod \/ StartPod \/ Evict \/ SnapshotDriver \/ ClockTick

Game == Join \/ Leave \/ Scrape \/ ScrapeFails \/ PatchServerStatus \/ PatchFails

Next == Operator \/ User \/ Cluster \/ Game

\* The manager's worker, the informers, the work queue, the cluster's
\* controllers and the sidecar's ticker keep running; users, players, the clock
\* and faults owe nothing.
Fairness ==
  /\ WF_vars(Reconcile)
  /\ WF_vars(SyncCR) /\ WF_vars(SyncSTS) /\ WF_vars(SyncPVC) /\ WF_vars(TimerFires)
  /\ WF_vars(GarbageCollect) /\ WF_vars(RollPod) /\ WF_vars(StartPod)
  /\ WF_vars(Scrape) /\ WF_vars(PatchServerStatus)

Spec == Init /\ [][Next]_vars

FairSpec == Spec /\ Fairness

-----------------------------------------------------------------------------
(* Properties.                                                              *)

TypeOK ==
  /\ cr \in ServerType /\ seen \in ServerType
  /\ sts \in StatefulSetType /\ stsSeen \in StatefulSetType /\ owned \in BOOLEAN
  /\ pvc \in BOOLEAN /\ pvcSeen \in BOOLEAN
  /\ secret \in 0 .. MaxSecret
  /\ fresh \in FreshType /\ rec \in RecType /\ snap \in SnapState
  /\ queued \in BOOLEAN /\ timer \in BOOLEAN /\ window \in BOOLEAN
  /\ online \in 0 .. MaxPlayers /\ sample \in {NoSample} \cup 0 .. MaxPlayers
  /\ spent \in [EventKind -> Nat]

\* A reconcile never overwrites what it did not read: its finalizer and status
\* updates leave the user's spec and the sidecar's player count as they are.
OperatorKeepsForeignFields ==
  [][Reconcile /\ cr'.exists => cr'.spec = cr.spec /\ cr'.players = cr.players]_vars

PastFinalizer == {"password", "pvc", "deferral", "statefulset", "snapshot", "await",
                  "apply", "status"}

\* From the finalizer on, a reconcile works for a CR that still exists and holds
\* the finalizer, however stale the cached copy it started from: no child
\* is created for a server that is gone.
FinalizerPinsServer == rec.pc \in PastFinalizer => cr.exists /\ cr.fin

\* The savegame PVC is never deleted under a live server whose StatefulSet this
\* incarnation of the CR created, whatever deletions of earlier incarnations or
\* stale caches the operator has gone through.
LiveServerKeepsSaveData ==
  [][cr.exists /\ ~cr.deleting /\ sts.exists /\ owned /\ pvc => pvc']_vars

\* StrictSnapshotBeforeUpdate: the image of a StatefulSet changes only after the
\* snapshot taken for that change was ReadyToUse.
StrictSnapshotFirst ==
  [][sts.exists /\ sts'.exists /\ sts'.tmpl.image # sts.tmpl.image /\ Strict
       => snap = "ready"]_vars

Hash == IF cr.spec.pw THEN secret ELSE 0

\* No wakeup is lost: when the operator rests with nothing queued, no timer and
\* current caches, a live server has the StatefulSet its spec and Secret
\* ask for, no update is marked deferred, and the phase is that of the StatefulSet.
RestImpliesConverged ==
  /\ rec.pc = "idle" /\ ~queued /\ ~timer /\ fresh.seen /\ fresh.sts
  /\ cr.exists /\ ~cr.deleting
  => /\ sts.exists /\ sts.tmpl = [image |-> cr.spec.image, hash |-> Hash]
     /\ ~cr.deferred /\ cr.phase = PhaseOf(sts)

\* A CR marked for deletion goes away.
DeletionCompletes == cr.exists /\ cr.deleting ~> ~cr.exists

Settled == /\ cr.exists /\ ~cr.deleting
           /\ cr.spec.pw => secret # 0
           /\ cr.spec.defer => online = 0 \/ window

\* Once a live server with its Secret stays empty, stays in a maintenance window
\* or does not defer, it ends up running what its spec asks for.
UpdateIsApplied ==
  <>[]Settled => <>[](sts.ready /\ sts.rev = [image |-> cr.spec.image, hash |-> Hash])

\* A server created anew over what its predecessor left ends up running on a PVC.
\* A cached copy of the predecessor's PVC is taken for its own and nothing watches
\* PVCs, so this takes the informer's resync.
ServerReturns == WF_vars(Resync) => UpdateIsApplied

-----------------------------------------------------------------------------
(* The inductive invariant behind the safety properties.                    *)

\* A copy that carries the live resourceVersion is equal to the live object.
FreshCopiesAgree ==
  /\ fresh.seen => seen = cr
  /\ fresh.sts => stsSeen = sts
  /\ rec.pc # "idle" /\ fresh.server => rec.server = cr

BeforeWrite == {"deletePVC", "removeFinalizer", "addFinalizer"}

\* What the program counter says about the copy the reconcile works on.
ReconcileKnows ==
  /\ rec.pc # "idle" => rec.server.exists
  /\ rec.pc \in {"deletePVC", "removeFinalizer"} => rec.server.deleting /\ rec.server.fin
  /\ rec.pc \in PastFinalizer \cup {"addFinalizer"} => ~rec.server.deleting
  /\ rec.pc \in BeforeWrite /\ fresh.server => seen = rec.server
  /\ rec.pc = "apply" /\ Strict => snap = "ready"

\* A finalizer seen on a CR that is not being deleted is still there: only this
\* operator removes it, and only after seeing the deletion.
FinalizerHolds ==
  /\ seen.exists /\ seen.fin /\ ~seen.deleting => cr.exists /\ cr.fin
  /\ FinalizerPinsServer

\* The cache has left behind the deletion of every earlier incarnation once the
\* StatefulSet belongs to the live one.
DeletionsAreOurs ==
  /\ rec.pc \in PastFinalizer /\ seen.deleting => cr.deleting
  /\ owned => cr.exists /\ cr.fin
  /\ owned /\ ~cr.deleting => ~seen.deleting /\ rec.pc \notin {"deletePVC", "removeFinalizer"}

\* Inductive, and enough for the properties of writes and deletions.
SafetyInv == TypeOK /\ FreshCopiesAgree /\ ReconcileKnows /\ FinalizerHolds /\ DeletionsAreOurs

\* With no new event queued, the reconcile's view of the Secret and of the
\* StatefulSet is current wherever its caches are; what it updates after a
\* snapshot is there if the copy it read is still live.
ViewIsCurrent ==
  /\ rec.pc \in PastFinalizer \ {"password"} /\ ~queued /\ fresh.seen /\ fresh.server
     => rec.hash = Hash
  /\ rec.pc = "status" /\ ~queued /\ fresh.sts /\ ~rec.deferred
     => sts.exists /\ sts.tmpl = Desired
  /\ rec.pc \in {"snapshot", "await", "apply"} /\ fresh.existing => sts.exists

\* The strengthening that makes RestImpliesConverged inductive.
IInv == SafetyInv /\ ViewIsCurrent /\ RestImpliesConverged

-----------------------------------------------------------------------------
(* What the documentation says and the code does not do: each is violated.  *)

\* "reconcilePVC ensures the save-data PVC exists for the given server"
\* (enshroudedserver_controller.go:262).  A cached PVC that is already deleted, or
\* terminating, is taken for an existing one.
PVCEnsured == rec.pc = "status" => pvc

\* "retainOnDelete controls whether the PVC is kept when the EnshroudedServer is
\* deleted" (enshroudedserver_types.go:52): without it the PVC goes before the CR.
PVCGoesWithServer ==
  [][cr.exists /\ ~cr'.exists /\ cr.fin /\ ~cr.spec.retain => ~pvc']_vars

\* "pending updates are held back while players are connected; optional
\* maintenanceWindows (cron) override this" (README.md:11), even counting only the
\* players the sidecar has already reported in the CR's status.
UpdatesHeldBackWhilePlaying ==
  [][sts.exists /\ sts'.exists /\ sts'.tmpl # sts.tmpl
       => ~(cr.spec.defer /\ online > 0 /\ cr.players > 0 /\ ~window)]_vars

\* "StrictSnapshotBeforeUpdate requires the snapshot to reach ReadyToUse=true before
\* the update is applied" (enshroudedserver_types.go:347-348), whatever part of
\* the pod template the update changes.
StrictSnapshotBeforeAnyUpdate ==
  [][sts.exists /\ sts'.exists /\ sts'.tmpl # sts.tmpl /\ Strict => snap = "ready"]_vars

\* "updateDeferred is true while a pending update is held back"
\* (enshroudedserver_types.go:415): at rest the flag means the template differs.
DeferredMeansPending ==
  /\ rec.pc = "idle" /\ ~queued /\ fresh.seen /\ fresh.sts /\ cr.exists /\ cr.deferred
  => sts.tmpl # [image |-> cr.spec.image, hash |-> Hash]
=============================================================================
