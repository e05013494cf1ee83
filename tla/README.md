# Formal model of the enshrouded-operator

TLA+ specifications of the operator in this repository, model-checked with TLC; the safety
properties of all but the cron matcher are also proved with TLAPS. Source lines are abbreviated:
`controller.go` is `internal/controller/enshroudedserver_controller.go`, `backup.go`, `vpa.go`,
`pdb.go` and `sidecar.go` are its neighbours, `types.go` is
`api/v1alpha1/enshroudedserver_types.go`, `webhook.go` is
`internal/webhook/v1alpha1/enshroudedserver_webhook.go`, `main.go` is
`cmd/metrics-sidecar/main.go` and `collector.go` is `internal/metrics/collector.go`.

## 1. Inventory

The operator keeps one game server per `EnshroudedServer` (CR). It is a controller-runtime
manager: events put the CR's key into a work queue, one worker takes it out and runs
`Reconcile`, an error puts it back. Reads of typed objects come from informer caches that lag
behind the API server. VolumeSnapshots and VPAs are unstructured and read live. A write of a
whole object is refused when its resourceVersion is no longer current.

| component | state | operations | talks to | what makes it correct |
|---|---|---|---|---|
| reconcile loop (`controller.go`) | CR copy, finalizer, PVC, StatefulSet, status | `Reconcile`, `handleDeletion`, `reconcilePVC`, `reconcileStatefulSet`, `updateStatus`, `setPhaseError` | everything | converges, never loses a wake-up, never overwrites others' fields, never deletes live save data, deletion ends |
| caches, queue, watches (`SetupWithManager`) | cached CR, StatefulSet, PVC; queued key; timer | sync, enqueue, `RequeueAfter` | reconcile loop | no event is lost |
| pre-update snapshot (`backup.go`) | one VolumeSnapshot per attempt | create, poll, time out | CSI driver | strict mode updates only on a ready snapshot |
| metrics sidecar (`cmd/metrics-sidecar`) | A2S answer, gauges, readiness | `scrape`, `patchServerStatus`, `parseA2SInfo` | game server (UDP), CR status | touches only its own status fields; the count is what the server said |
| vertical scaling (`vpa.go`) | VPA, requests of the StatefulSet | `reconcileVPA`, `applyVPARecommendation` | VPA recommender, reconcile loop | VPA follows the spec, a recommendation is applied and stays |
| maintenance windows (`inWindow` ...) | none | cron matcher | deferral, PDB, schedule | open exactly when the expression says |
| scheduled snapshots (`backup.go`) | VolumeSnapshots | create, prune | CSI driver | on schedule, the most recent kept, no more than retainCount |
| pod disruption budget (`pdb.go`) | maxUnavailable | `reconcilePDB` | deferral, windows | closed exactly while an update would be deferred |
| configuration, user groups | config Secret | `reconcileConfigSecret`, `cleanupConfigSecret` | StatefulSet | the mounted Secret exists while the pod template names it |
| Service, NetworkPolicy, sidecar RBAC | one object each | create, overwrite | pods, players | agree with one spec in the end, no port with two roles |
| admission webhook (`webhook.go`) | none | default, validate | API server, operator | idempotent defaults, never in the operator's own way |
| operator metrics (`collector.go`) | gauges per server | set, delete | `updateStatus`, deletion | say what the status says, also after a restart |
| S3 sidecar | none | checks a Secret | - | - |

What is hard here:

* **Interleaving.** The worker, the informers, the sidecar, the user, the StatefulSet
  controller and the garbage collector all write between two calls of one reconcile.
* **Staleness.** The CR copy is up to three minutes old when it is used (snapshot wait), and
  the cache it came from may still show an incarnation of the CR that is gone.
* **Failure.** Each API call can fail; the manager can restart; A2S datagrams get lost.
* **Waiting.** A deferred update hangs on a timer and on the sidecar's reports.
* **Two writers.** The VPA step and the StatefulSet step write the same field.
* **One copy, many children.** Six objects are built one after the other from one copy of the
  spec, and only one of them is held back while players are connected.
* **An unobserved clock.** Budget, deferral and gauges look at it at three moments; no event
  announces that a window opens or closes.

`PROJECT.json` lists the hazards line by line with the properties aimed at them.

## 2. Plan

In the order of the importance of the behaviour; all of it is done.

1. `Reconciler`: the reconcile loop with its surroundings; safety, liveness, proofs.
2. `ServerLifecycle` and `PlayerReport`: what the operator promises about a server's life, and
   what sidecar and operator promise each other about the player count, both implemented by
   the detailed modules under a refinement mapping.
3. `MetricsSidecar` and `A2SInfo`: query, handshake, late answers, readiness, gauges and status
   patch, down to the bytes of the answers.
4. `Admission` and `ChildObjects`: from a user's edit through the webhook to the children.
5. `DeferralSignals`: disruption budget, status and gauges against players and clock.
6. `VerticalScaling`: the two writers of the StatefulSet's requests.
7. `MaintenanceWindow`: the cron matcher against a reference.
8. `Snapshots`: schedule, retries and pruning.
9. Theorems for every safety property of these modules but the cron matcher's.

## 3. Modules and their correspondence to the code

### Reconciler

One CR. Every call of `Reconcile` that reads or writes shared state is an action; `rec.pc`
names the call to come and `rec.server` is the local `server`.

| code | model |
|---|---|
| `Reconcile`: Get and dispatch (101-121) | `StartReconcile`, `EntryPoint`, `AddFinalizer` |
| `handleDeletion` (229-260) | `DeletePVC`, `RemoveFinalizer` |
| password Secret and its hash (133-161) | `CheckPassword`, `SetPhaseError` |
| `reconcilePVC` (262-302) | `ReconcilePVC` |
| deferral (187-203) | `HoldBack`, `CheckDeferral` |
| `reconcileStatefulSet` (415-456) | `ReconcileStatefulSet`, `UpdateTemplate`, `ApplyAfterSnapshot` |
| `snapshotBeforeUpdate` (`backup.go` 179-266) | `CreateSnapshot`, `SnapshotReady`, `SnapshotFails` |
| `updateStatus`, `RequeueAfter` (706-783, 222) | `UpdateStatus` |
| watches (1076-1111) | `SyncCR`, `SyncSTS`, `SyncPVC` (queues nothing), `SecretChange` |
| sidecar `scrape`, `patchServerStatus` | `Scrape`, `ScrapeFails`, `PatchServerStatus`, `PatchFails` |

Abstractions:

* resourceVersions are only compared with the live one, so each copy has one bit in `fresh`.
* The pod template is its image and the password hash, the two parts that change. The
  StatefulSet record also carries the state of its single pod.
* `owned` says that the StatefulSet's owner reference has the UID of the live CR; the garbage
  collector removes it otherwise. The PVC has no owner.
* Events from outside (edits, deletions, faults, restarts, lost packets, joins, clock ticks)
  have a budget per kind. The proofs hold for every budget.
* `pvc` is false from the moment a deletion is accepted, terminating PVCs included.
* The StatefulSet controller's revision is that of the template as soon as the pod starts;
  the lag of `status.updateRevision` is left out. What can keep a pod from starting here (the
  volume) does not depend on its revision, so a pod that waits has none of its own; pods that
  wait at an old revision are in `ChildObjects`.
* `Resync` has a budget of 0 (off) or more (on) and may happen any number of times.
* The password mode is modelled; with user groups the hash comes from the config Secret
  instead (`ChildObjects`).

### ServerLifecycle, PlayerReport, ReconcilerRefines

`ServerLifecycle` is the life of a server without caches, queues or retries: created, pinned by
a finalizer, asked to leave, released; with a StatefulSet of its own and save data that is
discarded only when the server leaves or has no StatefulSet. `PlayerReport` is the agreement on
`status.activePlayers`: as long as the CR (`server`) is the same, the count changes only by a
report of the sidecar; a report is a count the game server had when it was asked, or zero; and
zero for a server that was neither down nor empty since it was asked (`lately`) is charged to
an answer that was lost (`lost`). A count goes back to zero otherwise only with the CR
(`Replace`). `ReconcilerRefines` maps `Reconciler` to both (`stage` from existence,
deletion mark and finalizer of the CR; `child` is a StatefulSet owned by the live CR);
`MetricsSidecar` maps itself to `PlayerReport`, so both parties to the agreement are held to
the same text. `Reconciler` asks and answers in one step, so there `lately` is the present count;
in `MetricsSidecar` it is what the server has had since the query under way began. The losses are
those of the event budget.

### MetricsSidecar, A2SInfo

| code (`main.go`) | model |
|---|---|
| scrape loop, first request (133-149, 522-531) | `Tick`, `Sent` |
| challenge, second request (147-163) | `ReceiveChallenge` |
| a second challenge is not an answer (190-201) | `ReceiveUnexpected` |
| an answer (165), gauges and info series (427-447) | `ReceiveInfo`, `Succeed`, `SetInfo` |
| `byteReader`, `parseA2SInfo` (190-278) | `readByte`, `readString`, `readName` ... `readVersion`, `parseA2SInfo` of `A2SInfo` |
| 4096-byte buffer (145, 179), challenge (156-157) | `ReadFrom`, `IsChallenge`, `ChallengeIn` |
| deadline of a round trip (168-188), failure (396-413) | `Timeout`, `Fail` |
| `patchServerStatus` (354-379) | `Get`, `Patch`, `CallFails` |

`net` is what is under way on the socket of the present query; closing it drops the rest. The
game server hands out one of two challenges per process, or none. What the server sends is a
challenge or a report; the sidecar gets its bytes (`Wire`, cut off at the buffer's end in
`Received`) and sees only what it reads of them (`Parsed`). `Banner` has the fields of an answer
that do not change, name and map among them, so the info series goes with the version alone.
`AnswersFit` assumes that the answers of this server fit the buffer; `CutAnswers` is about those
that do not. A request is the challenge in it, the rest of its bytes being constant. A datagram
that stays away and one that is late are both `Timeout`. `since` is a history variable: the
answers that were true at some moment of the query.

### Admission, ChildObjects

`Admission` has the CRD's defaults, `Default`, `validateEnshroudedServer` and the size rule of
`ValidateUpdate` as operators on specs. Checks of one field alone (IP, Secret references) are
the flag `wellFormed`; the repository check cannot fail after defaulting. Specs stored before
the webhook was served (`Legacy`) have the schema's defaults only.

| code (`controller.go` unless named) | model |
|---|---|
| Get, finalizer through admission (101-121) | `StartReconcile`, `AddFinalizer` |
| config Secret (123-137, 304-413) | `ReconcileConfig`, `WriteConfig`, `CleanupConfig` |
| `reconcilePVC` (262-302) | `ReconcilePVC` |
| `sidecar.go` 25-165 | `ReconcileSidecarRBAC` |
| `reconcileNetworkPolicy` (792-916) | `ReconcileNetworkPolicy`, `OpenPorts` |
| deferral, `reconcileStatefulSet`, `buildStatefulSet` (187-203, 415-456, 516-704) | `HoldBack`, `ReconcileStatefulSet`, `TemplateOf` |
| `reconcileService` (458-514) | `ReconcileService`, `PortsOf` |
| `updateStatus`, timer (222, 749-773) | `UpdateStatus`, `TimerFires` |

A port is a role, a protocol and a number. A config is its port and password, and stands for
its own hash. A template is its ports, whether it mounts the config and runs the sidecar, and
the hash. A pod is created from the template of that moment, if its service account exists
(`CreatePod`), keeps that template as its revision, and starts if the volumes it mounts exist
(`StartPod`, `VolumesExist`). The StatefulSet controller replaces a ready pod of an old template
(`RollPod`) but waits for one that is not ready, as `OrderedReady` has it; so a pod created while
an update was held back can wait for a Secret that is gone (`Stranded`). Children other than the config Secret have no cache of their own: a write refused
for a stale copy is `ChildConflict`, possible while a watch event is under way. Deletion,
snapshots and windows are in the other modules.

### DeferralSignals

`reconcilePDB` with the cache it reads (`ReconcilePDB`, `SyncPDB`), `DeferralCheck`,
`updateStatus` with `SetServerMetrics`, `setPhaseError` within `CheckPassword`, and
`handleDeletion` with `DeleteServerMetrics`. `window` is the clock as `isInMaintenanceWindow`
sees it; it may change between any two steps, and tells no one. `RemovalUnacknowledged` and
`StatusUnacknowledged` are a finalizer removal and a status update that took effect and whose
answers were lost (events of kind "lost"). `Resync` is controller-runtime's
periodic re-delivery of everything in a cache.

### VerticalScaling

`reconcileVPA`, `applyVPARecommendation` and the StatefulSet step of the same reconcile, with
the StatefulSet cache between them. CPU and memory are numbers, 0 for a missing request.
`bounds` stands for `minAllowed` and `maxAllowed`. The CR copy is taken as current, since
its staleness is `Reconciler`'s subject.

### MaintenanceWindow

`inWindow`, `splitFields`, `matchCronField`, `splitByComma`, `matchRange` and `atoi` as
operators on sequences of characters: what the parser makes of a character, as of the star and
the slash of `*/6`, is the question here. The `TZ=` prefix is cut off as the code does
(`HasZone`, `ZoneEnd`, `ZoneOf`, `CronOf`), with `TZ=` and the zone's name as one symbol each.
Time is an hour of the week; a zone is an offset, so daylight saving is left out.
`MCMaintenanceWindow` builds expressions from descriptions with
a known meaning and compares.

### Snapshots

A snapshot is its trigger and the second of its creation. `StartReconcile` goes through the
pre-update snapshot when an image change is pending, then to the schedule, the creation and
the pruning, with one deletion per step. Snapshots removed by hand are left out.

### Proof modules

`ReconcilerSafety`, `ReconcilerProgress`, `RefinementProofs`, `SidecarProofs`, `SignalProofs`,
`ChildProofs`, `ScalingProofs` and `SnapshotProofs`, see section 5.

## 4. Runs

Passing runs:

| run | shows |
|---|---|
| `lifecycle` | `FinalizerPinsServer`, `LiveServerKeepsSaveData`, `ImplementsLifecycle` over two incarnations, a fault and a restart |
| `deferral` | `RestImpliesConverged`, `OperatorKeepsForeignFields`, `KeepsPlayerReport` with a player, the clock and a lost packet |
| `upgrade` | `TypeOK`, `StrictSnapshotFirst`, `RestImpliesConverged` with a Secret that comes and goes, an evicted pod and a StatefulSet removed by hand |
| `progress` | `UpdateIsApplied`: an empty server ends up running what its spec says |
| `deletion` | `DeletionCompletes`, and `ServerReturns`: a server created over what its predecessor left ends up running on a PVC, if the resync goes on |
| `scaling` | `TypeOK`, `RestRequestsSpec` (outside WhenIdle), `RestVPAMode`, `RestVPAGone` through all modes, and `ApplyKeepsMemoryWhilePlaying`: of the two writers of the requests, `applyVPARecommendation` keeps its word |
| `windows` | `SupportedWindowsOpen`, every hour of a week for 120 expressions, with and without a zone |
| `prune` | `RecentSnapshotsKept`, `PrunedToRetainCount`, `SnapshotsAreBounded` with updates and failures between any two calls |
| `sidecar` | `AnswersAreTimely`, `InfoSeriesPresent`, `StatusConverges`, `ReportsPlayers` with a restart of either side, a late answer, a failed call and a replaced CR |
| `children` | `RestChildrenAgree`, `OperatorIsAdmitted`, `PortsStayApart`, `ServerComesUp` with edits, refused edits, a password change, an eviction, a player and a fault; `AgreedIsQuiet`: the operator does not keep itself busy |
| `signals` | `RestDrainsAllowed`, `RestGaugesAgree`, `SeriesFollowsPhase`, `GaugesGoWithServer`, `SignalsCatchUp` with players, windows, pod, Secret, edit, deletion, fault, restart and lost answers |

`late_join` shows a disagreement between a document and the code, which `PROJECT.json` quotes
under `findings`: an update is applied although players were reported before the write. What the
write respects is the count the reconcile read at its start.

More disagreements met on the way. Each is stated in the last section of its module (of the MC
module for the cron matcher), next to the sentence it is taken from, and TLC refutes it with
the configuration named. A configuration called `...Claims` holds several; run with `-continue`,
TLC reports the violations of each:

| module, configuration | what happens |
|---|---|
| `MCReconciler`, `StalePVC.cfg` | a cached, already deleted PVC keeps `reconcilePVC` from creating one |
| `MCReconciler`, `RemovedSTS.cfg` | a StatefulSet removed with players on it is never recreated |
| `MCReconciler`, `OrphanPVC.cfg` | a PVC not yet cached survives `retainOnDelete: false` |
| `MCReconciler`, `StrictRotation.cfg` | a rotated password rolls the pod without the strict snapshot |
| `MCReconciler`, `DeferredFlag.cfg` | `updateDeferred` without a pending update |
| `MCVerticalScaling`, `FlipFlop.cfg` | spec and recommendation overwrite each other for ever |
| `MCVerticalScaling`, `MemoryGuard.cfg` | the StatefulSet step lowers memory while players are connected |
| `MCVerticalScaling`, `ScalingClaims.cfg` | changed bounds do not reach the VPA |
| `MCVerticalScaling`, `ScalingClaims.cfg` | a failed Get leaves the VPA of a disabled server |
| `MCVerticalScaling`, `BlockedCreation.cfg` | a recommendation keeps a missing StatefulSet from being created |
| `MCMaintenanceWindow`, `EverySixHours.cfg` | the documented `0 */6 * * *` is due once a day |
| `MCSnapshots`, `ScheduleClaims.cfg` | two snapshots in one scheduled hour |
| `MCSnapshots`, `ScheduleClaims.cfg` | a scheduled hour without an event has no snapshot |
| `MCMetricsSidecar`, `SidecarClaims.cfg` | a failed query forgets which info series to delete, and two versions are published |
| `MCMetricsSidecar`, `SidecarClaims.cfg` | a full server whose answer is late is reported empty |
| `MCChildObjects`, `PortSwitch.cfg` | the policy closes the port of connected players while their update is deferred |
| `MCChildObjects`, `StuckDeferral.cfg` | the config is removed while the update is deferred; an evicted pod cannot start again, and reports nothing that would end the deferral (`DeferredUpdateIsApplied`) |
| `MCChildObjects`, `StuckDeferral.cfg` | a pod evicted during that time waits for the removed config at the old template, and the StatefulSet controller does not replace it when the update comes (`EmptyServerComesUp`) |
| `MCChildObjects`, `ConfigClaims.cfg` | a config Secret not yet cached survives its clean-up |
| `MCChildObjects`, `LoadedConfig.cfg` | a password changed and changed back: a pod started in between runs with the other one |
| `MCChildObjects`, `ConfigClaims.cfg` | a larger size is admitted and never reaches the PVC |
| `MCDeferralSignals`, `WindowClaims.cfg` | a window closes and players stay unprotected until the next event |
| `MCDeferralSignals`, `WindowClaims.cfg` | a window opens within a reconcile and drains stay blocked |
| `MCDeferralSignals`, `WindowClaims.cfg` | the window gauge is as old as the last reconcile |
| `MCDeferralSignals`, `SeriesClaims.cfg` | an Error phase in between leaves the series of the phase before it |
| `MCDeferralSignals`, `SeriesClaims.cfg` | an unacknowledged finalizer removal leaves the metrics of a deleted server |

`LegacySpec.cfg` refutes `OperatorIsAdmitted` for a spec from before the webhook whose ports
clash: the finalizer is refused for ever, and nothing is built. The theorem about it therefore
assumes that there is none (section 5).

One more has no run, being about a constant: the comment at `controller.go` 795-796 says that
pods cannot reach the Kubernetes API, and the sidecar of such a pod patches the CR's status
through it. The policy that is built lets HTTPS out to everything but the link-local range
(815-818, 855-858), the API server included where it listens on 443. The model assumes that the
sidecar gets through; in a cluster where it does not, no count is ever reported, and
`StatusConverges` and what rests on the reports do not hold.

**Bounds.** `Reconciler` runs have two images, at most one player and the event budgets of
`MCReconciler`. A violation of the modelled properties needs one stale copy and one event that
made it stale, or two incarnations of the CR; the budgets allow each, with one fault, restart or
lost packet on top. The deletion run has two incarnations, the second over the PVC, StatefulSet and
cached copies of the first. `VerticalScaling` has one recommendation, of memory below or above the
spec's, so that both directions of a change occur, and two edits, so that a mode can be left and
entered again. `Snapshots` has three hours of two seconds and retainCount 2; up to three more
events, two updates and two failures exceed it by more than one. `MetricsSidecar` has two
versions and two players, so that a count can be wrong without being zero; the strings of its
answers have different lengths and the bytes around the counts differ from them, so that a field
read at another's place shows. `ChildObjects` goes
between two servers that differ in every part (ports, groups, sidecar, deferral), with three
requests to be refused; `DeferralSignals` has one player and a window that may open and close.
Both limit the events to three in all (`MaxEvents`), with which every mutant of the two modules
is still caught. Deadlock is not checked where the outside events run out: the operator then
rests, which is what it should do.

**Fairness.** Weak fairness of the worker, each informer, the delaying queue, the garbage
collector, the StatefulSet controller and the sidecar's ticker: each is a goroutine or a
controller that keeps running, and none of their steps is disabled and enabled for ever by
others. Users, players, the clock and faults get none. Faults and restarts are bounded, so
liveness is claimed for a system in which calls eventually succeed. The sidecar's `Timeout` is
fair only when nothing is under way, and the game server's answering is; so a server that is up
is heard in the end, late answers being bounded too. That a packet which has arrived is read is
stated as `[]<>~Unread`: it is read, or dropped with its socket. `Resync` is weakly fair because the
informers re-deliver periodically (after ten hours, by default): `SignalsCatchUp` holds by it,
and `WindowClaims.cfg` shows what holds until then. In `Reconciler` it is a hypothesis of
`ServerReturns` alone; `StalePVC.cfg` shows why it is needed.

**Mutants.** For each property of a passing run, `PROJECT.json` names a definition and a
faulty variant of it, kept next to it under a comment "Mutant", with which the property fails.

## 5. Proofs

For every set of specs, versions and requests, every number of Secret values and players and
every budget. The assumptions are those of the modules: `Specs` is a non-empty set of specs,
`Requests` and `Legacy` consist of specs (in `VerticalScaling`: `Requests` of pairs of CPU and
memory, each of which may be set without the other), `Version` consists of non-empty strings,
players fit a byte and the server's answers the buffer, bounds are natural numbers (an hour has
at least one second) and budgets functions to them. `OperatorAdmitted`
assumes `LegacyAdmissible` in addition.

| theorem | states |
|---|---|
| `TypeCorrect` (ReconcilerSafety) | `Spec => []TypeOK` of `Reconciler` |
| `SafetyInvariant` | `Spec => []SafetyInv` |
| `FinalizerPins` | `Spec => []FinalizerPinsServer` |
| `SaveDataKept` | `Spec => LiveServerKeepsSaveData` |
| `ForeignFieldsKept` | `Spec => OperatorKeepsForeignFields` |
| `StrictSnapshots` | `Spec => StrictSnapshotFirst` |
| `RestIsConverged` (ReconcilerProgress) | `Spec => []RestImpliesConverged` |
| `LifecycleImplemented` (RefinementProofs) | `Spec => ImplementsLifecycle` |
| `PlayerReportKept` | `Spec => KeepsPlayerReport` |
| `SidecarInvariant` (SidecarProofs) | `Spec => []IInv` of `MetricsSidecar` |
| `SidecarTypes` | `Spec => []TypeOK` of `MetricsSidecar` |
| `TimelyAnswers`, `InfoSeries` | `Spec => []AnswersAreTimely`, `Spec => []InfoSeriesPresent` |
| `SidecarReports` | `Spec => ReportsPlayers` |
| `ParsesAnswers` | for every `f` in `Fields`, `parseA2SInfo(Answer(f))` succeeds with the fields of `f` |
| `CutAnswers` | of an answer of any length, cut off at the buffer's end, each field read is that of `f`, or empty or zero |
| `SignalInvariant` (SignalProofs) | `Spec => []IInv` of `DeferralSignals` |
| `SignalTypes` | `Spec => []TypeOK` of `DeferralSignals` |
| `DrainsAllowed`, `GaugesAgree` | `Spec => []RestDrainsAllowed`, `Spec => []RestGaugesAgree` |
| `SeriesFollow`, `GaugesGo` | `Spec => []SeriesFollowsPhase`, `Spec => []GaugesGoWithServer` |
| `ChildTypes` (ChildProofs) | `Spec => []TypeOK` of `ChildObjects` |
| `PortsApart` | `Spec => []PortsStayApart` |
| `OperatorAdmitted` | `LegacyAdmissible` implies `Spec => []OperatorIsAdmitted` |
| `ChildrenAtRest`, `StartsAtRest` | `Spec => []RestChildrenAgree`, `Spec => [](Rest => NewPodCanStart)` |
| `QuietWhenAgreed` | `Spec => AgreedIsQuiet` |
| `ScalingInvariant` (ScalingProofs) | `Spec => []ScalingInv` |
| `ScalingTypes` | `Spec => []TypeOK` of `VerticalScaling` |
| `RequestsAtRest` | `Spec => []RestRequestsSpec` |
| `VPAModeAtRest`, `VPAGoneAtRest` | `Spec => []RestVPAMode`, `Spec => []RestVPAGone` |
| `MemoryKeptWhilePlaying` | `Spec => ApplyKeepsMemoryWhilePlaying` |
| `SnapshotInvariant` (SnapshotProofs) | `Spec => []SnapshotInv` |
| `RecentKept`, `PrunedExactly` | `Spec => RecentSnapshotsKept`, `Spec => PrunedToRetainCount` |
| `SnapshotBound` | `Spec => []SnapshotsAreBounded` |

### The reconcile loop

None of the properties is inductive alone. `SafetyInv` adds:

* `FreshCopiesAgree`: a copy with the live version equals the live object. This is what makes
  a write that passes the version check harmless (`ForeignFieldsKept`).
* `ReconcileKnows`: what the program counter implies about the local copy; in particular
  a strict reconcile reaches the update only with the snapshot ready (`StrictSnapshots`), and
  up to its first write a fresh local copy is also what the cache holds.
* `FinalizerHolds`: a finalizer seen on a copy without a deletion mark is still on the CR.
  Only this operator removes it, and only after a version-checked look at the mark.
* `DeletionsAreOurs`: once the StatefulSet belongs to the live CR, the cache has moved past
  every earlier incarnation's deletion, so `DeletePVC` cannot run (`SaveDataKept`).

`ReconcilerSafety` first shows that the helpers (`Goto`, `Forget`, `StoreCR`, `WithStatus`, ...)
keep the types, then every action. It then classifies each action by what it does to
the CR, its cached copy and the copy the reconcile works on: `Started` (the CR was read),
`Inner` (a step past the finalizer), `Returns` (at most a status write), `Outer` (a step of
somebody else that neither creates, deletes nor reads the CR), and the seven that do more:
`DeletePVC`, `RemoveFinalizer`, `AddFinalizer`, `SyncCR`, `Crash`, `UserCreate` and `UserDelete`.
One lemma per class (`StartedKeeps`, `InnerKeeps`, ...) shows the four parts together.

`ReconcilerProgress` adds `ViewIsCurrent` (with `SafetyInv`, `IInv`): while nothing is queued
and the copies are fresh, what a reconcile under way has read so far is what there is. Every
step queues the key, or is another actor's that leaves a current view as it was, or is the
reconcile's own; so none leaves the operator at rest and wrong. `RefinementProofs`
reuses the classes of actions for step simulation: most stutter, and the rest are matched one
to one with the abstract steps. For `PlayerReportKept` every write of the CR either keeps its
count, since a copy that passes the version check has the stored one, or begins or ends the CR's
life (`CountKept`, `CountReplaced`); a lost answer or report is paid from the budget (`Losses`).

### Sidecar, signals, children, scaling, snapshots

* `SidecarProofs`: one datagram per query at most, none outlives its query (`OneDatagram`), and
  an answer under way was true since the query began (`AnswersUnderWay`); hence
  `AnswersAreTimely`. `PreviousIsPublished` is the same for the info series. The simulation of
  `PlayerReport` takes the count in an answer under way for its sample. A query that fails without
  a loss must have met an empty server: `SilenceIsExplained` says that, unless the server was
  down or empty since the query began, there is a datagram under way from which the present
  process of the server still gets to an answer. All of this needs that
  the bytes of a report parse as that report (`ParsesAnswers`). The argument walks along the
  answer: a string read from the end of one field stops at the NUL that ends the next, since its
  bytes are not NUL, whatever follows; the fixed fields are then at fixed distances. For
  `CutAnswers` the packet is a prefix of an answer: a read that succeeds within the prefix
  returns what it would return of the whole.
* `SignalProofs`: fresh copies agree (`CopiesAgree`), and past its step the budget admits
  drains whenever the reconcile's copy has no one to protect, unless an event about it is under
  way (`BudgetIsSet`). For `SeriesFollow`, a series is set only together with the status write
  it belongs to, and the series deleted is that of the local copy's phase, which a write that
  passes the version check shows to be the stored one. The password must not have been taken
  away (`Counted`), since `setPhaseError` writes a phase and no series, and no answer lost, since
  such a write is not published: `SeriesClaims.cfg` has both. `GaugesGo` is the same for the
  removal of the finalizer.
* `ChildProofs`: `Default` after `SchemaDefault` is idempotent, so a stored spec is admitted
  unchanged (`StoredFields`, `ValidIsApart`). `AdmittedFirst` says that a copy with the finalizer
  has its ports apart, as has the spec of a reconcile that builds children; it holds for clashing
  legacy specs too, since the finalizer's update is refused for them. `ChildrenAtRest` and
  `QuietWhenAgreed` rest on `BuiltInv`: while nothing is queued and the cache shows the stored
  server (`Current`), a reconcile works from the stored spec (`SpecIsCurrent`), carries the hash
  of the present password (`HashIsCurrent`), and each child it is past is as that spec wants it
  (`ConfigIsSet`, `PVCIsSet`, `RBACIsSet`, `PolicyIsSet`, `TemplateIsSet`, `ServiceIsSet`), the
  StatefulSet only if it was not held back. Whatever would falsify one of these queues the
  server or outdates the cache (`Undisturbed`). `StartsAtRest` follows: a pod created then can start
  from what is there; `StuckDeferral.cfg` shows that this fails while an update is held back.
* `ScalingProofs`: `ScalingInv` has the same shape with a queue alone: a reconcile that no event
  has overtaken works from the stored spec, and past `reconcileVPA` the VPA has its mode, or is
  gone if scaling is off and no call has failed (`VPAIsGone`). The StatefulSet
  has the spec's requests at rest (`RequestsAreSet`), which `RestRequestsSpec` states for the
  modes in which it should have them. The invariant holds in WhenIdle mode too, where the
  recommendation should be there: the other side of `FlipFlop.cfg`.
  `MemoryKeptWhilePlaying` needs that a cached StatefulSet of the live version is the stored
  one; `MemoryGuard.cfg` shows that the step after it does what this one avoids.
* `SnapshotProofs`: while a prune is under way exactly retainCount snapshots are not condemned,
  and none of those is older than a condemned one (`PruneIsExact`); a failure half way keeps
  this, since the next prune lists again. For `SnapshotBound` every snapshot beyond retainCount
  is charged to an image change, to a failure or to the reconcile in hand (`Accounted`), and a
  pending change has its charge in advance (`PendingIsPaid`).

### Only model-checked

The liveness properties `UpdateIsApplied`, `DeletionCompletes`, `ServerReturns`,
`StatusConverges`, `ServerComesUp` and `SignalsCatchUp` (fairness and ENABLED are out of the prover's reach), and
`SupportedWindowsOpen`, what the cron matcher computes (induction over sequences is too).

## 6. Not modelled

* The S3 sidecar: `reconcileS3Sidecar` reads a Secret and logs, and nothing calls the code that
  builds the container.
* Start-up and leader election (one manager is assumed, although leader election is off by
  default), the sidecar's flags and HTTP servers, generated code.
* The bytes of an A2S request, which the server alone reads, and packets of the game server that
  are neither challenges nor answers; packets from other addresses are discarded unread.
* Contents that are the same for every spec (labels, probes, RBAC rules, egress), and parts of
  the pod template no property tells apart (resources outside `VerticalScaling`, slots, names).
* Daylight saving, and the lag of `status.updateRevision`.
