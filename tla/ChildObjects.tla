----------------------------- MODULE ChildObjects -----------------------------
(***************************************************************************)
(* The objects the operator keeps for one server apart from its save data: *)
(* the generated config Secret, the sidecar's RBAC objects, NetworkPolicy, *)
(* StatefulSet and Service, built one after the other from one copy of a   *)
(* spec the admission webhook has let through, while the user edits the    *)
(* spec, passwords change, pods come and go and calls fail.                *)
(*                                                                         *)
(* Reconciler models deletion, snapshots and the caches in full; here a    *)
(* refused write of a child, for a stale copy of it, is a conflict that    *)
(* may happen as long as a watch event of a child is under way.            *)
(***************************************************************************)
EXTENDS Admission, Functions

CONSTANTS Requests,   \* the specs the user may submit
          Legacy,     \* specs that may have been stored before the webhook was served
          MaxSecret,  \* contents of the group's Secret, that without the key too; 0 is none
          MaxPlayers,
          Budget,     \* how often each kind of event may happen
          MaxEvents   \* and how many there may be in all

EventKind == {"edit", "secret", "evict", "join", "fault"}

ASSUME RequestsAssumption == Requests \cup Legacy \subseteq SpecType
ASSUME ChildBounds == /\ MaxSecret \in Nat /\ MaxPlayers \in Nat
                      /\ Budget \in [EventKind -> Nat] /\ MaxEvents \in Nat

VARIABLES cr,          \* the stored server: spec, finalizer and status
          seen,        \* its copy in the informer cache
          fresh,       \* which copies carry the live resourceVersion
          password,    \* the group's password as cached, 0 if its Secret is missing
          config,      \* content of the config Secret, NoConfig if it is absent
          configSeen,  \* the same in the informer cache
          pvc,         \* requested size of the savegame PVC, 0 if it is absent
          rbac,        \* which of the sidecar's RBAC objects exist
          netpol, service,  \* the ports they open; NoPorts if absent
          sts,         \* the StatefulSet and its one pod
          event,       \* a watch event of an owned child is under way
          rec, queued, timer, online, spent

childVars == <<config, configSeen, pvc, rbac, netpol, service, sts, event>>
vars == <<cr, seen, fresh, password, childVars, rec, queued, timer, online, spent>>

RBACObjects == {"account", "role", "binding"}
NoPorts     == {}
NoConfig    == <<>>

\* buildServerConfigJSON: what makes one generated config differ from another.
ConfigOf(s, p) == <<Or(s.port, DefaultPort), p>>

\* What the operator puts into the children, with its own fallbacks.
PortsOf(s) == {<<"query", "UDP", Or(s.port, DefaultPort)>>,
               <<"steam", "UDP", Or(s.steam, DefaultSteamPort)>>}

OpenPorts(s) == PortsOf(s) \cup (IF s.sidecar THEN {<<"metrics", "TCP", 9090>>} ELSE {})

\* buildStatefulSet: the config Secret is mounted in UserGroups mode, and the hash
\* annotation is that of its content.
TemplateOf(s, h) == [ports |-> PortsOf(s), mount |-> s.groups, sidecar |-> s.sidecar, hash |-> h]

NoTemplate == [ports |-> NoPorts, mount |-> FALSE, sidecar |-> FALSE, hash |-> NoConfig]

\* rev: the template its pod was made from; loaded: the config the game server read.
NoStatefulSet == [exists |-> FALSE, tmpl |-> NoTemplate, rev |-> NoTemplate, pod |-> "none",
                  loaded |-> NoConfig]

NoSpec == [port |-> 0, steam |-> 0, size |-> 0, groups |-> FALSE, sidecar |-> FALSE,
           defer |-> FALSE, wellFormed |-> FALSE]

Idle == [pc |-> "idle", spec |-> NoSpec, players |-> 0, hash |-> NoConfig, deferred |-> FALSE]

Init ==
  /\ \E s \in (UNION {Created(r) : r \in Requests}) \cup {SchemaDefault(r) : r \in Legacy} :
       cr = [spec |-> s, fin |-> FALSE, players |-> 0, deferred |-> FALSE]
  /\ seen = cr /\ fresh = [seen |-> TRUE, server |-> FALSE, config |-> TRUE]
  /\ password \in 0 .. MaxSecret
  /\ config = NoConfig /\ configSeen = NoConfig
  /\ pvc = 0 /\ rbac = {} /\ netpol = NoPorts /\ service = NoPorts
  /\ sts = NoStatefulSet /\ event = FALSE
  /\ rec = Idle /\ queued = TRUE /\ timer = FALSE /\ online = 0
  /\ spent = [k \in EventKind |-> 0]

Spend(kind) ==
  /\ spent[kind] < Budget[kind] /\ FoldFunction(+, 0, spent) < MaxEvents
  /\ spent' = [spent EXCEPT ![kind] = @ + 1]

-----------------------------------------------------------------------------
(* The reconcile.                                                           *)

ReturnError ==
  /\ rec' = Idle /\ queued' = TRUE
  /\ fresh' = [fresh EXCEPT !.server = FALSE]
  /\ UNCHANGED <<cr, childVars>>

StoreCR(new) ==
  /\ cr' = new
  /\ fresh' = IF new = cr THEN fresh ELSE [fresh EXCEPT !.seen = FALSE, !.server = FALSE]

StoreConfig(new) ==
  /\ config' = new
  /\ fresh' = [fresh EXCEPT !.config = @ /\ new = config]

Goto(step) == rec' = [rec EXCEPT !.pc = step]

\* A child that changed is reported by its watch.
Notify(changed) == event' = (event \/ changed)

StartReconcile ==
  /\ rec.pc = "idle" /\ queued
  /\ queued' = FALSE
  /\ rec' = [rec EXCEPT !.pc = IF seen.fin THEN "config" ELSE "finalizer",
                        !.spec = seen.spec, !.players = seen.players]
  /\ fresh' = [fresh EXCEPT !.server = fresh.seen]
  /\ UNCHANGED <<cr, seen, password, childVars, timer, online, spent>>

\* The operator's update of the whole object goes through admission like any other.
AddFinalizer ==
  /\ rec.pc = "finalizer"
  /\ IF fresh.server /\ Updated(cr.spec, rec.spec) # {}
     THEN \E s \in Updated(cr.spec, rec.spec) :
            /\ cr' = [cr EXCEPT !.spec = s, !.fin = TRUE]
            /\ fresh' = [fresh EXCEPT !.seen = FALSE]
            /\ rec' = [rec EXCEPT !.pc = "config", !.spec = s]
            /\ UNCHANGED <<childVars, queued>>
     ELSE ReturnError
  /\ UNCHANGED <<seen, password, timer, online, spent>>

\* Mutant: a missing group Secret gives an empty password.
WriteConfigUnchecked ==
  IF ~fresh.config THEN ReturnError
  ELSE /\ StoreConfig(ConfigOf(rec.spec, password))
       /\ rec' = [rec EXCEPT !.pc = "pvc", !.hash = ConfigOf(rec.spec, password)]
       /\ UNCHANGED <<cr, configSeen, pvc, rbac, netpol, service, sts, event, queued>>

\* Mutant: a conflict is taken for an event that will come by itself.
WriteConfigSwallowing ==
  IF password = 0 THEN ReturnError
  ELSE IF ~fresh.config
  THEN rec' = Idle /\ UNCHANGED <<cr, fresh, childVars, queued>>
  ELSE /\ StoreConfig(ConfigOf(rec.spec, password))
       /\ rec' = [rec EXCEPT !.pc = "pvc", !.hash = ConfigOf(rec.spec, password)]
       /\ UNCHANGED <<cr, configSeen, pvc, rbac, netpol, service, sts, event, queued>>

\* reconcileConfigSecret: create, or overwrite the copy in the cache ...
WriteConfig ==
  IF password = 0 \/ ~fresh.config THEN ReturnError
  ELSE /\ StoreConfig(ConfigOf(rec.spec, password))
       /\ rec' = [rec EXCEPT !.pc = "pvc", !.hash = ConfigOf(rec.spec, password)]
       /\ UNCHANGED <<cr, configSeen, pvc, rbac, netpol, service, sts, event, queued>>

\* ... and cleanupConfigSecret: what the cache does not show is not there.
CleanupConfig ==
  /\ StoreConfig(IF configSeen = NoConfig THEN config ELSE NoConfig)
  /\ Goto("pvc")
  /\ UNCHANGED <<cr, configSeen, pvc, rbac, netpol, service, sts, event, queued>>

ReconcileConfig ==
  /\ rec.pc = "config"
  /\ IF rec.spec.groups THEN WriteConfig ELSE CleanupConfig
  /\ UNCHANGED <<seen, password, timer, online, spent>>

\* reconcilePVC: created once, with a size of its own default.
ReconcilePVC ==
  /\ rec.pc = "pvc"
  /\ pvc' = IF pvc = 0 THEN Or(rec.spec.size, DefaultSize) ELSE pvc
  /\ Goto(IF rec.spec.sidecar THEN "account" ELSE "netpol")
  /\ UNCHANGED <<cr, seen, fresh, password, config, configSeen, rbac, netpol, service,
                 sts, event, queued, timer, online, spent>>

\* reconcileSidecarServiceAccount, ...Role and ...RoleBinding, in this order.
ReconcileRBAC(object, next) ==
  /\ rec.pc = object
  /\ rbac' = rbac \cup {object}
  /\ Notify(object \notin rbac)
  /\ Goto(next)
  /\ UNCHANGED <<cr, seen, fresh, password, config, configSeen, pvc, netpol, service,
                 sts, queued, timer, online, spent>>

ReconcileSidecarRBAC == \/ ReconcileRBAC("account", "role")
                        \/ ReconcileRBAC("role", "binding")
                        \/ ReconcileRBAC("binding", "netpol")

\* Mutant: the policy is created once and never updated.
CreateNetworkPolicyOnce ==
  /\ rec.pc = "netpol"
  /\ netpol' = IF netpol = NoPorts THEN OpenPorts(rec.spec) ELSE netpol
  /\ Notify(netpol' # netpol)
  /\ Goto("statefulset")
  /\ UNCHANGED <<cr, seen, fresh, password, config, configSeen, pvc, rbac, service,
                 sts, queued, timer, online, spent>>

ReconcileNetworkPolicy ==
  /\ rec.pc = "netpol"
  /\ netpol' = OpenPorts(rec.spec)
  /\ Notify(netpol' # netpol)
  /\ Goto("statefulset")
  /\ UNCHANGED <<cr, seen, fresh, password, config, configSeen, pvc, rbac, service,
                 sts, queued, timer, online, spent>>

HoldBack == rec.spec.defer /\ rec.players > 0

\* The StatefulSet alone is left as it is when the update is deferred.
ReconcileStatefulSet ==
  /\ rec.pc = "statefulset"
  /\ sts' = CASE HoldBack -> sts
              [] ~HoldBack /\ sts.exists -> [sts EXCEPT !.tmpl = TemplateOf(rec.spec, rec.hash)]
              [] OTHER -> [NoStatefulSet EXCEPT !.exists = TRUE,
                                                !.tmpl = TemplateOf(rec.spec, rec.hash),
                                                !.rev = TemplateOf(rec.spec, rec.hash)]
  /\ Notify(sts' # sts)
  /\ rec' = [Idle EXCEPT !.pc = "service", !.spec = rec.spec, !.deferred = HoldBack]
  /\ UNCHANGED <<cr, seen, fresh, password, config, configSeen, pvc, rbac, netpol,
                 service, queued, timer, online, spent>>

\* Mutant: the update is never without effect.
RewriteService ==
  /\ rec.pc = "service"
  /\ service' = PortsOf(rec.spec)
  /\ Notify(TRUE)
  /\ rec' = [Idle EXCEPT !.pc = "status", !.deferred = rec.deferred]
  /\ UNCHANGED <<cr, seen, fresh, password, config, configSeen, pvc, rbac, netpol,
                 sts, queued, timer, online, spent>>

ReconcileService ==
  /\ rec.pc = "service"
  /\ service' = PortsOf(rec.spec)
  /\ Notify(service' # service)
  /\ rec' = [Idle EXCEPT !.pc = "status", !.deferred = rec.deferred]
  /\ UNCHANGED <<cr, seen, fresh, password, config, configSeen, pvc, rbac, netpol,
                 sts, queued, timer, online, spent>>

UpdateStatus ==
  /\ rec.pc = "status"
  /\ IF fresh.server
     THEN /\ cr' = [cr EXCEPT !.deferred = rec.deferred]
          /\ fresh' = [fresh EXCEPT !.seen = @ /\ cr' = cr, !.server = FALSE]
          /\ rec' = Idle
          /\ timer' = (timer \/ rec.deferred)
          /\ UNCHANGED <<childVars, queued>>
     ELSE ReturnError /\ UNCHANGED timer
  /\ UNCHANGED <<seen, password, online, spent>>

\* A write of a child is refused: the copy it is based on is stale.
ChildConflict ==
  /\ event
  /\ rec.pc \in {"role", "netpol", "service"} \/ (rec.pc = "statefulset" /\ ~HoldBack)
  /\ ReturnError
  /\ UNCHANGED <<seen, password, timer, online, spent>>

ApiFault ==
  /\ Spend("fault") /\ rec.pc # "idle"
  /\ ReturnError
  /\ UNCHANGED <<seen, password, timer, online>>

Reconcile ==
  \/ StartReconcile \/ AddFinalizer \/ ReconcileConfig \/ ReconcilePVC \/ ReconcileSidecarRBAC
  \/ ReconcileNetworkPolicy \/ ReconcileStatefulSet \/ ReconcileService \/ UpdateStatus

-----------------------------------------------------------------------------
(* Caches and work queue.                                                   *)

SyncCR ==
  /\ ~fresh.seen
  /\ seen' = cr /\ fresh' = [fresh EXCEPT !.seen = TRUE] /\ queued' = TRUE
  /\ UNCHANGED <<cr, password, childVars, rec, timer, online, spent>>

SyncChild ==
  /\ event
  /\ event' = FALSE /\ queued' = TRUE
  /\ UNCHANGED <<cr, seen, fresh, password, config, configSeen, pvc, rbac, netpol,
                 service, sts, rec, timer, online, spent>>

\* The config Secret is neither owned nor referenced by a spec: nothing is queued.
SyncConfig ==
  /\ ~fresh.config
  /\ configSeen' = config /\ fresh' = [fresh EXCEPT !.config = TRUE]
  /\ UNCHANGED <<cr, seen, password, config, pvc, rbac, netpol, service, sts,
                 event, rec, queued, timer, online, spent>>

TimerFires ==
  /\ timer
  /\ timer' = FALSE /\ queued' = TRUE
  /\ UNCHANGED <<cr, seen, fresh, password, childVars, rec, online, spent>>

-----------------------------------------------------------------------------
(* The user, the cluster and the players.                                   *)

UserEdit(r) ==
  /\ Spend("edit")
  /\ \E s \in Updated(cr.spec, r) : s # cr.spec /\ StoreCR([cr EXCEPT !.spec = s])
  /\ UNCHANGED <<seen, password, childVars, rec, queued, timer, online>>

\* The group's Secret changes; it is mapped to servers whose cached spec names it.
PasswordChange(v) ==
  /\ Spend("secret") /\ v # password
  /\ password' = v
  /\ queued' = (queued \/ seen.spec.groups)
  /\ UNCHANGED <<cr, seen, fresh, childVars, rec, timer, online>>

PodBecomes(new) ==
  /\ sts' = new
  /\ event' = TRUE
  /\ online' = 0
  /\ UNCHANGED <<cr, seen, fresh, password, config, configSeen, pvc, rbac, netpol,
                 service, rec, queued, timer>>

\* The StatefulSet controller, OrderedReady by default: a pod that is ready is replaced
\* when its revision is old, one that is not is waited for.
RollPod ==
  /\ sts.pod = "ready" /\ sts.rev # sts.tmpl
  /\ PodBecomes([sts EXCEPT !.pod = "none"])
  /\ UNCHANGED spent

Evict ==
  /\ Spend("evict") /\ sts.pod = "ready"
  /\ PodBecomes([sts EXCEPT !.pod = "none"])

\* A pod that names a missing ServiceAccount is not created ...
CreatePod ==
  /\ sts.exists /\ sts.pod = "none"
  /\ sts.tmpl.sidecar => "account" \in rbac
  /\ PodBecomes([sts EXCEPT !.pod = "pending", !.rev = sts.tmpl])
  /\ UNCHANGED spent

\* ... and one that names a missing volume or Secret does not start.
VolumesExist(template) == pvc # 0 /\ (template.mount => config # NoConfig)

StartPod ==
  /\ sts.pod = "pending" /\ VolumesExist(sts.rev)
  /\ PodBecomes([sts EXCEPT !.pod = "ready",
                            !.loaded = IF sts.rev.mount THEN config ELSE NoConfig])
  /\ UNCHANGED spent

Join ==
  /\ Spend("join") /\ sts.pod = "ready" /\ online < MaxPlayers
  /\ online' = online + 1
  /\ UNCHANGED <<cr, seen, fresh, password, childVars, rec, queued, timer>>

Leave ==
  /\ online > 0
  /\ online' = online - 1
  /\ UNCHANGED <<cr, seen, fresh, password, childVars, rec, queued, timer, spent>>

\* The sidecar of a pod that runs or starts reports, once it may.
SidecarReports ==
  /\ sts.pod = "ready" \/ (sts.pod = "pending" /\ VolumesExist(sts.rev))
  /\ sts.rev.sidecar
  /\ rbac = RBACObjects /\ cr.players # online
  /\ StoreCR([cr EXCEPT !.players = online])
  /\ UNCHANGED <<seen, password, childVars, rec, queued, timer, online, spent>>

Next ==
  \/ Reconcile \/ ChildConflict \/ ApiFault \/ SyncCR \/ SyncChild \/ SyncConfig \/ TimerFires
  \/ \E r \in Requests : UserEdit(r)
  \/ \E v \in 0 .. MaxSecret : PasswordChange(v)
  \/ RollPod \/ Evict \/ CreatePod \/ StartPod \/ Join \/ Leave \/ SidecarReports

Fairness ==
  /\ WF_vars(Reconcile) /\ WF_vars(SyncCR) /\ WF_vars(SyncChild) /\ WF_vars(SyncConfig)
  /\ WF_vars(TimerFires) /\ WF_vars(RollPod) /\ WF_vars(CreatePod) /\ WF_vars(StartPod)
  /\ WF_vars(SidecarReports)

Spec == Init /\ [][Next]_vars

FairSpec == Spec /\ Fairness

-----------------------------------------------------------------------------
(* Properties.                                                              *)

Port == {"query", "steam", "metrics"} \X {"UDP", "TCP"} \X Nat

Ports == SUBSET Port

ConfigType == {NoConfig} \cup (Nat \X (1 .. MaxSecret))

Template == [ports : Ports, mount : BOOLEAN, sidecar : BOOLEAN, hash : ConfigType]

ServerType == [spec : SpecType, fin : BOOLEAN, players : 0 .. MaxPlayers, deferred : BOOLEAN]

StatefulSetType == [exists : BOOLEAN, tmpl : Template, rev : Template,
                    pod : {"none", "pending", "ready"}, loaded : ConfigType]

RecType == [pc : {"idle", "finalizer", "config", "pvc", "account", "role", "binding", "netpol",
                  "statefulset", "service", "status"},
            spec : SpecType, players : 0 .. MaxPlayers, hash : ConfigType, deferred : BOOLEAN]

FreshType == [seen : BOOLEAN, server : BOOLEAN, config : BOOLEAN]

\* Types; a config is only ever written with a password of an existing Secret.
TypeOK ==
  /\ cr \in ServerType /\ seen \in ServerType /\ rec \in RecType /\ fresh \in FreshType
  /\ config \in ConfigType /\ configSeen \in ConfigType /\ sts \in StatefulSetType
  /\ pvc \in Int /\ rbac \subseteq RBACObjects /\ password \in 0 .. MaxSecret
  /\ netpol \in Ports /\ service \in Ports
  /\ event \in BOOLEAN /\ queued \in BOOLEAN /\ timer \in BOOLEAN
  /\ online \in 0 .. MaxPlayers

Rest == rec.pc = "idle" /\ ~queued /\ ~timer /\ fresh.seen /\ ~event

\* What the server should run: the spec as the webhook would have stored it.
Wanted == Default(cr.spec)

WantedConfig == IF Wanted.groups THEN ConfigOf(Wanted, password) ELSE NoConfig

\* Ports of policy, service and pod, mount and hash of the config, its content, and the
\* account the pod runs under are those of one spec; and there is a volume for the saves.
ChildrenAgree ==
  /\ pvc # 0 /\ sts.exists /\ sts.tmpl = TemplateOf(Wanted, WantedConfig)
  /\ netpol = OpenPorts(Wanted) /\ service = PortsOf(Wanted)
  /\ Wanted.groups => config = WantedConfig
  /\ Wanted.sidecar => rbac = RBACObjects

\* Once the operator has nothing left to do, all children agree with the stored spec,
\* however edits, password changes and failures interleaved with the steps that
\* built them.
RestChildrenAgree == Rest => ChildrenAgree

\* The operator does not keep itself busy: a reconcile of children that agree, with no
\* other one asked for, writes none of them, and so causes no event that would start
\* the next.
AgreedIsQuiet ==
  [][ChildrenAgree /\ fresh.seen /\ ~queued /\ ~queued' /\ rec' # rec
     => /\ UNCHANGED <<pvc, rbac, netpol, service, sts, event>>
        /\ Wanted.groups => config' = config]_vars

\* The webhook, asked again by the operator's own update of a server, never refuses what
\* it has admitted before.
OperatorIsAdmitted ==
  rec.pc = "finalizer" /\ fresh.server => Updated(cr.spec, rec.spec) # {}

OneRole(ports) == \A p, q \in ports : p[2] = q[2] /\ p[3] = q[3] => p[1] = q[1]

\* No port has two roles, whichever of the two a sequence of edits left to its default,
\* although policy and service may be built from different specs.
PortsStayApart == OneRole(netpol) /\ OneRole(service) /\ OneRole(sts.tmpl.ports)

UpToDate == sts.pod = "ready" /\ sts.rev = TemplateOf(Wanted, WantedConfig)

\* A pod of an old template waits for a config Secret that is gone.  Nothing replaces it
\* as long as it is not ready: when userGroups is removed, for good.
Stranded == sts.pod = "pending" /\ sts.rev # sts.tmpl /\ ~VolumesExist(sts.rev)

\* A server reported empty for good, whose pod is not left stranded, ends up running what
\* its spec asks for, although the config it mounts is written, removed and rewritten
\* while pods of older templates wait for it.
ServerComesUp ==
  <>[](cr.players = 0 /\ (cr.spec.groups => password # 0) /\ ~Stranded) => <>[]UpToDate

\* A copy with the live resourceVersion has the spec of the stored object.
CopiesAgree == /\ fresh.seen => seen = cr
               /\ fresh.server /\ rec.pc = "finalizer" => rec.spec = cr.spec

\* Ports as the operator uses them, absent ones included.
Apart(s) == Or(s.port, DefaultPort) # Or(s.steam, DefaultSteamPort)

\* A spec is used for children only after its finalizer has been through admission.
AdmittedFirst ==
  /\ cr.fin => Apart(cr.spec)
  /\ seen.fin => Apart(seen.spec)
  /\ rec.pc \notin {"idle", "finalizer", "status"} => Apart(rec.spec)

-----------------------------------------------------------------------------
(* What comments and documentation say and the code does not do.            *)

\* "pending updates are held back while players are connected" (README.md:11).  Only the
\* StatefulSet is: the policy closes the port the players are connected to.
PlayersKeepTheirPort ==
  online > 0 /\ cr.players > 0 /\ cr.spec.defer => sts.rev.ports \subseteq netpol

\* "The operator will requeue and retry every requeueInterval until the server is empty"
\* (enshroudedserver_types.go:322): an update deferred for players is applied once
\* they have left.  A pod that cannot start without its config reports nothing.
DeferredUpdateIsApplied ==
  <>[](online = 0 /\ (cr.spec.groups => password # 0) /\ ~Stranded) => <>[]UpToDate

\* "Automatic StatefulSet + Service - the operator manages the underlying Kubernetes
\* objects" (README.md:8): an empty server ends up running what its spec asks for,
\* a stranded pod or not.
EmptyServerComesUp ==
  <>[](cr.players = 0 /\ (cr.spec.groups => password # 0)) => <>[]UpToDate

\* "Clean up config Secret when UserGroups is removed" (enshroudedserver_controller.go:134).
NoLeftoverConfig == Rest /\ fresh.config /\ ~Wanted.groups => config = NoConfig

\* "Returns the SHA-256 hash of the config content (used as pod annotation for rolling
\* restarts)" (enshroudedserver_controller.go:366): a pod of the current
\* template runs with the current config.
LoadedConfigIsCurrent ==
  Rest /\ sts.pod = "ready" /\ sts.rev = sts.tmpl => sts.loaded = WantedConfig

\* "size is the size of the PersistentVolumeClaim for save data"
\* (enshroudedserver_types.go:43), also after it was increased.
VolumeFollowsSpec == Rest => pvc = Wanted.size
=============================================================================
