----------------------------- MODULE ChildProofs -----------------------------
(* What admission lets through is admitted again, what the operator makes   *)
(* of it never opens one port for two purposes, and once it rests all       *)
(* children agree with the spec.                                            *)
EXTENDS ChildObjects, TLAPS

-----------------------------------------------------------------------------
(* Admission.                                                               *)

Stored(s) == Default(SchemaDefault(s))

\* What the webhook will say of a stored spec that is sent again.
Admissible(s) == Valid(Stored(s))

LEMMA DefaultsDiffer == DefaultPort \in Nat \ {0} /\ DefaultSteamPort \in Nat \ {0}
                        /\ DefaultSize \in Nat \ {0}
BY DEF DefaultPort, DefaultSteamPort, DefaultSize

LEMMA OrTwice ==
  ASSUME NEW v \in Int, NEW d \in Nat \ {0}
  PROVE  Or(v, d) # 0 /\ Or(Or(v, d), d) = Or(v, d) /\ Or(v, d) \in Int
         /\ (v \in Nat => Or(v, d) \in Nat)
BY DEF Or

\* Schema and webhook fill in the same port defaults.
LEMMA StoredFields ==
  ASSUME NEW s \in SpecType
  PROVE  /\ Stored(s) \in SpecType
         /\ Stored(s).port = Or(s.port, DefaultPort)
         /\ Stored(s).steam = Or(s.steam, DefaultSteamPort)
         /\ Stored(s).size = Or(s.size, DefaultSize)
         /\ Stored(s).wellFormed = s.wellFormed
<1> DEFINE a == SchemaDefault(s)
<1>1. /\ Or(s.port, DefaultPort) \in Nat /\ Or(s.steam, DefaultSteamPort) \in Nat
      /\ Or(s.size, DefaultSize) \in Int
      /\ Or(Or(s.port, DefaultPort), DefaultPort) = Or(s.port, DefaultPort)
      /\ Or(Or(s.steam, DefaultSteamPort), DefaultSteamPort) = Or(s.steam, DefaultSteamPort)
  BY OrTwice, DefaultsDiffer DEF SpecType
<1>2. /\ a \in SpecType
      /\ a.port = Or(s.port, DefaultPort) /\ a.steam = Or(s.steam, DefaultSteamPort)
      /\ a.size = s.size /\ a.wellFormed = s.wellFormed
  BY <1>1 DEF SchemaDefault, SpecType
<1>3. Stored(s) = [a EXCEPT !.port = Or(a.port, DefaultPort),
                            !.steam = Or(a.steam, DefaultSteamPort),
                            !.size = Or(a.size, DefaultSize)]
  BY DEF Stored, Default
<1>4. Stored(s) = [a EXCEPT !.port = a.port, !.steam = a.steam, !.size = Or(s.size, DefaultSize)]
  <2> HIDE DEF a
  <2> QED
    BY <1>1, <1>2, <1>3
<1> HIDE DEF a
<1>5. Stored(s) = [a EXCEPT !.size = Or(s.size, DefaultSize)]
  BY <1>2, <1>4 DEF SpecType
<1> QED
  BY <1>1, <1>2, <1>5 DEF SpecType

\* What is stored has ports of its own, and passes admission unchanged.
LEMMA ValidIsApart ==
  ASSUME NEW s \in SpecType, Valid(Stored(s))
  PROVE  Apart(Stored(s)) /\ Admissible(Stored(s))
<1> DEFINE t == Stored(s)
<1> DEFINE u == Stored(t)
<1>1. t \in SpecType /\ t.port # 0 /\ t.steam # 0 /\ t.size # 0
  BY StoredFields, OrTwice, DefaultsDiffer DEF SpecType
<1>2. t.port # t.steam
  BY <1>1 DEF Valid
<1>3. Apart(t)
  BY <1>1, <1>2 DEF Apart, Or
<1>4. u.port = t.port /\ u.steam = t.steam /\ u.size = t.size /\ u.wellFormed = t.wellFormed
  BY <1>1, StoredFields DEF Or
<1>5. Valid(t)
  OBVIOUS
<1> HIDE DEF t, u
<1>6. Valid(u)
  BY <1>4, <1>5 DEF Valid
<1> QED
  BY <1>3, <1>6 DEF Admissible, t, u

LEMMA UpdatedIsApart ==
  ASSUME NEW old, NEW s \in SpecType, NEW t \in Updated(old, s)
  PROVE  t \in SpecType /\ Apart(t) /\ Admissible(t)
<1>1. t = Stored(s) /\ Valid(t)
  BY DEF Updated, ValidUpdate, Stored
<1> QED
  BY <1>1, StoredFields, ValidIsApart

\* An update that leaves the spec alone is not refused.
LEMMA Readmitted ==
  ASSUME NEW s \in SpecType, Admissible(s)
  PROVE  Updated(s, s) # {}
<1>1. Stored(s).size = Or(s.size, DefaultSize)
  BY StoredFields
<1>2. s.size # 0 => Stored(s).size >= s.size
  BY <1>1 DEF Or, SpecType
<1>3. ValidUpdate(s, Stored(s))
  BY <1>2 DEF ValidUpdate, Admissible
<1> QED
  BY <1>3 DEF Updated, Stored

-----------------------------------------------------------------------------
(* Ports.                                                                   *)

LEMMA PortValues ==
  ASSUME NEW s \in SpecType
  PROVE  PortsOf(s) \in Ports /\ OpenPorts(s) \in Ports
<1> DEFINE q == <<"query", "UDP", Or(s.port, DefaultPort)>>
           t == <<"steam", "UDP", Or(s.steam, DefaultSteamPort)>>
           m == <<"metrics", "TCP", 9090>>
<1>1. Or(s.port, DefaultPort) \in Nat /\ Or(s.steam, DefaultSteamPort) \in Nat
  BY OrTwice, DefaultsDiffer DEF SpecType
<1>2. q \in Port /\ t \in Port /\ m \in Port
  BY <1>1 DEF Port
<1>3. PortsOf(s) = {q, t} /\ OpenPorts(s) \subseteq {q, t, m}
  BY DEF PortsOf, OpenPorts
<1> HIDE DEF q, t, m
<1> QED
  BY <1>2, <1>3 DEF Ports

LEMMA PortRoles ==
  ASSUME NEW s \in SpecType, Apart(s)
  PROVE  OneRole(PortsOf(s)) /\ OneRole(OpenPorts(s))
<1> DEFINE n == Or(s.port, DefaultPort)
           k == Or(s.steam, DefaultSteamPort)
           q == <<"query", "UDP", n>>
           t == <<"steam", "UDP", k>>
           m == <<"metrics", "TCP", 9090>>
<1>1. n # k
  BY DEF Apart
<1>2. /\ q[1] = "query" /\ q[2] = "UDP" /\ q[3] = n
      /\ t[1] = "steam" /\ t[2] = "UDP" /\ t[3] = k
      /\ m[1] = "metrics" /\ m[2] = "TCP" /\ m[3] = 9090
  OBVIOUS
<1>3. PortsOf(s) = {q, t} /\ OpenPorts(s) \subseteq {q, t, m}
  BY DEF PortsOf, OpenPorts
<1> HIDE DEF n, k, q, t, m
<1>4. OneRole({q, t, m})
  BY <1>1, <1>2 DEF OneRole
<1> QED
  BY <1>3, <1>4 DEF OneRole

-----------------------------------------------------------------------------
(* Records.                                                                 *)

LEMMA NoSpecType == NoSpec \in SpecType
BY DEF NoSpec, SpecType

LEMMA IdleType == Idle \in RecType /\ Idle.pc = "idle"
<1>1. 0 \in 0 .. MaxPlayers
  BY ChildBounds
<1>2. Idle \in RecType
  BY <1>1, NoSpecType DEF Idle, RecType, ConfigType
<1> QED
  BY <1>2 DEF Idle

LEMMA NoStatefulSetType ==
  NoStatefulSet \in StatefulSetType /\ NoStatefulSet.tmpl.ports = {}
<1>1. NoTemplate \in Template
  BY DEF NoTemplate, Template, NoPorts, Ports, ConfigType
<1>2. NoStatefulSet \in StatefulSetType
  BY <1>1 DEF NoStatefulSet, StatefulSetType, ConfigType
<1> QED
  BY <1>2 DEF NoStatefulSet, NoTemplate, NoPorts

LEMMA TemplateType ==
  ASSUME NEW s \in SpecType, NEW h \in ConfigType
  PROVE  TemplateOf(s, h) \in Template /\ TemplateOf(s, h).ports = PortsOf(s)
<1>1. s.groups \in BOOLEAN /\ s.sidecar \in BOOLEAN /\ PortsOf(s) \in Ports
  BY PortValues DEF SpecType
<1> QED
  BY <1>1 DEF TemplateOf, Template

LEMMA GotoFields ==
  ASSUME rec \in RecType, NEW step, Goto(step)
  PROVE  /\ rec'.pc = step /\ rec'.spec = rec.spec /\ rec'.players = rec.players
         /\ rec'.hash = rec.hash /\ rec'.deferred = rec.deferred
BY DEF RecType, Goto

LEMMA GotoType ==
  ASSUME rec \in RecType, NEW step \in {"config", "pvc", "account", "role", "binding", "netpol",
                                       "statefulset"}, Goto(step)
  PROVE  rec' \in RecType
BY DEF RecType, Goto

LEMMA StoreCRFields ==
  ASSUME fresh \in FreshType, NEW new, StoreCR(new)
  PROVE  /\ fresh' \in FreshType /\ cr' = new
         /\ fresh'.seen => fresh.seen /\ cr' = cr
         /\ fresh'.server => fresh.server /\ cr' = cr
BY DEF FreshType, StoreCR

LEMMA StoreConfigFields ==
  ASSUME fresh \in FreshType, NEW new, StoreConfig(new)
  PROVE  /\ fresh' \in FreshType /\ config' = new
         /\ fresh'.seen = fresh.seen /\ fresh'.server = fresh.server
<1> DEFINE same == new = config
<1>1. same \in BOOLEAN /\ fresh' = [fresh EXCEPT !.config = @ /\ same]
  BY DEF StoreConfig
<1> HIDE DEF same
<1>2. fresh' \in FreshType /\ fresh'.seen = fresh.seen /\ fresh'.server = fresh.server
  BY <1>1 DEF FreshType
<1> QED
  BY <1>2 DEF StoreConfig

LEMMA StatusFields ==
  ASSUME fresh \in FreshType, fresh' = [fresh EXCEPT !.seen = @ /\ cr' = cr, !.server = FALSE]
  PROVE  fresh' \in FreshType /\ (fresh'.seen => fresh.seen /\ cr' = cr)
<1> DEFINE same == cr' = cr
<1>1. same \in BOOLEAN /\ fresh' = [fresh EXCEPT !.seen = @ /\ same, !.server = FALSE]
  OBVIOUS
<1> HIDE DEF same
<1>2. fresh' \in FreshType /\ fresh'.seen = (fresh.seen /\ same)
  BY <1>1 DEF FreshType
<1> QED
  BY <1>2 DEF same

LEMMA ErrorFields ==
  ASSUME fresh \in FreshType, ReturnError
  PROVE  /\ fresh' \in FreshType /\ fresh'.seen = fresh.seen
         /\ rec' = Idle /\ queued' = TRUE /\ UNCHANGED <<cr, childVars>>
<1>1. fresh' = [fresh EXCEPT !.server = FALSE]
  BY DEF ReturnError
<1>2. fresh' \in FreshType /\ fresh'.seen = fresh.seen
  BY <1>1 DEF FreshType
<1> QED
  BY <1>2 DEF ReturnError

LEMMA ConfigValue ==
  ASSUME rec \in RecType, password \in 0 .. MaxSecret, password # 0
  PROVE  ConfigOf(rec.spec, password) \in ConfigType
<1>1. rec.spec.port \in Nat /\ password \in 1 .. MaxSecret
  BY ChildBounds DEF RecType, SpecType
<1>2. Or(rec.spec.port, DefaultPort) \in Nat
  BY <1>1, OrTwice, DefaultsDiffer
<1> QED
  BY <1>1, <1>2 DEF ConfigOf, ConfigType

-----------------------------------------------------------------------------
(* The objects: the server, its copies, and the reconcile.                  *)

ObjectInv ==
  /\ cr \in ServerType /\ seen \in ServerType /\ rec \in RecType /\ fresh \in FreshType
  /\ CopiesAgree /\ AdmittedFirst

LEMMA ErrorObjects ==
  ASSUME ObjectInv, ReturnError, seen' = seen
  PROVE  ObjectInv'
<1>1. rec' \in RecType /\ rec'.pc = "idle"
  BY ErrorFields, IdleType DEF ObjectInv
<1> QED
  BY <1>1, ErrorFields DEF ObjectInv, CopiesAgree, AdmittedFirst

\* A step that goes on with the spec it has.
LEMMA BuildObjects ==
  ASSUME ObjectInv, rec.pc \notin {"idle", "finalizer", "status"}, rec' \in RecType,
         rec'.pc \notin {"idle", "finalizer"}, rec'.spec = rec.spec \/ rec'.pc = "status",
         fresh' \in FreshType, fresh'.seen = fresh.seen, UNCHANGED <<cr, seen>>
  PROVE  ObjectInv'
BY DEF ObjectInv, CopiesAgree, AdmittedFirst

LEMMA ConfigObjects ==
  ASSUME TypeOK, ObjectInv, ReconcileConfig
  PROVE  ObjectInv'
<1>1. CASE ReturnError
  BY <1>1, ErrorObjects DEF ReconcileConfig
<1>2. CASE rec.spec.groups /\ ~ReturnError
  <2>1. /\ password # 0 /\ StoreConfig(ConfigOf(rec.spec, password)) /\ cr' = cr
        /\ rec' = [rec EXCEPT !.pc = "pvc", !.hash = ConfigOf(rec.spec, password)]
    BY <1>2 DEF ReconcileConfig, WriteConfig
  <2>2. ConfigOf(rec.spec, password) \in ConfigType
    BY <2>1, ConfigValue DEF TypeOK
  <2>3. rec' \in RecType /\ rec'.pc = "pvc" /\ rec'.spec = rec.spec
    BY <2>1, <2>2 DEF ObjectInv, RecType
  <2>4. fresh' \in FreshType /\ fresh'.seen = fresh.seen
    BY <2>1, StoreConfigFields DEF ObjectInv
  <2> QED
    BY <2>1, <2>3, <2>4, BuildObjects DEF ReconcileConfig
<1>3. CASE ~rec.spec.groups
  <2>1. Goto("pvc") /\ cr' = cr
        /\ StoreConfig(IF configSeen = NoConfig THEN config ELSE NoConfig)
    BY <1>3 DEF ReconcileConfig, CleanupConfig
  <2>2. fresh' \in FreshType /\ fresh'.seen = fresh.seen
    BY <2>1, StoreConfigFields DEF ObjectInv
  <2>3. rec' \in RecType /\ rec'.pc = "pvc" /\ rec'.spec = rec.spec
    BY <2>1, GotoFields, GotoType DEF ObjectInv
  <2> QED
    BY <2>1, <2>2, <2>3, BuildObjects DEF ReconcileConfig
<1> QED
  BY <1>1, <1>2, <1>3

LEMMA LaterObjects ==
  ASSUME TypeOK, ObjectInv,
         ReconcilePVC \/ ReconcileSidecarRBAC \/ ReconcileNetworkPolicy \/ ReconcileStatefulSet
         \/ ReconcileService
  PROVE  ObjectInv'
<1>0. UNCHANGED <<cr, seen, fresh>> /\ rec.pc \notin {"idle", "finalizer", "status"}
  BY DEF ReconcilePVC, ReconcileSidecarRBAC, ReconcileRBAC, ReconcileNetworkPolicy,
         ReconcileStatefulSet, ReconcileService
<1>1. CASE ReconcilePVC \/ ReconcileSidecarRBAC \/ ReconcileNetworkPolicy
  <2>1. PICK step \in {"account", "role", "binding", "netpol", "statefulset"} : Goto(step)
    BY <1>1 DEF ReconcilePVC, ReconcileSidecarRBAC, ReconcileRBAC, ReconcileNetworkPolicy
  <2>2. rec' \in RecType /\ rec'.pc = step /\ rec'.spec = rec.spec
    BY <2>1, GotoFields, GotoType DEF ObjectInv
  <2> QED
    BY <1>0, <2>2, BuildObjects DEF ObjectInv
<1>2. CASE ReconcileStatefulSet
  <2>1. rec' = [Idle EXCEPT !.pc = "service", !.spec = rec.spec, !.deferred = HoldBack]
    BY <1>2 DEF ReconcileStatefulSet
  <2>2. HoldBack \in BOOLEAN
    BY DEF HoldBack, ObjectInv, RecType, SpecType
  <2>3. rec' \in RecType /\ rec'.pc = "service" /\ rec'.spec = rec.spec
    BY <2>1, <2>2, IdleType DEF ObjectInv, RecType
  <2> QED
    BY <1>0, <2>3, BuildObjects DEF ObjectInv
<1>3. CASE ReconcileService
  <2>1. rec' = [Idle EXCEPT !.pc = "status", !.deferred = rec.deferred]
    BY <1>3 DEF ReconcileService
  <2>2. rec' \in RecType /\ rec'.pc = "status"
    BY <2>1, IdleType DEF ObjectInv, RecType
  <2> QED
    BY <1>0, <2>2, BuildObjects DEF ObjectInv
<1> QED
  BY <1>1, <1>2, <1>3

LEMMA StartObjects ==
  ASSUME ObjectInv, StartReconcile
  PROVE  ObjectInv'
<1> DEFINE step == IF seen.fin THEN "config" ELSE "finalizer"
<1>1. /\ rec' = [rec EXCEPT !.pc = step, !.spec = seen.spec, !.players = seen.players]
      /\ fresh' = [fresh EXCEPT !.server = fresh.seen] /\ UNCHANGED <<cr, seen>>
  BY DEF StartReconcile
<1>2. step \in {"config", "finalizer"} /\ (step = "config" => seen.fin)
  OBVIOUS
<1> HIDE DEF step
<1>3. seen.spec \in SpecType /\ seen.players \in 0 .. MaxPlayers
  BY DEF ObjectInv, ServerType
<1>4. rec' \in RecType /\ rec'.pc = step /\ rec'.spec = seen.spec
  BY <1>1, <1>2, <1>3 DEF ObjectInv, RecType
<1>5. fresh' \in FreshType /\ fresh'.seen = fresh.seen /\ fresh'.server = fresh.seen
  BY <1>1 DEF ObjectInv, FreshType
<1> QED
  BY <1>1, <1>2, <1>4, <1>5 DEF ObjectInv, CopiesAgree, AdmittedFirst

LEMMA FinalizerObjects ==
  ASSUME ObjectInv, AddFinalizer
  PROVE  ObjectInv'
<1>1. CASE ReturnError
  BY <1>1, ErrorObjects DEF AddFinalizer
<1>2. CASE ~ReturnError
  <2>1. PICK s \in Updated(cr.spec, rec.spec) :
          /\ cr' = [cr EXCEPT !.spec = s, !.fin = TRUE]
          /\ fresh' = [fresh EXCEPT !.seen = FALSE]
          /\ rec' = [rec EXCEPT !.pc = "config", !.spec = s]
    BY <1>2 DEF AddFinalizer
  <2>2. s \in SpecType /\ Apart(s)
    BY UpdatedIsApart DEF ObjectInv, RecType
  <2>3. cr' \in ServerType /\ cr'.spec = s
    BY <2>1, <2>2 DEF ObjectInv, ServerType
  <2>4. fresh' \in FreshType /\ ~fresh'.seen
    BY <2>1 DEF ObjectInv, FreshType
  <2>5. rec' \in RecType /\ rec'.pc = "config" /\ rec'.spec = s
    BY <2>1, <2>2 DEF ObjectInv, RecType
  <2>6. seen' = seen
    BY DEF AddFinalizer
  <2> QED
    BY <2>2, <2>3, <2>4, <2>5, <2>6 DEF ObjectInv, CopiesAgree, AdmittedFirst
<1> QED
  BY <1>1, <1>2

LEMMA StatusObjects ==
  ASSUME ObjectInv, UpdateStatus
  PROVE  ObjectInv'
<1>1. CASE ReturnError
  BY <1>1, ErrorObjects DEF UpdateStatus
<1>2. CASE ~ReturnError
  <2>1. /\ cr' = [cr EXCEPT !.deferred = rec.deferred]
        /\ fresh' = [fresh EXCEPT !.seen = @ /\ cr' = cr, !.server = FALSE]
        /\ rec' = Idle /\ seen' = seen
    BY <1>2 DEF UpdateStatus
  <2>2. fresh' \in FreshType /\ (fresh'.seen => fresh.seen /\ cr' = cr)
    BY <2>1, StatusFields DEF ObjectInv
  <2>3. rec.deferred \in BOOLEAN
    BY DEF ObjectInv, RecType
  <2>4. cr' \in ServerType /\ cr'.spec = cr.spec /\ cr'.fin = cr.fin
    BY <2>1, <2>3 DEF ObjectInv, ServerType
  <2> QED
    BY <2>1, <2>2, <2>4, IdleType DEF ObjectInv, CopiesAgree, AdmittedFirst
<1> QED
  BY <1>1, <1>2

\* Writers of the server other than the operator.
LEMMA StoreObjects ==
  ASSUME ObjectInv, NEW new \in ServerType, StoreCR(new), UNCHANGED <<seen, rec>>,
         new.fin => Apart(new.spec)
  PROVE  ObjectInv'
<1>1. /\ fresh' \in FreshType /\ cr' = new
      /\ fresh'.seen => fresh.seen /\ cr' = cr
      /\ fresh'.server => fresh.server /\ cr' = cr
  BY StoreCRFields DEF ObjectInv
<1>2. CopiesAgree'
  BY <1>1 DEF ObjectInv, CopiesAgree
<1>3. AdmittedFirst'
  BY <1>1 DEF ObjectInv, AdmittedFirst
<1> QED
  BY <1>1, <1>2, <1>3 DEF ObjectInv

LEMMA EditObjects ==
  ASSUME ObjectInv, NEW r \in Requests, UserEdit(r)
  PROVE  ObjectInv'
<1>1. PICK s \in Updated(cr.spec, r) : StoreCR([cr EXCEPT !.spec = s])
  BY DEF UserEdit
<1>2. s \in SpecType /\ Apart(s)
  BY UpdatedIsApart, RequestsAssumption
<1> DEFINE new == [cr EXCEPT !.spec = s]
<1>3. new \in ServerType /\ new.spec = s
  BY <1>2 DEF ObjectInv, ServerType
<1>4. StoreCR(new) /\ UNCHANGED <<seen, rec>>
  BY <1>1 DEF UserEdit
<1> HIDE DEF new
<1> QED
  BY <1>2, <1>3, <1>4, StoreObjects

LEMMA ReportObjects ==
  ASSUME TypeOK, ObjectInv, SidecarReports
  PROVE  ObjectInv'
<1> DEFINE new == [cr EXCEPT !.players = online]
<1>1. online \in 0 .. MaxPlayers
  BY DEF TypeOK
<1>2. new \in ServerType /\ new.spec = cr.spec /\ new.fin = cr.fin
  BY <1>1 DEF ObjectInv, ServerType
<1>3. StoreCR(new) /\ UNCHANGED <<seen, rec>>
  BY DEF SidecarReports
<1>4. cr.fin => Apart(cr.spec)
  BY DEF ObjectInv, AdmittedFirst
<1> HIDE DEF new
<1> QED
  BY <1>2, <1>3, <1>4, StoreObjects

LEMMA CacheObjects ==
  ASSUME ObjectInv, SyncCR \/ SyncConfig
  PROVE  ObjectInv'
<1>1. UNCHANGED <<cr, rec>>
  BY DEF SyncCR, SyncConfig
<1>2. CASE SyncCR
  <2>1. seen' = cr /\ fresh' = [fresh EXCEPT !.seen = TRUE]
    BY <1>2 DEF SyncCR
  <2>2. fresh' \in FreshType /\ fresh'.server = fresh.server
    BY <2>1 DEF ObjectInv, FreshType
  <2> QED
    BY <1>1, <2>1, <2>2 DEF ObjectInv, CopiesAgree, AdmittedFirst
<1>3. CASE SyncConfig
  <2>1. seen' = seen /\ fresh' = [fresh EXCEPT !.config = TRUE]
    BY <1>3 DEF SyncConfig
  <2>2. fresh' \in FreshType /\ fresh'.server = fresh.server /\ fresh'.seen = fresh.seen
    BY <2>1 DEF ObjectInv, FreshType
  <2> QED
    BY <1>1, <2>1, <2>2 DEF ObjectInv, CopiesAgree, AdmittedFirst
<1> QED
  BY <1>2, <1>3

\* The steps that touch neither the server nor a copy of it.
Aside == \/ SyncChild \/ TimerFires \/ RollPod \/ Evict \/ CreatePod \/ StartPod \/ Join \/ Leave
         \/ \E v \in 0 .. MaxSecret : PasswordChange(v)

LEMMA AsideObjects ==
  ASSUME Aside \/ UNCHANGED vars
  PROVE  UNCHANGED <<cr, seen, fresh, rec>>
BY DEF Aside, SyncChild, TimerFires, RollPod, Evict, CreatePod, StartPod, Join, Leave,
       PasswordChange, PodBecomes, vars

LEMMA ObjectStep ==
  ASSUME TypeOK, ObjectInv, [Next]_vars
  PROVE  ObjectInv'
<1>1. CASE Reconcile
  BY <1>1, StartObjects, FinalizerObjects, ConfigObjects, LaterObjects, StatusObjects
     DEF Reconcile
<1>2. CASE ChildConflict \/ ApiFault
  BY <1>2, ErrorObjects DEF ChildConflict, ApiFault
<1>3. CASE SyncCR \/ SyncConfig
  BY <1>3, CacheObjects
<1>4. CASE \E r \in Requests : UserEdit(r)
  BY <1>4, EditObjects
<1>5. CASE SidecarReports
  BY <1>5, ReportObjects
<1>6. CASE Aside \/ UNCHANGED vars
  BY <1>6, AsideObjects DEF ObjectInv, CopiesAgree, AdmittedFirst
<1> QED
  BY <1>1, <1>2, <1>3, <1>4, <1>5, <1>6 DEF Next, Aside

-----------------------------------------------------------------------------
(* The children.                                                            *)

\* All steps but those named in the lemmas below.
LEMMA PolicyKept ==
  ASSUME [Next]_vars, ~ReconcileNetworkPolicy
  PROVE  netpol' = netpol
<1>1. ReturnError => netpol' = netpol
  BY DEF ReturnError, childVars
<1>2. CASE Reconcile
  BY <1>1, <1>2 DEF Reconcile, StartReconcile, AddFinalizer, ReconcileConfig, WriteConfig,
     CleanupConfig, ReconcilePVC, ReconcileSidecarRBAC, ReconcileRBAC, ReconcileStatefulSet,
     ReconcileService, UpdateStatus, childVars
<1>3. CASE ~Reconcile
  BY <1>1, <1>3 DEF Next, ChildConflict, ApiFault, SyncCR, SyncChild, SyncConfig, TimerFires,
     UserEdit, PasswordChange, RollPod, Evict, CreatePod, StartPod, PodBecomes, Join, Leave,
     SidecarReports, childVars, vars
<1> QED
  BY <1>2, <1>3

LEMMA ServiceKept ==
  ASSUME [Next]_vars, ~ReconcileService
  PROVE  service' = service
<1>1. ReturnError => service' = service
  BY DEF ReturnError, childVars
<1>2. CASE Reconcile
  BY <1>1, <1>2 DEF Reconcile, StartReconcile, AddFinalizer, ReconcileConfig, WriteConfig,
     CleanupConfig, ReconcilePVC, ReconcileSidecarRBAC, ReconcileRBAC, ReconcileStatefulSet,
     ReconcileNetworkPolicy, UpdateStatus, childVars
<1>3. CASE ~Reconcile
  BY <1>1, <1>3 DEF Next, ChildConflict, ApiFault, SyncCR, SyncChild, SyncConfig, TimerFires,
     UserEdit, PasswordChange, RollPod, Evict, CreatePod, StartPod, PodBecomes, Join, Leave,
     SidecarReports, childVars, vars
<1> QED
  BY <1>2, <1>3

LEMMA StatefulSetKept ==
  ASSUME [Next]_vars, ~ReconcileStatefulSet, ~RollPod, ~Evict, ~CreatePod, ~StartPod
  PROVE  sts' = sts
<1>1. ReturnError => sts' = sts
  BY DEF ReturnError, childVars
<1>2. CASE Reconcile
  BY <1>1, <1>2 DEF Reconcile, StartReconcile, AddFinalizer, ReconcileConfig, WriteConfig,
     CleanupConfig, ReconcilePVC, ReconcileSidecarRBAC, ReconcileRBAC, ReconcileService,
     ReconcileNetworkPolicy, UpdateStatus, childVars
<1>3. CASE ~Reconcile
  BY <1>1, <1>3 DEF Next, ChildConflict, ApiFault, SyncCR, SyncChild, SyncConfig, TimerFires,
     UserEdit, PasswordChange, Join, Leave, SidecarReports, childVars, vars
<1> QED
  BY <1>2, <1>3

PortSets == netpol \in Ports /\ service \in Ports /\ OneRole(netpol) /\ OneRole(service)

LEMMA PortSetStep ==
  ASSUME PortSets, ObjectInv, [Next]_vars
  PROVE  PortSets'
<1>1. ReconcileNetworkPolicy \/ ReconcileService => rec.spec \in SpecType /\ Apart(rec.spec)
  BY DEF ReconcileNetworkPolicy, ReconcileService, ObjectInv, AdmittedFirst, RecType
<1>2. netpol' \in Ports /\ OneRole(netpol')
  <2>1. CASE ReconcileNetworkPolicy
    <3>1. netpol' = OpenPorts(rec.spec)
      BY <2>1 DEF ReconcileNetworkPolicy
    <3> QED
      BY <1>1, <2>1, <3>1, PortValues, PortRoles
  <2>2. CASE ~ReconcileNetworkPolicy
    BY <2>2, PolicyKept DEF PortSets
  <2> QED
    BY <2>1, <2>2
<1>3. service' \in Ports /\ OneRole(service')
  <2>1. CASE ReconcileService
    <3>1. service' = PortsOf(rec.spec)
      BY <2>1 DEF ReconcileService
    <3> QED
      BY <1>1, <2>1, <3>1, PortValues, PortRoles
  <2>2. CASE ~ReconcileService
    BY <2>2, ServiceKept DEF PortSets
  <2> QED
    BY <2>1, <2>2
<1> QED
  BY <1>2, <1>3 DEF PortSets

StatefulSetInv == sts \in StatefulSetType /\ OneRole(sts.tmpl.ports)

LEMMA ApplyTemplate ==
  ASSUME StatefulSetInv, ObjectInv, ReconcileStatefulSet
  PROVE  StatefulSetInv'
<1> DEFINE t == TemplateOf(rec.spec, rec.hash)
<1>1. rec.spec \in SpecType /\ rec.hash \in ConfigType /\ Apart(rec.spec)
  BY DEF ReconcileStatefulSet, ObjectInv, AdmittedFirst, RecType
<1>2. t \in Template /\ OneRole(t.ports)
  BY <1>1, TemplateType, PortRoles
<1>3. \/ sts' = sts
      \/ sts' = [sts EXCEPT !.tmpl = t]
      \/ sts' = [NoStatefulSet EXCEPT !.exists = TRUE, !.tmpl = t, !.rev = t]
  BY DEF ReconcileStatefulSet
<1> HIDE DEF t
<1>4. CASE sts' = sts
  BY <1>4 DEF StatefulSetInv
<1>5. CASE sts' = [sts EXCEPT !.tmpl = t]
  BY <1>2, <1>5 DEF StatefulSetInv, StatefulSetType
<1>6. CASE sts' = [NoStatefulSet EXCEPT !.exists = TRUE, !.tmpl = t, !.rev = t]
  BY <1>2, <1>6, NoStatefulSetType DEF StatefulSetInv, StatefulSetType
<1> QED
  BY <1>3, <1>4, <1>5, <1>6

LEMMA PodSteps ==
  ASSUME StatefulSetInv, config \in ConfigType, RollPod \/ Evict \/ CreatePod \/ StartPod
  PROVE  StatefulSetInv'
<1> DEFINE c == IF sts.rev.mount THEN config ELSE NoConfig
<1>1. c \in ConfigType
  BY DEF ConfigType
<1>2. \/ sts' = [sts EXCEPT !.pod = "none"]
      \/ sts' = [sts EXCEPT !.pod = "pending", !.rev = sts.tmpl]
      \/ sts' = [sts EXCEPT !.pod = "ready", !.loaded = c]
  BY DEF RollPod, Evict, CreatePod, StartPod, PodBecomes
<1> HIDE DEF c
<1>3. CASE sts' = [sts EXCEPT !.pod = "none"]
  BY <1>3 DEF StatefulSetInv, StatefulSetType
<1>4. CASE sts' = [sts EXCEPT !.pod = "pending", !.rev = sts.tmpl]
  BY <1>4 DEF StatefulSetInv, StatefulSetType
<1>5. CASE sts' = [sts EXCEPT !.pod = "ready", !.loaded = c]
  BY <1>1, <1>5 DEF StatefulSetInv, StatefulSetType
<1> QED
  BY <1>2, <1>3, <1>4, <1>5

LEMMA StatefulSetStep ==
  ASSUME StatefulSetInv, config \in ConfigType, ObjectInv, [Next]_vars
  PROVE  StatefulSetInv'
<1>1. CASE ReconcileStatefulSet
  BY <1>1, ApplyTemplate
<1>2. CASE RollPod \/ Evict \/ CreatePod \/ StartPod
  BY <1>2, PodSteps
<1>3. CASE ~ReconcileStatefulSet /\ ~RollPod /\ ~Evict /\ ~CreatePod /\ ~StartPod
  BY <1>3, StatefulSetKept DEF StatefulSetInv
<1> QED
  BY <1>1, <1>2, <1>3

Configs == config \in ConfigType /\ configSeen \in ConfigType /\ password \in 0 .. MaxSecret

LEMMA WrittenConfig ==
  ASSUME Configs, ObjectInv, ReconcileConfig
  PROVE  config' \in ConfigType
<1>1. CASE ReturnError
  BY <1>1 DEF ReturnError, childVars, Configs
<1>2. CASE rec.spec.groups /\ ~ReturnError
  <2>1. password # 0 /\ config' = ConfigOf(rec.spec, password)
    BY <1>2 DEF ReconcileConfig, WriteConfig, StoreConfig
  <2> QED
    BY <2>1, ConfigValue DEF Configs, ObjectInv
<1>3. CASE ~rec.spec.groups
  <2>1. config' = config \/ config' = NoConfig
    BY <1>3 DEF ReconcileConfig, CleanupConfig, StoreConfig
  <2> QED
    BY <2>1 DEF Configs, ConfigType
<1> QED
  BY <1>1, <1>2, <1>3

LEMMA ConfigStep ==
  ASSUME Configs, ObjectInv, [Next]_vars
  PROVE  Configs'
<1>1. ReturnError => UNCHANGED <<config, configSeen>>
  BY DEF ReturnError, childVars
<1>2. CASE ReconcileConfig
  <2>1. UNCHANGED <<configSeen, password>>
    BY <1>1, <1>2 DEF ReconcileConfig, WriteConfig, CleanupConfig
  <2> QED
    BY <1>2, <2>1, WrittenConfig DEF Configs
<1>3. CASE Reconcile /\ ~ReconcileConfig
  <2>1. UNCHANGED <<config, configSeen, password>>
    BY <1>1, <1>3 DEF Reconcile, StartReconcile, AddFinalizer, ReconcilePVC,
       ReconcileSidecarRBAC, ReconcileRBAC, ReconcileNetworkPolicy, ReconcileStatefulSet,
       ReconcileService, UpdateStatus, childVars
  <2> QED
    BY <2>1 DEF Configs
<1>4. CASE SyncConfig
  BY <1>4 DEF SyncConfig, Configs
<1>5. ASSUME NEW v \in 0 .. MaxSecret, PasswordChange(v) PROVE Configs'
  BY <1>5 DEF PasswordChange, childVars, Configs
<1>6. CASE \/ ChildConflict \/ ApiFault \/ SyncCR \/ SyncChild \/ TimerFires
           \/ \E r \in Requests : UserEdit(r)
           \/ RollPod \/ Evict \/ CreatePod \/ StartPod \/ Join \/ Leave \/ SidecarReports
           \/ UNCHANGED vars
  <2>1. UNCHANGED <<config, configSeen, password>>
    BY <1>1, <1>6 DEF ChildConflict, ApiFault, SyncCR, SyncChild, TimerFires, UserEdit, RollPod,
       Evict, CreatePod, StartPod, PodBecomes, Join, Leave, SidecarReports, childVars, vars
  <2> QED
    BY <2>1 DEF Configs
<1> QED
  BY <1>2, <1>3, <1>4, <1>5, <1>6 DEF Next

Volumes == pvc \in Int /\ rbac \subseteq RBACObjects

LEMMA VolumeStep ==
  ASSUME Volumes, ObjectInv, [Next]_vars
  PROVE  Volumes'
<1>1. ReturnError => UNCHANGED <<pvc, rbac>>
  BY DEF ReturnError, childVars
<1>2. CASE ReconcilePVC
  <2>1. Or(rec.spec.size, DefaultSize) \in Int
    BY OrTwice, DefaultsDiffer DEF ObjectInv, RecType, SpecType
  <2>2. pvc' = Or(rec.spec.size, DefaultSize) \/ pvc' = pvc
    BY <1>2 DEF ReconcilePVC
  <2> QED
    BY <1>2, <2>1, <2>2 DEF ReconcilePVC, Volumes
<1>3. CASE ReconcileSidecarRBAC
  BY <1>3 DEF ReconcileSidecarRBAC, ReconcileRBAC, Volumes, RBACObjects
<1>4. CASE Reconcile /\ ~ReconcilePVC /\ ~ReconcileSidecarRBAC
  <2>1. UNCHANGED <<pvc, rbac>>
    BY <1>1, <1>4 DEF Reconcile, StartReconcile, AddFinalizer, ReconcileConfig, WriteConfig,
       CleanupConfig, ReconcileNetworkPolicy, ReconcileStatefulSet, ReconcileService,
       UpdateStatus, childVars
  <2> QED
    BY <2>1 DEF Volumes
<1>5. CASE ~Reconcile
  <2>1. UNCHANGED <<pvc, rbac>>
    BY <1>1, <1>5 DEF Next, ChildConflict, ApiFault, SyncCR, SyncChild, SyncConfig, TimerFires,
       UserEdit, PasswordChange, RollPod, Evict, CreatePod, StartPod, PodBecomes, Join, Leave,
       SidecarReports, childVars, vars
  <2> QED
    BY <2>1 DEF Volumes
<1> QED
  BY <1>2, <1>3, <1>4, <1>5 DEF Next, Reconcile

Flags == event \in BOOLEAN /\ queued \in BOOLEAN /\ timer \in BOOLEAN

LEMMA EventFlag ==
  ASSUME event \in BOOLEAN, [Next]_vars
  PROVE  event' \in BOOLEAN
<1>1. ReturnError => event' \in BOOLEAN
  BY DEF ReturnError, childVars
<1>2. ASSUME NEW c, Notify(c) PROVE event' \in BOOLEAN
  BY <1>2 DEF Notify
<1>3. CASE ReconcileSidecarRBAC
  BY <1>2, <1>3 DEF ReconcileSidecarRBAC, ReconcileRBAC
<1>4. CASE ReconcileNetworkPolicy \/ ReconcileStatefulSet \/ ReconcileService
  BY <1>2, <1>4 DEF ReconcileNetworkPolicy, ReconcileStatefulSet, ReconcileService
<1>5. CASE StartReconcile \/ AddFinalizer \/ ReconcileConfig \/ ReconcilePVC \/ UpdateStatus
  BY <1>1, <1>5 DEF StartReconcile, AddFinalizer, ReconcileConfig, WriteConfig,
     CleanupConfig, ReconcilePVC, UpdateStatus, childVars
<1>6. CASE RollPod \/ Evict \/ CreatePod \/ StartPod
  BY <1>6 DEF RollPod, Evict, CreatePod, StartPod, PodBecomes
<1>7. CASE \/ ChildConflict \/ ApiFault \/ SyncCR \/ SyncChild \/ SyncConfig \/ TimerFires
           \/ \E r \in Requests : UserEdit(r)
           \/ \E v \in 0 .. MaxSecret : PasswordChange(v)
           \/ Join \/ Leave \/ SidecarReports \/ UNCHANGED vars
  BY <1>1, <1>7 DEF ChildConflict, ApiFault, SyncCR, SyncChild, SyncConfig, TimerFires,
     UserEdit, PasswordChange, Join, Leave, SidecarReports, childVars, vars
<1> QED
  BY <1>3, <1>4, <1>5, <1>6, <1>7 DEF Next, Reconcile

LEMMA FlagStep ==
  ASSUME Flags, [Next]_vars
  PROVE  Flags'
<1>1. event' \in BOOLEAN
  BY EventFlag DEF Flags
<1>2. queued' \in BOOLEAN
  <2>1. ReturnError => queued' \in BOOLEAN
    BY DEF ReturnError
  <2>2. CASE Reconcile
    BY <2>1, <2>2 DEF Flags, Reconcile, StartReconcile, AddFinalizer, ReconcileConfig,
       WriteConfig, CleanupConfig, ReconcilePVC, ReconcileSidecarRBAC, ReconcileRBAC,
       ReconcileNetworkPolicy, ReconcileStatefulSet, ReconcileService, UpdateStatus
  <2>3. CASE ~Reconcile
    BY <2>1, <2>3 DEF Flags, Next, ChildConflict, ApiFault, SyncCR, SyncChild, SyncConfig,
       TimerFires, UserEdit, PasswordChange, RollPod, Evict, CreatePod, StartPod, PodBecomes,
       Join, Leave, SidecarReports, vars
  <2> QED
    BY <2>2, <2>3
<1>3. timer' \in BOOLEAN
  <2>1. CASE UpdateStatus
    BY <2>1 DEF Flags, UpdateStatus
  <2>2. CASE Reconcile /\ ~UpdateStatus
    BY <2>2 DEF Flags, Reconcile, StartReconcile, AddFinalizer, ReconcileConfig,
       ReconcilePVC, ReconcileSidecarRBAC, ReconcileRBAC, ReconcileNetworkPolicy,
       ReconcileStatefulSet, ReconcileService
  <2>3. CASE ~Reconcile
    BY <2>3 DEF Flags, Next, ChildConflict, ApiFault, SyncCR, SyncChild, SyncConfig,
       TimerFires, UserEdit, PasswordChange, RollPod, Evict, CreatePod, StartPod, PodBecomes,
       Join, Leave, SidecarReports, vars
  <2> QED
    BY <2>1, <2>2, <2>3
<1> QED
  BY <1>1, <1>2, <1>3 DEF Flags

LEMMA OnlineStep ==
  ASSUME online \in 0 .. MaxPlayers, [Next]_vars
  PROVE  online' \in 0 .. MaxPlayers
<1>1. CASE RollPod \/ Evict \/ CreatePod \/ StartPod
  BY <1>1, ChildBounds DEF RollPod, Evict, CreatePod, StartPod, PodBecomes
<1>2. CASE Join \/ Leave
  <2>1. Join => online < MaxPlayers /\ online' = online + 1
    BY DEF Join
  <2>2. Leave => online > 0 /\ online' = online - 1
    BY DEF Leave
  <2> QED
    BY <1>2, <2>1, <2>2, ChildBounds
<1>3. CASE Reconcile
  BY <1>3 DEF Reconcile, StartReconcile, AddFinalizer, ReconcileConfig, ReconcilePVC,
     ReconcileSidecarRBAC, ReconcileRBAC, ReconcileNetworkPolicy, ReconcileStatefulSet,
     ReconcileService, UpdateStatus
<1>4. CASE \/ ChildConflict \/ ApiFault \/ SyncCR \/ SyncChild \/ SyncConfig \/ TimerFires
           \/ \E r \in Requests : UserEdit(r)
           \/ \E v \in 0 .. MaxSecret : PasswordChange(v)
           \/ SidecarReports \/ UNCHANGED vars
  BY <1>4 DEF ChildConflict, ApiFault, SyncCR, SyncChild, SyncConfig, TimerFires, UserEdit,
     PasswordChange, SidecarReports, vars
<1> QED
  BY <1>1, <1>2, <1>3, <1>4 DEF Next

-----------------------------------------------------------------------------
(* The inductive invariant.                                                 *)

ChildInv == ObjectInv /\ PortSets /\ StatefulSetInv /\ Configs /\ Volumes /\ Flags
            /\ online \in 0 .. MaxPlayers

LEMMA ChildInvParts == ChildInv => TypeOK /\ PortsStayApart
BY DEF ChildInv, ObjectInv, PortSets, StatefulSetInv, Configs, Volumes, Flags, TypeOK,
       PortsStayApart

LEMMA FirstSpec ==
  ASSUME Init
  PROVE  /\ cr.spec \in SpecType /\ cr \in ServerType /\ ~cr.fin
         /\ \/ Admissible(cr.spec)
            \/ \E r \in Legacy : cr.spec = SchemaDefault(r)
<1>1. PICK s \in (UNION {Created(r) : r \in Requests}) \cup {SchemaDefault(r) : r \in Legacy} :
        cr = [spec |-> s, fin |-> FALSE, players |-> 0, deferred |-> FALSE]
  BY DEF Init
<1>2. s \in SpecType /\ (Admissible(s) \/ \E r \in Legacy : s = SchemaDefault(r))
  <2>1. ASSUME NEW r \in Requests, s \in Created(r) PROVE s \in SpecType /\ Admissible(s)
    <3>1. r \in SpecType
      BY RequestsAssumption
    <3>2. s = Stored(r) /\ Valid(s)
      BY <2>1 DEF Created, Stored
    <3> QED
      BY <3>1, <3>2, StoredFields, ValidIsApart
  <2>2. ASSUME NEW r \in Legacy, s = SchemaDefault(r) PROVE s \in SpecType
    <3>1. r \in SpecType
      BY RequestsAssumption
    <3>2. r.port \in Nat /\ r.steam \in Nat
      BY <3>1 DEF SpecType
    <3>3. Or(r.port, DefaultPort) \in Nat /\ Or(r.steam, DefaultSteamPort) \in Nat
      BY <3>2, DefaultsDiffer DEF Or
    <3> QED
      BY <2>2, <3>1, <3>3 DEF SchemaDefault, SpecType
  <2> QED
    BY <2>1, <2>2
<1>3. 0 \in 0 .. MaxPlayers
  BY ChildBounds
<1> QED
  BY <1>1, <1>2, <1>3 DEF ServerType

LEMMA ChildInit == Init => ChildInv
<1> SUFFICES ASSUME Init PROVE ChildInv
  OBVIOUS
<1>1. fresh \in FreshType /\ fresh.seen /\ ~fresh.server /\ seen = cr /\ rec = Idle
  BY DEF Init, FreshType
<1>2. ObjectInv
  BY <1>1, FirstSpec, IdleType DEF ObjectInv, CopiesAgree, AdmittedFirst
<1>3. PortSets
  BY DEF Init, PortSets, NoPorts, Ports, OneRole
<1>4. StatefulSetInv
  BY NoStatefulSetType DEF Init, StatefulSetInv, OneRole
<1>5. Configs /\ Volumes
  <2>1. /\ config = NoConfig /\ configSeen = NoConfig /\ password \in 0 .. MaxSecret
        /\ pvc = 0 /\ rbac = {}
    BY Zenon DEF Init
  <2> QED
    BY <2>1 DEF Configs, ConfigType, Volumes
<1>6. Flags
  BY DEF Init, Flags
<1>7. online \in 0 .. MaxPlayers
  <2>1. online = 0
    BY Zenon DEF Init
  <2> QED
    BY <2>1, ChildBounds
<1> QED
  BY <1>2, <1>3, <1>4, <1>5, <1>6, <1>7 DEF ChildInv

LEMMA ChildStep == ChildInv /\ [Next]_vars => ChildInv'
<1> SUFFICES ASSUME ChildInv, [Next]_vars PROVE ChildInv'
  OBVIOUS
<1>1. TypeOK /\ config \in ConfigType
  BY ChildInvParts DEF TypeOK
<1> QED
  BY <1>1, ObjectStep, PortSetStep, StatefulSetStep, ConfigStep, VolumeStep, FlagStep,
     OnlineStep DEF ChildInv

\* Whatever is requested, edited, refused or interrupted, the config the operator writes
\* names an existing password and every child has its type.
THEOREM ChildTypes == Spec => []TypeOK
<1>1. Spec => []ChildInv
  BY ChildInit, ChildStep, PTL DEF Spec
<1> QED
  BY <1>1, ChildInvParts, PTL

\* For every set of requests, and of specs from before the webhook, valid or not: no port
\* of policy, service or pod has two roles, because no child is built before
\* the operator's own update has been through admission.
THEOREM PortsApart == Spec => []PortsStayApart
<1>1. Spec => []ChildInv
  BY ChildInit, ChildStep, PTL DEF Spec
<1> QED
  BY <1>1, ChildInvParts, PTL

-----------------------------------------------------------------------------
(* The operator's own update.                                               *)

\* The specs from before the webhook are ones it would have let through.
LegacyAdmissible == \A r \in Legacy : Admissible(SchemaDefault(r))

\* Only a write that passed admission changes the stored spec.
LEMMA SpecStep ==
  ASSUME ChildInv, [Next]_vars, Admissible(cr.spec)
  PROVE  Admissible(cr'.spec)
<1>1. ReturnError => cr' = cr
  BY DEF ReturnError
<1>2. CASE AddFinalizer /\ ~ReturnError
  <2>1. PICK s \in Updated(cr.spec, rec.spec) : cr' = [cr EXCEPT !.spec = s, !.fin = TRUE]
    BY <1>2 DEF AddFinalizer
  <2>2. Admissible(s)
    BY UpdatedIsApart DEF ChildInv, ObjectInv, RecType
  <2>3. cr'.spec = s
    BY <2>1 DEF ChildInv, ObjectInv, ServerType
  <2> QED
    BY <2>2, <2>3
<1>3. ASSUME NEW r \in Requests, UserEdit(r) PROVE Admissible(cr'.spec)
  <2>1. PICK s \in Updated(cr.spec, r) : cr' = [cr EXCEPT !.spec = s]
    BY <1>3 DEF UserEdit, StoreCR
  <2>2. Admissible(s)
    BY UpdatedIsApart, RequestsAssumption
  <2>3. cr'.spec = s
    BY <2>1 DEF ChildInv, ObjectInv, ServerType
  <2> QED
    BY <2>2, <2>3
<1>4. CASE UpdateStatus \/ SidecarReports
  <2>1. cr'.spec = cr.spec
    BY <1>1, <1>4 DEF UpdateStatus, SidecarReports, StoreCR, ChildInv, ObjectInv, ServerType
  <2> QED
    BY <2>1
<1>5. CASE Reconcile /\ ~AddFinalizer /\ ~UpdateStatus
  <2>1. cr' = cr
    BY <1>1, <1>5 DEF Reconcile, StartReconcile, ReconcileConfig, WriteConfig, CleanupConfig,
       ReconcilePVC, ReconcileSidecarRBAC, ReconcileRBAC, ReconcileNetworkPolicy,
       ReconcileStatefulSet, ReconcileService
  <2> QED
    BY <2>1
<1>6. CASE ChildConflict \/ ApiFault \/ SyncCR \/ SyncConfig \/ Aside \/ UNCHANGED vars
  <2>1. cr' = cr
    BY <1>1, <1>6, AsideObjects DEF ChildConflict, ApiFault, SyncCR, SyncConfig
  <2> QED
    BY <2>1
<1>7. CASE AddFinalizer /\ ReturnError
  BY <1>1, <1>7
<1> QED
  BY <1>2, <1>3, <1>4, <1>5, <1>6, <1>7 DEF Next, Reconcile, Aside

\* Provided no spec from before the webhook is one it refuses, the operator's update of a
\* server is never refused: defaulting is idempotent, what is valid after it
\* stays valid, and a live copy is the stored spec.
THEOREM OperatorAdmitted == ASSUME LegacyAdmissible PROVE Spec => []OperatorIsAdmitted
<1> DEFINE Inv == ChildInv /\ Admissible(cr.spec)
<1>1. Init => Inv
  BY ChildInit, FirstSpec DEF LegacyAdmissible
<1>2. Inv /\ [Next]_vars => Inv'
  BY ChildStep, SpecStep
<1>3. Inv => OperatorIsAdmitted
  <2> SUFFICES ASSUME Inv, rec.pc = "finalizer", fresh.server
               PROVE  Updated(cr.spec, rec.spec) # {}
    BY DEF OperatorIsAdmitted
  <2>1. cr.spec \in SpecType /\ rec.spec = cr.spec
    BY DEF ChildInv, ObjectInv, CopiesAgree, ServerType
  <2> QED
    BY <2>1, Readmitted
<1> QED
  BY <1>1, <1>2, <1>3, PTL DEF Spec

-----------------------------------------------------------------------------
(* A reconcile that works from the stored spec, undisturbed.                *)

\* Nothing has asked for another reconcile, and the cache shows the stored server.
Current == ~queued /\ fresh.seen

\* The content the config Secret should have, as the hash annotation sees it.
HashOf(s) == IF s.groups THEN ConfigOf(s, password) ELSE NoConfig

\* The operator has its own fallbacks: it makes the same of a spec and of its defaults.
LEMMA DefaultsAgree ==
  ASSUME NEW s \in SpecType
  PROVE  /\ Default(s).groups = s.groups /\ Default(s).sidecar = s.sidecar
         /\ PortsOf(Default(s)) = PortsOf(s) /\ OpenPorts(Default(s)) = OpenPorts(s)
         /\ \A p : ConfigOf(Default(s), p) = ConfigOf(s, p)
         /\ \A h : TemplateOf(Default(s), h) = TemplateOf(s, h)
<1> DEFINE t == Default(s)
<1>1. /\ t.port = Or(s.port, DefaultPort) /\ t.steam = Or(s.steam, DefaultSteamPort)
      /\ t.groups = s.groups /\ t.sidecar = s.sidecar
  BY DEF Default, SpecType
<1>2. /\ Or(t.port, DefaultPort) = Or(s.port, DefaultPort)
      /\ Or(t.steam, DefaultSteamPort) = Or(s.steam, DefaultSteamPort)
  <2>1. s.port \in Int /\ s.steam \in Int
    BY DEF SpecType
  <2>2. Or(Or(s.port, DefaultPort), DefaultPort) = Or(s.port, DefaultPort)
    BY <2>1, OrTwice, DefaultsDiffer
  <2>3. Or(Or(s.steam, DefaultSteamPort), DefaultSteamPort) = Or(s.steam, DefaultSteamPort)
    BY <2>1, OrTwice, DefaultsDiffer
  <2> QED
    BY <1>1, <2>2, <2>3
<1> HIDE DEF t
<1>3. PortsOf(t) = PortsOf(s)
  BY <1>2 DEF PortsOf
<1>4. OpenPorts(t) = OpenPorts(s)
  <2>1. CASE s.sidecar
    <3> DEFINE metrics == {<<"metrics", "TCP", 9090>>}
    <3>1. t.sidecar
      BY <1>1, <2>1
    <3>2. OpenPorts(t) = PortsOf(t) \cup metrics
      BY <3>1 DEF OpenPorts
    <3>3. OpenPorts(s) = PortsOf(s) \cup metrics
      BY <2>1 DEF OpenPorts
    <3> HIDE DEF metrics
    <3> QED
      BY <1>3, <3>2, <3>3
  <2>2. CASE ~s.sidecar
    <3>1. ~t.sidecar
      BY <1>1, <2>2
    <3>2. OpenPorts(t) = PortsOf(t)
      BY <3>1 DEF OpenPorts
    <3>3. OpenPorts(s) = PortsOf(s)
      BY <2>2 DEF OpenPorts
    <3> QED
      BY <1>3, <3>2, <3>3
  <2> QED
    BY <2>1, <2>2
<1>5. \A p : ConfigOf(t, p) = ConfigOf(s, p)
  BY <1>2 DEF ConfigOf
<1>6. \A h : TemplateOf(t, h) = TemplateOf(s, h)
  BY <1>1, <1>3 DEF TemplateOf
<1> QED
  BY <1>1, <1>3, <1>4, <1>5, <1>6 DEF t

\* What changes the server, or a password it uses, ends with it queued or its cached
\* copy stale; and so does every reconcile that fails.
LEMMA Undisturbed ==
  ASSUME ChildInv, [Next]_vars, Current', ~StartReconcile
  PROVE  /\ Current /\ cr' = cr /\ (cr.spec.groups => password' = password)
         /\ ~ReturnError /\ ~AddFinalizer /\ ~SyncCR /\ ~SyncChild /\ ~TimerFires
<1>1. ~ReturnError /\ ~SyncCR /\ ~SyncChild /\ ~TimerFires
  BY DEF Current, ReturnError, SyncCR, SyncChild, TimerFires
<1>2. ~AddFinalizer
  <2>1. AddFinalizer => fresh' = [fresh EXCEPT !.seen = FALSE]
    BY <1>1 DEF AddFinalizer
  <2> QED
    BY <2>1 DEF Current, ChildInv, ObjectInv, FreshType
<1>3. fresh \in FreshType
  BY DEF ChildInv, ObjectInv
<1>4. CASE UpdateStatus
  <2>1. fresh' = [fresh EXCEPT !.seen = @ /\ cr' = cr, !.server = FALSE]
        /\ UNCHANGED <<queued, password>>
    BY <1>1, <1>4 DEF UpdateStatus
  <2>2. fresh.seen /\ cr' = cr
    BY <1>3, <2>1, StatusFields DEF Current
  <2> QED
    BY <1>1, <1>2, <2>1, <2>2 DEF Current
<1>5. CASE SidecarReports \/ \E r \in Requests : UserEdit(r)
  <2>1. PICK new : StoreCR(new)
    BY <1>5 DEF SidecarReports, UserEdit
  <2>2. UNCHANGED <<queued, password>>
    BY <1>5 DEF SidecarReports, UserEdit
  <2>3. fresh.seen /\ cr' = cr
    BY <1>3, <2>1, StoreCRFields DEF Current
  <2> QED
    BY <1>1, <1>2, <2>2, <2>3 DEF Current
<1>6. ASSUME NEW v \in 0 .. MaxSecret, PasswordChange(v)
      PROVE  Current /\ cr' = cr /\ (cr.spec.groups => password' = password)
  <2>1. queued' = (queued \/ seen.spec.groups) /\ UNCHANGED <<cr, fresh>>
    BY <1>6 DEF PasswordChange
  <2>2. ~queued /\ ~seen.spec.groups /\ fresh.seen
    BY <2>1 DEF Current
  <2>3. seen = cr
    BY <2>2 DEF ChildInv, ObjectInv, CopiesAgree
  <2> QED
    BY <2>1, <2>2, <2>3 DEF Current
<1>7. CASE ReconcileConfig
  <2>1. PICK new : StoreConfig(new)
    BY <1>1, <1>7 DEF ReconcileConfig, WriteConfig, CleanupConfig
  <2>2. UNCHANGED <<cr, queued, password>>
    BY <1>1, <1>7 DEF ReconcileConfig, WriteConfig, CleanupConfig
  <2>3. fresh'.seen = fresh.seen
    BY <1>3, <2>1, StoreConfigFields
  <2> QED
    BY <1>1, <1>2, <2>2, <2>3 DEF Current
<1>8. CASE SyncConfig
  <2>1. fresh' = [fresh EXCEPT !.config = TRUE] /\ UNCHANGED <<cr, queued, password>>
    BY <1>8 DEF SyncConfig
  <2>2. fresh'.seen = fresh.seen
    BY <1>3, <2>1 DEF FreshType
  <2> QED
    BY <1>1, <1>2, <2>1, <2>2 DEF Current
<1>9. CASE \/ ReconcilePVC \/ ReconcileSidecarRBAC \/ ReconcileNetworkPolicy
           \/ ReconcileStatefulSet \/ ReconcileService \/ RollPod \/ Evict \/ CreatePod \/ StartPod
           \/ Join \/ Leave \/ UNCHANGED vars
  <2>1. UNCHANGED <<cr, fresh, queued, password>>
    BY <1>9 DEF ReconcilePVC, ReconcileSidecarRBAC, ReconcileRBAC, ReconcileNetworkPolicy,
       ReconcileStatefulSet, ReconcileService, RollPod, Evict, CreatePod, StartPod, PodBecomes,
       Join, Leave, vars
  <2> QED
    BY <1>1, <1>2, <2>1 DEF Current
<1> QED
  BY <1>1, <1>2, <1>4, <1>5, <1>6, <1>7, <1>8, <1>9
     DEF Next, Reconcile, ChildConflict, ApiFault

\* The steps of an undisturbed reconcile, in the order of the code.
LEMMA Transitions ==
  ASSUME ChildInv, [Next]_vars, Current', ~StartReconcile
  PROVE  \/ rec' = rec /\ ~Reconcile
         \/ /\ ReconcileConfig /\ rec.pc = "config" /\ rec'.pc = "pvc" /\ rec'.spec = rec.spec
            /\ rec'.hash = IF rec.spec.groups THEN ConfigOf(rec.spec, password) ELSE rec.hash
         \/ /\ ReconcilePVC \/ ReconcileSidecarRBAC \/ ReconcileNetworkPolicy
            /\ <<rec.pc, rec'.pc>> \in
                 {<<"pvc", IF rec.spec.sidecar THEN "account" ELSE "netpol">>,
                  <<"account", "role">>, <<"role", "binding">>, <<"binding", "netpol">>,
                  <<"netpol", "statefulset">>}
            /\ rec'.spec = rec.spec /\ rec'.hash = rec.hash
         \/ /\ ReconcileStatefulSet /\ rec.pc = "statefulset" /\ rec'.pc = "service"
            /\ rec'.spec = rec.spec /\ rec'.deferred = HoldBack
         \/ /\ ReconcileService /\ rec.pc = "service" /\ rec'.pc = "status"
            /\ rec'.deferred = rec.deferred
         \/ /\ UpdateStatus /\ rec.pc = "status" /\ rec' = Idle
            /\ timer' = (timer \/ rec.deferred)
<1>0. rec \in RecType /\ ~ReturnError /\ ~AddFinalizer
  BY Undisturbed DEF ChildInv, ObjectInv
<1>1. CASE ReconcileConfig
  <2>1. CASE rec.spec.groups
    <3>1. rec' = [rec EXCEPT !.pc = "pvc", !.hash = ConfigOf(rec.spec, password)]
      BY <1>0, <1>1, <2>1 DEF ReconcileConfig, WriteConfig
    <3>2. /\ rec'.pc = "pvc" /\ rec'.spec = rec.spec
          /\ rec'.hash = ConfigOf(rec.spec, password)
      BY <1>0, <3>1 DEF RecType
    <3> QED
      BY <1>1, <2>1, <3>2 DEF ReconcileConfig
  <2>2. CASE ~rec.spec.groups
    <3>1. Goto("pvc")
      BY <1>1, <2>2 DEF ReconcileConfig, CleanupConfig
    <3> QED
      BY <1>0, <1>1, <2>2, <3>1, GotoFields DEF ReconcileConfig
  <2> QED
    BY <2>1, <2>2
<1>2. CASE ReconcilePVC \/ ReconcileSidecarRBAC \/ ReconcileNetworkPolicy
  <2>1. PICK step : /\ Goto(step)
                    /\ <<rec.pc, step>> \in
                         {<<"pvc", IF rec.spec.sidecar THEN "account" ELSE "netpol">>,
                          <<"account", "role">>, <<"role", "binding">>, <<"binding", "netpol">>,
                          <<"netpol", "statefulset">>}
    BY <1>2 DEF ReconcilePVC, ReconcileSidecarRBAC, ReconcileRBAC, ReconcileNetworkPolicy
  <2>2. rec'.pc = step /\ rec'.spec = rec.spec /\ rec'.hash = rec.hash
    BY <1>0, <2>1, GotoFields
  <2> QED
    BY <1>2, <2>1, <2>2
<1>3. CASE ReconcileStatefulSet
  <2>1. rec' = [Idle EXCEPT !.pc = "service", !.spec = rec.spec, !.deferred = HoldBack]
    BY <1>3 DEF ReconcileStatefulSet
  <2>2. rec'.pc = "service" /\ rec'.spec = rec.spec /\ rec'.deferred = HoldBack
    BY <2>1, IdleType DEF RecType
  <2> QED
    BY <1>3, <2>2 DEF ReconcileStatefulSet
<1>4. CASE ReconcileService
  <2>1. rec' = [Idle EXCEPT !.pc = "status", !.deferred = rec.deferred]
    BY <1>4 DEF ReconcileService
  <2>2. rec'.pc = "status" /\ rec'.deferred = rec.deferred
    BY <2>1, IdleType DEF RecType
  <2> QED
    BY <1>4, <2>2 DEF ReconcileService
<1>5. CASE UpdateStatus
  BY <1>0, <1>5 DEF UpdateStatus
<1>6. CASE ~Reconcile
  <2>1. rec' = rec
    BY <1>0, <1>6 DEF Next, ChildConflict, ApiFault, SyncCR, SyncChild, SyncConfig, TimerFires,
       UserEdit, PasswordChange, RollPod, Evict, CreatePod, StartPod, PodBecomes, Join, Leave,
       SidecarReports, vars
  <2> QED
    BY <1>6, <2>1
<1> QED
  BY <1>0, <1>1, <1>2, <1>3, <1>4, <1>5, <1>6 DEF Reconcile

\* A reconcile starts from the cached server, its config still to be written.
LEMMA StartFields ==
  ASSUME ChildInv, StartReconcile
  PROVE  /\ rec'.pc \in {"config", "finalizer"} /\ rec'.spec = seen.spec
         /\ rec'.hash = rec.hash
         /\ fresh'.seen = fresh.seen /\ cr' = cr /\ rec.pc = "idle"
<1> DEFINE step == IF seen.fin THEN "config" ELSE "finalizer"
<1>1. /\ rec' = [rec EXCEPT !.pc = step, !.spec = seen.spec, !.players = seen.players]
      /\ fresh' = [fresh EXCEPT !.server = fresh.seen] /\ cr' = cr /\ rec.pc = "idle"
  BY DEF StartReconcile
<1>2. step \in {"config", "finalizer"}
  OBVIOUS
<1> HIDE DEF step
<1>3. rec'.pc = step /\ rec'.spec = seen.spec /\ rec'.hash = rec.hash
  BY <1>1 DEF ChildInv, ObjectInv, RecType
<1>4. fresh'.seen = fresh.seen
  BY <1>1 DEF ChildInv, ObjectInv, FreshType
<1> QED
  BY <1>1, <1>2, <1>3, <1>4

-----------------------------------------------------------------------------
(* What an undisturbed reconcile has done by each of its steps.             *)

SpecIsCurrent == Current /\ rec.pc \notin {"idle", "status"} => rec.spec = cr.spec

HashIsCurrent ==
  /\ rec.pc \in {"idle", "finalizer", "config"} => rec.hash = NoConfig
  /\ Current /\ rec.pc \in {"pvc", "account", "role", "binding", "netpol", "statefulset"}
     => rec.hash = HashOf(cr.spec)

ConfigIsSet ==
  Current /\ rec.pc \notin {"finalizer", "config"} /\ cr.spec.groups
  => config = ConfigOf(cr.spec, password)

PVCIsSet == Current /\ rec.pc \notin {"finalizer", "config", "pvc"} => pvc # 0

RBACIsSet ==
  Current /\ cr.spec.sidecar /\ rec.pc \notin {"finalizer", "config", "pvc", "account"}
  => /\ "account" \in rbac
     /\ rec.pc # "role" => "role" \in rbac
     /\ rec.pc \notin {"role", "binding"} => "binding" \in rbac

SidecarIsWanted == Current /\ rec.pc \in RBACObjects => cr.spec.sidecar

PolicyIsSet ==
  Current /\ rec.pc \in {"statefulset", "service", "status", "idle"}
  => netpol = OpenPorts(cr.spec)

\* The update of the StatefulSet was deferred, and there is a timer for it.
Deferred == IF rec.pc = "idle" THEN timer ELSE rec.deferred

TemplateIsSet ==
  Current /\ rec.pc \in {"service", "status", "idle"} /\ ~Deferred
  => sts.exists /\ sts.tmpl = TemplateOf(cr.spec, HashOf(cr.spec))

ServiceIsSet == Current /\ rec.pc \in {"status", "idle"} => service = PortsOf(cr.spec)

BuiltInv == /\ ChildInv /\ SpecIsCurrent /\ HashIsCurrent /\ ConfigIsSet /\ PVCIsSet
            /\ RBACIsSet /\ SidecarIsWanted /\ PolicyIsSet /\ TemplateIsSet /\ ServiceIsSet

LEMMA SpecCurrentStep ==
  ASSUME BuiltInv, [Next]_vars
  PROVE  SpecIsCurrent'
<1> SUFFICES ASSUME Current', rec'.pc \notin {"idle", "status"} PROVE rec'.spec = cr'.spec
  BY DEF SpecIsCurrent
<1>1. CASE StartReconcile
  <2>1. rec'.spec = seen.spec /\ fresh.seen /\ cr' = cr
    BY <1>1, StartFields DEF Current, BuiltInv
  <2> QED
    BY <2>1 DEF BuiltInv, ChildInv, ObjectInv, CopiesAgree
<1>2. CASE ~StartReconcile
  <2>1. Current /\ cr' = cr
    BY <1>2, Undisturbed DEF BuiltInv
  <2>2. rec.pc \notin {"idle", "status"} /\ rec'.spec = rec.spec
    BY <1>2, Transitions, IdleType DEF BuiltInv
  <2> QED
    BY <2>1, <2>2 DEF BuiltInv, SpecIsCurrent
<1> QED
  BY <1>1, <1>2

LEMMA HashKept ==
  ASSUME BuiltInv, [Next]_vars, Current', ~StartReconcile
  PROVE  HashOf(cr.spec)' = HashOf(cr.spec)
BY Undisturbed DEF BuiltInv, HashOf, ConfigOf

\* Every reconcile starts without a hash, however the one before it ended.
LEMMA NoHashStep ==
  ASSUME BuiltInv, [Next]_vars, rec'.pc \in {"idle", "finalizer", "config"}
  PROVE  rec'.hash = NoConfig
<1>0. rec \in RecType /\ Idle.hash = NoConfig
  BY DEF BuiltInv, ChildInv, ObjectInv, Idle
<1>1. CASE ReturnError
  BY <1>0, <1>1 DEF ReturnError
<1>2. CASE rec' = rec
  BY <1>2 DEF BuiltInv, HashIsCurrent
<1>3. CASE StartReconcile
  BY <1>3, StartFields DEF BuiltInv, HashIsCurrent
<1>4. CASE AddFinalizer /\ ~ReturnError
  <2>1. PICK s : rec' = [rec EXCEPT !.pc = "config", !.spec = s]
    BY <1>4 DEF AddFinalizer
  <2>2. rec'.hash = rec.hash
    BY <1>0, <2>1 DEF RecType
  <2> QED
    BY <1>4, <2>2 DEF AddFinalizer, BuiltInv, HashIsCurrent
<1>5. CASE UpdateStatus /\ ~ReturnError
  BY <1>0, <1>5 DEF UpdateStatus
<1>6. ~ReconcileConfig \/ ReturnError
  <2>1. ReconcileConfig /\ ~ReturnError => rec'.pc = "pvc"
    BY <1>0, GotoFields DEF ReconcileConfig, WriteConfig, CleanupConfig, RecType
  <2> QED
    BY <2>1
<1>7. ~ReconcilePVC /\ ~ReconcileSidecarRBAC /\ ~ReconcileNetworkPolicy
  <2>1. ASSUME ReconcilePVC \/ ReconcileSidecarRBAC \/ ReconcileNetworkPolicy PROVE FALSE
    <3>1. PICK step \in {"account", "role", "binding", "netpol", "statefulset"} : Goto(step)
      BY <2>1 DEF ReconcilePVC, ReconcileSidecarRBAC, ReconcileRBAC, ReconcileNetworkPolicy
    <3> QED
      BY <1>0, <3>1, GotoFields
  <2> QED
    BY <2>1
<1>8. ~ReconcileStatefulSet /\ ~ReconcileService
  BY DEF ReconcileStatefulSet, ReconcileService, Idle
<1>9. CASE ~Reconcile /\ ~ReturnError
  <2>1. rec' = rec
    BY <1>9 DEF Next, ChildConflict, ApiFault, SyncCR, SyncChild, SyncConfig, TimerFires,
       UserEdit, PasswordChange, RollPod, Evict, CreatePod, StartPod, PodBecomes, Join, Leave,
       SidecarReports, vars
  <2> QED
    BY <1>2, <2>1
<1> QED
  BY <1>1, <1>3, <1>4, <1>5, <1>6, <1>7, <1>8, <1>9 DEF Reconcile

LEMMA HashCurrentStep ==
  ASSUME BuiltInv, [Next]_vars
  PROVE  HashIsCurrent'
<1> SUFFICES ASSUME Current', rec'.pc \in {"pvc", "account", "role", "binding", "netpol",
                                           "statefulset"}
             PROVE  rec'.hash = HashOf(cr.spec)'
  BY NoHashStep DEF HashIsCurrent
<1>1. ~StartReconcile
  BY StartFields DEF BuiltInv
<1>2. Current /\ cr' = cr /\ HashOf(cr.spec)' = HashOf(cr.spec)
  BY <1>1, Undisturbed, HashKept DEF BuiltInv
<1>3. CASE ReconcileConfig
  <2>1. /\ rec.pc = "config"
        /\ rec'.hash = IF rec.spec.groups THEN ConfigOf(rec.spec, password) ELSE rec.hash
    BY <1>1, <1>3, Transitions
       DEF BuiltInv, ReconcileConfig, ReconcilePVC, ReconcileSidecarRBAC, ReconcileRBAC,
           ReconcileNetworkPolicy, ReconcileStatefulSet, ReconcileService, UpdateStatus, Reconcile
  <2>2. rec.spec = cr.spec /\ rec.hash = NoConfig
    BY <1>2, <2>1 DEF BuiltInv, SpecIsCurrent, HashIsCurrent
  <2> QED
    BY <1>2, <2>1, <2>2 DEF HashOf
<1>4. CASE ~ReconcileConfig
  <2>1. /\ rec.pc \in {"pvc", "account", "role", "binding", "netpol", "statefulset"}
        /\ rec'.hash = rec.hash
    BY <1>1, <1>4, Transitions, IdleType DEF BuiltInv
  <2> QED
    BY <1>2, <2>1 DEF BuiltInv, HashIsCurrent
<1> QED
  BY <1>3, <1>4

LEMMA ConfigKept ==
  ASSUME [Next]_vars, ~ReconcileConfig
  PROVE  config' = config
<1>1. ReturnError => config' = config
  BY DEF ReturnError, childVars
<1>2. CASE Reconcile
  BY <1>1, <1>2 DEF Reconcile, StartReconcile, AddFinalizer, ReconcilePVC,
     ReconcileSidecarRBAC, ReconcileRBAC, ReconcileNetworkPolicy, ReconcileStatefulSet,
     ReconcileService, UpdateStatus, childVars
<1>3. CASE ~Reconcile
  BY <1>1, <1>3 DEF Next, ChildConflict, ApiFault, SyncCR, SyncChild, SyncConfig, TimerFires,
     UserEdit, PasswordChange, RollPod, Evict, CreatePod, StartPod, PodBecomes, Join, Leave,
     SidecarReports, childVars, vars
<1> QED
  BY <1>2, <1>3

LEMMA ConfigSetStep ==
  ASSUME BuiltInv, [Next]_vars
  PROVE  ConfigIsSet'
<1> SUFFICES ASSUME Current', rec'.pc \notin {"finalizer", "config"}, cr'.spec.groups
             PROVE  config' = ConfigOf(cr'.spec, password')
  BY DEF ConfigIsSet
<1>1. ~StartReconcile
  BY StartFields DEF BuiltInv
<1>2. Current /\ cr' = cr /\ password' = password /\ ~ReturnError
  BY <1>1, Undisturbed DEF BuiltInv
<1>3. CASE ReconcileConfig
  <2>1. rec.spec = cr.spec
    BY <1>2, <1>3 DEF BuiltInv, SpecIsCurrent, ReconcileConfig
  <2>2. config' = ConfigOf(rec.spec, password)
    BY <1>2, <1>3, <2>1 DEF ReconcileConfig, WriteConfig, StoreConfig
  <2> QED
    BY <1>2, <2>1, <2>2
<1>4. CASE ~ReconcileConfig
  <2>1. rec.pc \notin {"finalizer", "config"}
    BY <1>1, <1>4, Transitions DEF BuiltInv
  <2> QED
    BY <1>2, <1>4, <2>1, ConfigKept DEF BuiltInv, ConfigIsSet
<1> QED
  BY <1>3, <1>4

\* The volume is created once, with some size, and the operator never removes it.
LEMMA PVCStays ==
  ASSUME ChildInv, [Next]_vars
  PROVE  pvc # 0 \/ ReconcilePVC => pvc' # 0
<1>1. ReturnError => pvc' = pvc
  BY DEF ReturnError, childVars
<1>2. CASE ReconcilePVC
  <2>1. Or(rec.spec.size, DefaultSize) # 0
    BY OrTwice, DefaultsDiffer DEF ChildInv, ObjectInv, RecType, SpecType
  <2> QED
    BY <1>2, <2>1 DEF ReconcilePVC
<1>3. CASE Reconcile /\ ~ReconcilePVC
  <2>1. pvc' = pvc
    BY <1>1, <1>3 DEF Reconcile, StartReconcile, AddFinalizer, ReconcileConfig, WriteConfig,
       CleanupConfig, ReconcileSidecarRBAC, ReconcileRBAC, ReconcileNetworkPolicy,
       ReconcileStatefulSet, ReconcileService, UpdateStatus, childVars
  <2> QED
    BY <1>3, <2>1
<1>4. CASE ~Reconcile
  <2>1. pvc' = pvc
    BY <1>1, <1>4 DEF Next, ChildConflict, ApiFault, SyncCR, SyncChild, SyncConfig, TimerFires,
       UserEdit, PasswordChange, RollPod, Evict, CreatePod, StartPod, PodBecomes, Join, Leave,
       SidecarReports, childVars, vars
  <2> QED
    BY <1>4, <2>1 DEF Reconcile
<1> QED
  BY <1>2, <1>3, <1>4

LEMMA PVCSetStep ==
  ASSUME BuiltInv, [Next]_vars
  PROVE  PVCIsSet'
<1> SUFFICES ASSUME Current', rec'.pc \notin {"finalizer", "config", "pvc"} PROVE pvc' # 0
  BY DEF PVCIsSet
<1>1. ~StartReconcile
  BY StartFields DEF BuiltInv
<1>2. Current
  BY <1>1, Undisturbed DEF BuiltInv
<1>3. rec.pc \notin {"finalizer", "config", "pvc"} \/ ReconcilePVC
  <2>1. ReconcileSidecarRBAC => rec.pc \in {"account", "role", "binding"}
    BY DEF ReconcileSidecarRBAC, ReconcileRBAC
  <2>2. ReconcileNetworkPolicy => rec.pc = "netpol"
    BY DEF ReconcileNetworkPolicy
  <2> QED
    BY <1>1, <2>1, <2>2, Transitions DEF BuiltInv
<1> QED
  BY <1>2, <1>3, PVCStays DEF BuiltInv, PVCIsSet

\* RBAC objects are created and never removed.
LEMMA RBACGrows ==
  ASSUME [Next]_vars
  PROVE  rbac \subseteq rbac'
<1>1. ReturnError => rbac' = rbac
  BY DEF ReturnError, childVars
<1>2. CASE ReconcileSidecarRBAC
  BY <1>2 DEF ReconcileSidecarRBAC, ReconcileRBAC
<1>3. CASE Reconcile /\ ~ReconcileSidecarRBAC
  BY <1>1, <1>3 DEF Reconcile, StartReconcile, AddFinalizer, ReconcileConfig, WriteConfig,
     CleanupConfig, ReconcilePVC, ReconcileNetworkPolicy, ReconcileStatefulSet,
     ReconcileService, UpdateStatus, childVars
<1>4. CASE ~Reconcile
  BY <1>1, <1>4 DEF Next, ChildConflict, ApiFault, SyncCR, SyncChild, SyncConfig, TimerFires,
     UserEdit, PasswordChange, RollPod, Evict, CreatePod, StartPod, PodBecomes, Join, Leave,
     SidecarReports, childVars, vars
<1> QED
  BY <1>2, <1>3, <1>4

LEMMA RBACSetStep ==
  ASSUME BuiltInv, [Next]_vars
  PROVE  RBACIsSet'
<1> SUFFICES ASSUME Current', cr'.spec.sidecar,
                    rec'.pc \notin {"finalizer", "config", "pvc", "account"}
             PROVE  /\ "account" \in rbac'
                    /\ rec'.pc # "role" => "role" \in rbac'
                    /\ rec'.pc \notin {"role", "binding"} => "binding" \in rbac'
  BY DEF RBACIsSet
<1>1. ~StartReconcile
  BY StartFields DEF BuiltInv
<1>2. Current /\ cr.spec.sidecar /\ rbac \subseteq rbac'
  BY <1>1, Undisturbed, RBACGrows DEF BuiltInv
<1>3. CASE ReconcileSidecarRBAC
  <2>1. /\ rec.pc \in rbac' /\ rec.pc \in {"account", "role", "binding"}
        /\ <<rec.pc, rec'.pc>> \in {<<"account", "role">>, <<"role", "binding">>,
                                    <<"binding", "netpol">>}
    BY <1>3, GotoFields DEF ReconcileSidecarRBAC, ReconcileRBAC, BuiltInv, ChildInv, ObjectInv
  <2>2. /\ rec.pc \in {"role", "binding"} => "account" \in rbac
        /\ rec.pc = "binding" => "role" \in rbac
    BY <1>2 DEF BuiltInv, RBACIsSet
  <2> QED
    BY <1>2, <2>1, <2>2
<1>4. CASE ~ReconcileSidecarRBAC
  <2>1. CASE rec' = rec
    BY <1>2, <2>1 DEF BuiltInv, RBACIsSet
  <2>2. CASE rec' # rec
    <3>1. rec.pc # "pvc" \/ rec.spec.sidecar
      BY <1>2 DEF BuiltInv, SpecIsCurrent
    <3>2. rec.pc \in {"netpol", "statefulset", "service", "status"}
      <4>1. ReconcilePVC => rec.pc = "pvc"
        BY DEF ReconcilePVC
      <4>2. ReconcileNetworkPolicy => rec.pc = "netpol"
        BY DEF ReconcileNetworkPolicy
      <4> QED
        BY <1>1, <1>4, <2>2, <3>1, <4>1, <4>2, Transitions DEF BuiltInv
    <3> QED
      BY <1>2, <3>2 DEF BuiltInv, RBACIsSet
  <2> QED
    BY <2>1, <2>2
<1> QED
  BY <1>3, <1>4

LEMMA SidecarWantedStep ==
  ASSUME BuiltInv, [Next]_vars
  PROVE  SidecarIsWanted'
<1> SUFFICES ASSUME Current', rec'.pc \in RBACObjects PROVE cr'.spec.sidecar
  BY DEF SidecarIsWanted
<1>1. ~StartReconcile
  BY StartFields DEF BuiltInv, RBACObjects
<1>2. Current /\ cr' = cr
  BY <1>1, Undisturbed DEF BuiltInv
<1>3. rec.pc \in RBACObjects \/ (rec.pc = "pvc" /\ rec.spec.sidecar)
  BY <1>1, Transitions, IdleType DEF BuiltInv, RBACObjects
<1> QED
  BY <1>2, <1>3 DEF BuiltInv, SidecarIsWanted, SpecIsCurrent

LEMMA PolicySetStep ==
  ASSUME BuiltInv, [Next]_vars
  PROVE  PolicyIsSet'
<1> SUFFICES ASSUME Current', rec'.pc \in {"statefulset", "service", "status", "idle"}
             PROVE  netpol' = OpenPorts(cr'.spec)
  BY DEF PolicyIsSet
<1>1. ~StartReconcile
  BY StartFields DEF BuiltInv
<1>2. Current /\ cr' = cr
  BY <1>1, Undisturbed DEF BuiltInv
<1>3. CASE ReconcileNetworkPolicy
  <2>1. netpol' = OpenPorts(rec.spec) /\ rec.pc = "netpol"
    BY <1>3 DEF ReconcileNetworkPolicy
  <2> QED
    BY <1>2, <2>1 DEF BuiltInv, SpecIsCurrent
<1>4. CASE ~ReconcileNetworkPolicy
  <2>1. rec.pc \in {"statefulset", "service", "status", "idle"}
    <3>1. /\ ReconcilePVC => rec.pc = "pvc"
          /\ ReconcileSidecarRBAC => rec.pc \in {"account", "role", "binding"}
      BY DEF ReconcilePVC, ReconcileSidecarRBAC, ReconcileRBAC
    <3> QED
      BY <1>1, <1>4, <3>1, Transitions DEF BuiltInv
  <2> QED
    BY <1>2, <1>4, <2>1, PolicyKept DEF BuiltInv, PolicyIsSet
<1> QED
  BY <1>3, <1>4

\* Pods come and go without a change of the template.
LEMMA TemplateKept ==
  ASSUME ChildInv, [Next]_vars, ~ReconcileStatefulSet
  PROVE  sts'.exists = sts.exists /\ sts'.tmpl = sts.tmpl
<1> DEFINE c == IF sts.rev.mount THEN config ELSE NoConfig
<1>1. \/ sts' = sts
      \/ sts' = [sts EXCEPT !.pod = "none"]
      \/ sts' = [sts EXCEPT !.pod = "pending", !.rev = sts.tmpl]
      \/ sts' = [sts EXCEPT !.pod = "ready", !.loaded = c]
  BY StatefulSetKept DEF RollPod, Evict, CreatePod, StartPod, PodBecomes
<1> HIDE DEF c
<1> QED
  BY <1>1 DEF ChildInv, StatefulSetInv, StatefulSetType

LEMMA TemplateSetStep ==
  ASSUME BuiltInv, [Next]_vars
  PROVE  TemplateIsSet'
<1> SUFFICES ASSUME Current', rec'.pc \in {"service", "status", "idle"}, ~Deferred'
             PROVE  sts'.exists /\ sts'.tmpl = TemplateOf(cr'.spec, HashOf(cr.spec)')
  BY DEF TemplateIsSet
<1>1. ~StartReconcile
  BY StartFields DEF BuiltInv
<1>2. Current /\ cr' = cr /\ HashOf(cr.spec)' = HashOf(cr.spec)
  BY <1>1, Undisturbed, HashKept DEF BuiltInv
<1>3. CASE ReconcileStatefulSet
  <2> DEFINE t == TemplateOf(rec.spec, rec.hash)
  <2>1. rec.pc = "statefulset" /\ rec' = [Idle EXCEPT !.pc = "service", !.spec = rec.spec,
                                                      !.deferred = HoldBack]
    BY <1>3 DEF ReconcileStatefulSet
  <2>2. rec'.pc = "service" /\ rec'.deferred = HoldBack
    BY <2>1, IdleType DEF RecType
  <2>3. ~HoldBack
    BY <2>2 DEF Deferred
  <2>4. \/ sts.exists /\ sts' = [sts EXCEPT !.tmpl = t]
        \/ sts' = [NoStatefulSet EXCEPT !.exists = TRUE, !.tmpl = t, !.rev = t]
    BY <1>3, <2>3 DEF ReconcileStatefulSet
  <2> HIDE DEF t
  <2>5. sts'.exists /\ sts'.tmpl = t
    BY <2>4, NoStatefulSetType DEF BuiltInv, ChildInv, StatefulSetInv, StatefulSetType
  <2>6. rec.spec = cr.spec /\ rec.hash = HashOf(cr.spec)
    BY <1>2, <2>1 DEF BuiltInv, SpecIsCurrent, HashIsCurrent
  <2> QED
    BY <1>2, <2>5, <2>6 DEF t
<1>4. CASE ~ReconcileStatefulSet
  <2>1. rec.pc \in {"service", "status", "idle"} /\ ~Deferred
    <3>1. CASE rec' = rec /\ ~Reconcile
      <4>1. timer' = timer
        BY <1>1, <3>1, Undisturbed DEF BuiltInv, Next, ChildConflict, ApiFault, SyncCR,
           SyncChild, SyncConfig, TimerFires, UserEdit, PasswordChange, RollPod, Evict,
           CreatePod, StartPod, PodBecomes, Join, Leave, SidecarReports, vars
      <4> QED
        BY <3>1, <4>1 DEF Deferred
    <3>2. CASE ReconcileService /\ rec.pc = "service" /\ rec'.pc = "status"
               /\ rec'.deferred = rec.deferred
      BY <3>2 DEF Deferred
    <3>3. CASE UpdateStatus /\ rec.pc = "status" /\ rec' = Idle
               /\ timer' = (timer \/ rec.deferred)
      BY <3>3, IdleType DEF Deferred
    <3> QED
      BY <1>1, <1>4, <3>1, <3>2, <3>3, Transitions DEF BuiltInv
  <2>2. sts.exists /\ sts.tmpl = TemplateOf(cr.spec, HashOf(cr.spec))
    BY <1>2, <2>1 DEF BuiltInv, TemplateIsSet
  <2>3. sts'.exists = sts.exists /\ sts'.tmpl = sts.tmpl
    BY <1>4, TemplateKept DEF BuiltInv
  <2> QED
    BY <1>2, <2>2, <2>3
<1> QED
  BY <1>3, <1>4

LEMMA ServiceSetStep ==
  ASSUME BuiltInv, [Next]_vars
  PROVE  ServiceIsSet'
<1> SUFFICES ASSUME Current', rec'.pc \in {"status", "idle"} PROVE service' = PortsOf(cr'.spec)
  BY DEF ServiceIsSet
<1>1. ~StartReconcile
  BY StartFields DEF BuiltInv
<1>2. Current /\ cr' = cr
  BY <1>1, Undisturbed DEF BuiltInv
<1>3. CASE ReconcileService
  <2>1. service' = PortsOf(rec.spec) /\ rec.pc = "service"
    BY <1>3 DEF ReconcileService
  <2> QED
    BY <1>2, <2>1 DEF BuiltInv, SpecIsCurrent
<1>4. CASE ~ReconcileService
  <2>1. rec.pc \in {"status", "idle"}
    BY <1>1, <1>4, Transitions DEF BuiltInv
  <2> QED
    BY <1>2, <1>4, <2>1, ServiceKept DEF BuiltInv, ServiceIsSet
<1> QED
  BY <1>3, <1>4

LEMMA BuiltInit == Init => BuiltInv
<1> SUFFICES ASSUME Init PROVE BuiltInv
  OBVIOUS
<1>1. queued = TRUE /\ rec = Idle
  BY Zenon DEF Init
<1>2. ~Current /\ rec.hash = NoConfig /\ rec.pc = "idle"
  BY <1>1 DEF Current, Idle
<1> QED
  BY <1>2, ChildInit DEF BuiltInv, SpecIsCurrent, HashIsCurrent, ConfigIsSet, PVCIsSet,
     RBACIsSet, SidecarIsWanted, PolicyIsSet, TemplateIsSet, ServiceIsSet

LEMMA BuiltStep == BuiltInv /\ [Next]_vars => BuiltInv'
<1> SUFFICES ASSUME BuiltInv, [Next]_vars PROVE BuiltInv'
  OBVIOUS
<1>1. ChildInv'
  BY ChildStep DEF BuiltInv
<1>2. SpecIsCurrent' /\ HashIsCurrent'
  BY SpecCurrentStep, HashCurrentStep
<1>3. ConfigIsSet' /\ RBACIsSet' /\ PolicyIsSet' /\ TemplateIsSet' /\ ServiceIsSet'
  BY ConfigSetStep, RBACSetStep, PolicySetStep, TemplateSetStep, ServiceSetStep
<1>4. PVCIsSet' /\ SidecarIsWanted'
  BY PVCSetStep, SidecarWantedStep
<1> QED
  BY <1>1, <1>2, <1>3, <1>4 DEF BuiltInv

\* What is asked for, in terms of the stored spec.
LEMMA WantedIsStored ==
  ASSUME ChildInv
  PROVE  /\ Wanted.groups = cr.spec.groups /\ Wanted.sidecar = cr.spec.sidecar
         /\ PortsOf(Wanted) = PortsOf(cr.spec) /\ OpenPorts(Wanted) = OpenPorts(cr.spec)
         /\ WantedConfig = HashOf(cr.spec)
         /\ \A h : TemplateOf(Wanted, h) = TemplateOf(cr.spec, h)
<1>1. cr.spec \in SpecType
  BY DEF ChildInv, ObjectInv, ServerType
<1>2. /\ Wanted.groups = cr.spec.groups /\ Wanted.sidecar = cr.spec.sidecar
      /\ PortsOf(Wanted) = PortsOf(cr.spec) /\ OpenPorts(Wanted) = OpenPorts(cr.spec)
      /\ ConfigOf(Wanted, password) = ConfigOf(cr.spec, password)
      /\ \A h : TemplateOf(Wanted, h) = TemplateOf(cr.spec, h)
  BY <1>1, DefaultsAgree DEF Wanted
<1>3. WantedConfig = HashOf(cr.spec)
  BY <1>2 DEF WantedConfig, HashOf
<1> QED
  BY <1>2, <1>3

\* For every set of requests and every interleaving of edits, password changes, evictions,
\* reports and failed calls: an operator at rest has left the config Secret, the volume,
\* the RBAC objects, policy, StatefulSet and Service that the stored spec asks for.
THEOREM ChildrenAtRest == Spec => []RestChildrenAgree
<1>1. BuiltInv => RestChildrenAgree
  <2> SUFFICES ASSUME BuiltInv, Rest PROVE ChildrenAgree
    BY DEF RestChildrenAgree
  <2>1. rec.pc = "idle" /\ Current /\ ~Deferred
    BY DEF Rest, Current, Deferred
  <2>2. ChildInv
    BY DEF BuiltInv
  <2>3. pvc # 0 /\ sts.exists /\ sts.tmpl = TemplateOf(Wanted, WantedConfig)
    BY <2>1, <2>2, WantedIsStored DEF BuiltInv, PVCIsSet, TemplateIsSet
  <2>4. netpol = OpenPorts(Wanted) /\ service = PortsOf(Wanted)
    BY <2>1, <2>2, WantedIsStored DEF BuiltInv, PolicyIsSet, ServiceIsSet
  <2>5. Wanted.groups => config = WantedConfig
    BY <2>1, <2>2, WantedIsStored DEF BuiltInv, ConfigIsSet, HashOf
  <2>6. Wanted.sidecar => rbac = RBACObjects
    <3>1. rbac \subseteq {"account", "role", "binding"}
      BY DEF BuiltInv, ChildInv, Volumes, RBACObjects
    <3>2. Wanted.sidecar => "account" \in rbac /\ "role" \in rbac /\ "binding" \in rbac
      BY <2>1, <2>2, WantedIsStored DEF BuiltInv, RBACIsSet
    <3> QED
      BY <3>1, <3>2 DEF RBACObjects
  <2> QED
    BY <2>3, <2>4, <2>5, <2>6 DEF ChildrenAgree
<1> QED
  BY <1>1, BuiltInit, BuiltStep, PTL DEF Spec

\* Everything a pod of the current template names is there: its account, its volume and
\* the config Secret.
NewPodCanStart == /\ sts.exists /\ VolumesExist(sts.tmpl)
                  /\ sts.tmpl.sidecar => "account" \in rbac

\* For every set of requests and every interleaving: once the operator rests, a pod that
\* CreatePod makes can start, however often it is evicted; only while an update is deferred
\* can the objects a pod depends on run ahead of the template.
THEOREM StartsAtRest == Spec => [](Rest => NewPodCanStart)
<1>1. BuiltInv /\ RestChildrenAgree => (Rest => NewPodCanStart)
  <2> SUFFICES ASSUME BuiltInv, ChildrenAgree PROVE NewPodCanStart
    BY DEF RestChildrenAgree
  <2>1. pvc # 0 /\ sts.exists /\ sts.tmpl = TemplateOf(Wanted, WantedConfig)
    BY DEF ChildrenAgree
  <2>2. sts.tmpl.mount = Wanted.groups /\ sts.tmpl.sidecar = Wanted.sidecar
    <3>1. \A s, h : TemplateOf(s, h).mount = s.groups /\ TemplateOf(s, h).sidecar = s.sidecar
      BY Zenon DEF TemplateOf
    <3> QED
      BY <2>1, <3>1, Zenon
  <2>3. ASSUME Wanted.groups PROVE config # NoConfig
    <3>1. config = <<Or(Wanted.port, DefaultPort), password>>
      BY <2>3 DEF ChildrenAgree, WantedConfig, ConfigOf
    <3> QED
      BY <3>1 DEF NoConfig
  <2>4. Wanted.sidecar => "account" \in rbac
    BY DEF ChildrenAgree, RBACObjects
  <2> QED
    BY <2>1, <2>2, <2>3, <2>4 DEF NewPodCanStart, VolumesExist
<1> QED
  BY <1>1, ChildrenAtRest, BuiltInit, BuiltStep, PTL DEF Spec

-----------------------------------------------------------------------------
(* Writing again what is there already.                                     *)

\* A step that neither starts nor fails a reconcile moves it on, or is no step of it.
LEMMA MovesOn ==
  ASSUME [Next]_vars, ~queued, ~queued', rec' # rec
  PROVE  /\ ~ReturnError /\ Reconcile /\ ~StartReconcile
<1>1. ~ReturnError /\ ~StartReconcile
  BY DEF ReturnError, StartReconcile
<1>2. CASE ~Reconcile
  <2>1. rec' = rec
    BY <1>1, <1>2 DEF Next, ChildConflict, ApiFault, SyncCR, SyncChild, SyncConfig, TimerFires,
       UserEdit, PasswordChange, RollPod, Evict, CreatePod, StartPod, PodBecomes, Join, Leave,
       SidecarReports, vars
  <2> QED
    BY <2>1
<1> QED
  BY <1>1, <1>2

\* Whatever the requests, a reconcile that finds the children as the stored spec wants
\* them, undisturbed, leaves every one of them as it is and causes no watch event: its copy
\* of the spec and its hash are the current ones.
THEOREM QuietWhenAgreed == Spec => AgreedIsQuiet
<1> DEFINE Quiet == ChildrenAgree /\ fresh.seen /\ ~queued /\ ~queued' /\ rec' # rec
                    => /\ UNCHANGED <<pvc, rbac, netpol, service, sts, event>>
                       /\ Wanted.groups => config' = config
<1>1. BuiltInv /\ [Next]_vars => Quiet
  <2> SUFFICES ASSUME BuiltInv, [Next]_vars, ChildrenAgree, fresh.seen, ~queued, ~queued',
                      rec' # rec
               PROVE  /\ UNCHANGED <<pvc, rbac, netpol, service, sts, event>>
                      /\ Wanted.groups => config' = config
    OBVIOUS
  <2>0. ~ReturnError /\ Reconcile /\ ~StartReconcile
    BY MovesOn
  <2>1. /\ pvc # 0 /\ sts.exists /\ sts.tmpl = TemplateOf(cr.spec, HashOf(cr.spec))
        /\ netpol = OpenPorts(cr.spec) /\ service = PortsOf(cr.spec)
        /\ cr.spec.groups => config = ConfigOf(cr.spec, password)
        /\ cr.spec.sidecar => rbac = RBACObjects
        /\ Wanted.groups = cr.spec.groups
    BY WantedIsStored DEF BuiltInv, ChildrenAgree, HashOf
  <2>2. Current /\ event \in BOOLEAN /\ sts \in StatefulSetType
    BY DEF Current, BuiltInv, ChildInv, Flags, StatefulSetInv
  <2>3. rec.pc \notin {"idle", "status"} => rec.spec = cr.spec
    BY <2>2 DEF BuiltInv, SpecIsCurrent
  <2>4. CASE AddFinalizer \/ UpdateStatus
    BY <2>0, <2>4 DEF AddFinalizer, UpdateStatus, childVars
  <2>5. CASE ReconcilePVC
    BY <2>1, <2>5 DEF ReconcilePVC
  <2>6. CASE ReconcileConfig
    <3>1. UNCHANGED <<pvc, rbac, netpol, service, sts, event>> /\ rec.spec = cr.spec
      BY <2>0, <2>3, <2>6 DEF ReconcileConfig, WriteConfig, CleanupConfig
    <3>2. cr.spec.groups => config' = ConfigOf(cr.spec, password)
      BY <2>0, <2>6, <3>1 DEF ReconcileConfig, WriteConfig, StoreConfig
    <3> QED
      BY <2>1, <3>1, <3>2
  <2>7. CASE ReconcileSidecarRBAC
    <3>1. PICK object \in RBACObjects :
            /\ rec.pc = object /\ rbac' = rbac \cup {object} /\ Notify(object \notin rbac)
            /\ UNCHANGED <<config, pvc, netpol, service, sts>>
      BY <2>7 DEF ReconcileSidecarRBAC, ReconcileRBAC, RBACObjects
    <3>2. object \in rbac
      BY <2>1, <2>2, <3>1 DEF BuiltInv, SidecarIsWanted
    <3>3. rbac' = rbac
      BY <3>1, <3>2
    <3>4. event' = event
      BY <2>2, <3>1, <3>2 DEF Notify
    <3> QED
      BY <3>1, <3>3, <3>4
  <2>8. CASE ReconcileNetworkPolicy
    <3>1. netpol' = netpol
      BY <2>1, <2>3, <2>8 DEF ReconcileNetworkPolicy
    <3>2. event' = event
      BY <2>2, <2>8, <3>1 DEF ReconcileNetworkPolicy, Notify
    <3> QED
      BY <2>8, <3>1, <3>2 DEF ReconcileNetworkPolicy
  <2>9. CASE ReconcileStatefulSet
    <3>1. rec.spec = cr.spec /\ rec.hash = HashOf(cr.spec)
      BY <2>2, <2>3, <2>9 DEF ReconcileStatefulSet, BuiltInv, HashIsCurrent
    <3>2. sts' = sts \/ sts' = [sts EXCEPT !.tmpl = TemplateOf(rec.spec, rec.hash)]
      BY <2>1, <2>9 DEF ReconcileStatefulSet
    <3>3. sts' = sts \/ sts' = [sts EXCEPT !.tmpl = sts.tmpl]
      BY <2>1, <3>1, <3>2
    <3>4. sts' = sts
      BY <2>2, <3>3 DEF StatefulSetType
    <3>5. event' = event
      BY <2>2, <2>9, <3>4 DEF ReconcileStatefulSet, Notify
    <3> QED
      BY <2>9, <3>4, <3>5 DEF ReconcileStatefulSet
  <2>10. CASE ReconcileService
    <3>1. service' = service
      BY <2>1, <2>3, <2>10 DEF ReconcileService
    <3>2. event' = event
      BY <2>2, <2>10, <3>1 DEF ReconcileService, Notify
    <3> QED
      BY <2>10, <3>1, <3>2 DEF ReconcileService
  <2> QED
    BY <2>0, <2>4, <2>5, <2>6, <2>7, <2>8, <2>9, <2>10 DEF Reconcile
<1> QED
  BY <1>1, BuiltInit, BuiltStep, PTL DEF Spec, AgreedIsQuiet
=============================================================================
