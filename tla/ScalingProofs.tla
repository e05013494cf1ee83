---------------------------- MODULE ScalingProofs ----------------------------
(* What the operator has brought about when it rests, and what applying a   *)
(* recommendation may not do, for every set of specs and requests.          *)
EXTENDS VerticalScaling, TLAPS

-----------------------------------------------------------------------------
(* Types.                                                                   *)

RecType == [pc : {"idle", "vpa", "apply", "statefulset"}, spec : Specs, busy : BOOLEAN]

LEMMA AbsentTypes == Unset \in Requests /\ NoVPA \in VPAType /\ NoStatefulSet \in StatefulSetType
BY RequestsAssumption DEF NoVPA, VPAType, NoStatefulSet, StatefulSetType

LEMMA SpendType ==
  ASSUME spent \in [EventKind -> Nat], NEW kind \in EventKind, Spend(kind)
  PROVE  spent' \in [EventKind -> Nat]
BY DEF Spend

LEMMA GotoFields ==
  ASSUME rec \in RecType, NEW step \in {"idle", "vpa", "apply", "statefulset"}, Goto(step)
  PROVE  rec' \in RecType /\ rec'.pc = step /\ rec'.spec = rec.spec /\ rec'.busy = rec.busy
BY DEF RecType, Goto

\* What is applied is made of the requests at hand.
LEMMA RecommendedType ==
  ASSUME NEW current \in Requests, NEW target \in Requests
  PROVE  Recommended(current, target) \in Requests
<1>1. PICK a \in {current, target}, b \in {current, target} :
        Recommended(current, target) = [cpu |-> a.cpu, mem |-> b.mem]
  BY DEF Recommended
<1> QED
  BY <1>1, RequestsAssumption

\* A recommendation applied for a server with players leaves its memory or raises it.
LEMMA RecommendedMemory ==
  ASSUME NEW current \in Requests, NEW target \in Requests, rec.busy
  PROVE  Recommended(current, target).mem >= current.mem
<1>1. current.mem \in Nat /\ target.mem \in Nat
  BY RequestsAssumption
<1>2. Recommended(current, target).mem
        = IF target.mem = 0 \/ (current.mem # 0 /\ target.mem < current.mem /\ rec.busy)
          THEN current.mem ELSE target.mem
  BY DEF Recommended
<1> QED
  BY <1>1, <1>2

-----------------------------------------------------------------------------
(* The effect of each step on the StatefulSet and its copy.                 *)

StatefulSets ==
  /\ sts \in StatefulSetType /\ stsSeen \in StatefulSetType /\ fresh \in BOOLEAN
  /\ fresh => stsSeen = sts

LEMMA StoreRequestsFields ==
  ASSUME fresh \in BOOLEAN, NEW r \in Requests, StoreRequests(r)
  PROVE  /\ sts' \in StatefulSetType /\ sts'.exists /\ sts'.requests = r
         /\ fresh' \in BOOLEAN /\ (fresh' => fresh /\ sts' = sts)
BY DEF StoreRequests, StatefulSetType

\* applyVPARecommendation goes on, having written nothing or what it computed from a
\* live copy, or it returns an error.
LEMMA ApplyEffect ==
  ASSUME ApplyVPARecommendation
  PROVE  \/ Goto("statefulset") /\ UNCHANGED <<stsVars, queued>>
         \/ /\ fresh /\ StoreRequests(Recommended(stsSeen.requests, vpa.target))
            /\ Goto("statefulset") /\ UNCHANGED <<stsSeen, queued>>
         \/ ReturnError
<1> DEFINE new == Recommended(stsSeen.requests, vpa.target)
<1>1. CASE ~HasRecommendation
  BY <1>1 DEF ApplyVPARecommendation
<1>2. CASE HasRecommendation
  <2>1. \/ Goto("statefulset") /\ UNCHANGED <<stsVars, queued>>
        \/ fresh /\ StoreRequests(new) /\ Goto("statefulset") /\ UNCHANGED <<stsSeen, queued>>
        \/ ReturnError
    <3> HIDE DEF new
    <3> QED
      BY <1>2 DEF ApplyVPARecommendation, new
  <2> QED
    BY <2>1
<1> QED
  BY <1>1, <1>2

LEMMA StatefulSetEffect ==
  ASSUME ReconcileStatefulSet
  PROVE  \/ Goto("idle") /\ timer' = TRUE /\ UNCHANGED <<stsVars, queued>>
         \/ /\ StoreRequests(rec.spec.requests)
            /\ Goto("idle") /\ UNCHANGED <<stsSeen, queued, timer>>
         \/ ReturnError /\ UNCHANGED timer
BY DEF ReconcileStatefulSet

\* The steps that write neither.
LEMMA StatefulSetsKept ==
  ASSUME [Next]_vars, ~ApplyVPARecommendation, ~ReconcileStatefulSet, ~SyncSTS, ~UserRemovesSTS
  PROVE  UNCHANGED stsVars
BY DEF Next, Reconcile, Outside, StartReconcile, ReconcileVPA, DisabledGetFails, ApiFault,
       ReturnError, TimerFires, UserEdit, PatchServerStatus, Recommend, vars, stsVars

LEMMA StatefulSetsStep ==
  ASSUME StatefulSets, rec \in RecType, vpa \in VPAType, [Next]_vars
  PROVE  StatefulSets'
<1>1. ASSUME NEW r \in Requests, StoreRequests(r), stsSeen' = stsSeen PROVE StatefulSets'
  BY <1>1, StoreRequestsFields DEF StatefulSets
<1>2. ASSUME UNCHANGED stsVars PROVE StatefulSets'
  BY <1>2 DEF stsVars, StatefulSets
<1>3. CASE ApplyVPARecommendation
  <2>1. Recommended(stsSeen.requests, vpa.target) \in Requests
    BY RecommendedType DEF StatefulSets, StatefulSetType, VPAType
  <2> QED
    BY <1>1, <1>2, <1>3, <2>1, ApplyEffect DEF ReturnError
<1>4. CASE ReconcileStatefulSet
  <2>1. rec.spec.requests \in Requests
    BY SpecsAssumption DEF RecType, SpecType
  <2> QED
    BY <1>1, <1>2, <1>4, <2>1, StatefulSetEffect DEF ReturnError
<1>5. CASE SyncSTS
  BY <1>5 DEF SyncSTS, StatefulSets
<1>6. CASE UserRemovesSTS
  BY <1>6, AbsentTypes DEF UserRemovesSTS, StatefulSets
<1> QED
  BY <1>2, <1>3, <1>4, <1>5, <1>6, StatefulSetsKept

-----------------------------------------------------------------------------
(* The CR, the VPA, the reconcile and the work queue.                       *)

Inputs == spec \in Specs /\ busy \in BOOLEAN /\ crd \in BOOLEAN

LEMMA InputStep ==
  ASSUME Inputs, [Next]_vars
  PROVE  Inputs' /\ crd' = crd
<1>1. ASSUME NEW s \in Specs, UserEdit(s) PROVE Inputs' /\ crd' = crd
  BY <1>1 DEF UserEdit, Inputs
<1>2. CASE PatchServerStatus
  BY <1>2 DEF PatchServerStatus, Inputs
<1>3. CASE /\ [Next]_vars /\ ~PatchServerStatus /\ ~\E s \in Specs : UserEdit(s)
  <2>1. UNCHANGED <<spec, busy, crd>>
    BY <1>3 DEF Next, Reconcile, Outside, StartReconcile, ReconcileVPA, ApplyVPARecommendation,
       ReconcileStatefulSet, DisabledGetFails, ApiFault, SyncSTS, TimerFires, Recommend,
       UserRemovesSTS, vars
  <2> QED
    BY <2>1 DEF Inputs
<1> QED
  BY <1>1, <1>2, <1>3

LEMMA ModeType == UpdateMode \in {"Off", "InPlace"}
BY DEF UpdateMode

LEMMA VPAStep ==
  ASSUME vpa \in VPAType, rec \in RecType, [Next]_vars
  PROVE  vpa' \in VPAType
<1>1. CASE ReconcileVPA
  <2>1. rec.spec.bounds \in {1, 2}
    BY SpecsAssumption DEF RecType, SpecType
  <2>2. \/ vpa' = NoVPA \/ vpa' = vpa
        \/ vpa' = [exists |-> TRUE, mode |-> UpdateMode, bounds |-> rec.spec.bounds,
                   target |-> Unset]
        \/ vpa' = [vpa EXCEPT !.mode = UpdateMode, !.bounds = rec.spec.bounds]
    BY <1>1 DEF ReconcileVPA
  <2>3. [exists |-> TRUE, mode |-> UpdateMode, bounds |-> rec.spec.bounds, target |-> Unset]
          \in VPAType
    BY <2>1, ModeType, AbsentTypes DEF VPAType
  <2>4. [vpa EXCEPT !.mode = UpdateMode, !.bounds = rec.spec.bounds] \in VPAType
    BY <2>1, ModeType DEF VPAType
  <2> QED
    BY <2>2, <2>3, <2>4, AbsentTypes
<1>2. ASSUME NEW t \in Requests, Recommend(t) PROVE vpa' \in VPAType
  BY <1>2 DEF Recommend, VPAType
<1>3. CASE [Next]_vars /\ ~ReconcileVPA /\ ~\E t \in Requests : Recommend(t)
  <2>1. vpa' = vpa
    BY <1>3 DEF Next, Reconcile, Outside, StartReconcile, ApplyVPARecommendation,
       ReconcileStatefulSet, DisabledGetFails, ApiFault, SyncSTS, TimerFires, UserEdit,
       PatchServerStatus, UserRemovesSTS, vars
  <2> QED
    BY <2>1
<1> QED
  BY <1>1, <1>2, <1>3

\* A running reconcile goes on with the copy it has, or ends; the steps of others leave
\* it alone.
LEMMA RecEffect ==
  ASSUME rec \in RecType, [Next]_vars, ~StartReconcile
  PROVE  rec' \in RecType /\ rec'.spec = rec.spec /\ rec'.busy = rec.busy
<1>1. ReturnError => Goto("idle")
  BY DEF ReturnError
<1>2. CASE ApplyVPARecommendation \/ ReconcileStatefulSet
  <2>1. Goto("idle") \/ Goto("statefulset")
    BY <1>1, <1>2, ApplyEffect, StatefulSetEffect
  <2> QED
    BY <2>1, GotoFields
<1>3. CASE ReconcileVPA \/ DisabledGetFails \/ ApiFault
  <2>1. Goto("apply") \/ Goto("idle")
    BY <1>1, <1>3 DEF ReconcileVPA, DisabledGetFails, ApiFault
  <2> QED
    BY <2>1, GotoFields
<1>4. CASE ~Reconcile /\ ~DisabledGetFails /\ ~ApiFault
  <2>1. rec' = rec
    BY <1>4 DEF Next, Outside, SyncSTS, TimerFires, UserEdit, PatchServerStatus, Recommend,
       UserRemovesSTS, vars
  <2> QED
    BY <2>1
<1> QED
  BY <1>2, <1>3, <1>4 DEF Reconcile

LEMMA StartFields ==
  ASSUME Inputs, StartReconcile
  PROVE  rec' \in RecType /\ rec'.pc = "vpa" /\ rec'.spec = spec /\ rec'.busy = busy
BY DEF StartReconcile, RecType, Inputs

LEMMA RecStep ==
  ASSUME rec \in RecType, Inputs, [Next]_vars
  PROVE  rec' \in RecType
BY RecEffect, StartFields

Flags == queued \in BOOLEAN /\ timer \in BOOLEAN

LEMMA FlagStep ==
  ASSUME Flags, [Next]_vars
  PROVE  Flags'
<1>1. ReturnError => queued' = TRUE
  BY DEF ReturnError
<1>2. CASE ApplyVPARecommendation
  <2>1. queued' \in {queued, TRUE} /\ timer' = timer
    BY <1>1, <1>2, ApplyEffect DEF ApplyVPARecommendation
  <2> QED
    BY <2>1 DEF Flags
<1>3. CASE ReconcileStatefulSet
  <2>1. queued' \in {queued, TRUE} /\ timer' \in {timer, TRUE}
    BY <1>1, <1>3, StatefulSetEffect
  <2> QED
    BY <2>1 DEF Flags
<1>4. CASE [Next]_vars /\ ~ApplyVPARecommendation /\ ~ReconcileStatefulSet
  BY <1>1, <1>4 DEF Flags, Next, Reconcile, Outside, StartReconcile, ReconcileVPA,
     DisabledGetFails, ApiFault, SyncSTS, TimerFires, UserEdit, PatchServerStatus, Recommend,
     UserRemovesSTS, vars
<1> QED
  BY <1>2, <1>3, <1>4

LEMMA SpentStep ==
  ASSUME spent \in [EventKind -> Nat], [Next]_vars
  PROVE  spent' \in [EventKind -> Nat]
<1>1. CASE \E kind \in EventKind : Spend(kind)
  BY <1>1, SpendType
<1>2. CASE Outside
  <2>1. \E kind \in EventKind : Spend(kind)
    BY <1>2 DEF Outside, DisabledGetFails, ApiFault, UserEdit, PatchServerStatus, Recommend,
       UserRemovesSTS, EventKind
  <2> QED
    BY <1>1, <2>1
<1>3. CASE ~Outside
  <2>1. spent' = spent
    BY <1>3 DEF Next, Reconcile, StartReconcile, ReconcileVPA, ApplyVPARecommendation,
       ReconcileStatefulSet, SyncSTS, TimerFires, vars
  <2> QED
    BY <2>1
<1> QED
  BY <1>2, <1>3

Types == Inputs /\ vpa \in VPAType /\ StatefulSets /\ rec \in RecType /\ Flags
         /\ spent \in [EventKind -> Nat]

LEMMA TypesStep ==
  ASSUME Types, [Next]_vars
  PROVE  Types'
BY InputStep, VPAStep, StatefulSetsStep, RecStep, FlagStep, SpentStep DEF Types

LEMMA TypesInit ==
  ASSUME Init
  PROVE  Types
<1>1. /\ spec \in Specs /\ busy = FALSE /\ crd \in BOOLEAN /\ vpa = NoVPA
      /\ sts = NoStatefulSet /\ stsSeen = NoStatefulSet /\ fresh = TRUE
      /\ rec = [pc |-> "idle", spec |-> spec, busy |-> FALSE]
      /\ queued = TRUE /\ timer = FALSE /\ spent = [k \in EventKind |-> 0]
  BY Zenon DEF Init
<1>2. rec \in RecType
  BY <1>1 DEF RecType
<1>3. spent \in [EventKind -> Nat]
  BY <1>1
<1> QED
  BY <1>1, <1>2, <1>3, AbsentTypes DEF Types, Inputs, StatefulSets, Flags

LEMMA TypesParts == Types => TypeOK
BY DEF Types, Inputs, StatefulSets, RecType, Flags, TypeOK

-----------------------------------------------------------------------------
(* The inductive invariant.                                                 *)

\* A copy of the spec is the spec, or the change has queued the server again.
SpecIsCurrent == rec.pc # "idle" /\ ~queued => rec.spec = spec

\* Past reconcileVPA the VPA has the mode the spec asks for.
VPAIsSet ==
  rec.pc # "vpa" /\ ~queued /\ spec.mode # "Disabled" /\ crd
  => vpa.exists /\ (vpa.mode = "InPlace" <=> spec.mode = "InPlace")

\* ... or is gone, unless a call has failed.
VPAIsGone ==
  rec.pc # "vpa" /\ ~queued /\ spec.mode = "Disabled" /\ spent["fault"] = 0 => ~vpa.exists

\* This holds in WhenIdle mode too, where the documentation says otherwise
\* (RecommendationSticks): what applyVPARecommendation wrote is gone at rest.
RequestsAreSet == AtRest => sts.exists /\ sts.requests = spec.requests

ScalingInv == Types /\ SpecIsCurrent /\ VPAIsSet /\ VPAIsGone /\ RequestsAreSet

\* Once queued, the server stays queued until the next reconcile starts.
LEMMA QueueKept ==
  ASSUME Types, [Next]_vars, ~queued', ~StartReconcile
  PROVE  /\ ~queued /\ spec' = spec /\ ~ReturnError
         /\ ~SyncSTS /\ ~TimerFires /\ ~ApiFault
<1>1. ~ReturnError /\ ~SyncSTS /\ ~TimerFires /\ ~ApiFault
  BY DEF ReturnError, SyncSTS, TimerFires, ApiFault
<1>2. queued' = queued
  <2>1. CASE ApplyVPARecommendation \/ ReconcileStatefulSet
    BY <1>1, <2>1, ApplyEffect, StatefulSetEffect
  <2>2. CASE ~ApplyVPARecommendation /\ ~ReconcileStatefulSet
    BY <1>1, <2>2 DEF Next, Reconcile, Outside, ReconcileVPA, DisabledGetFails, UserEdit,
       PatchServerStatus, Recommend, UserRemovesSTS, vars
  <2> QED
    BY <2>1, <2>2
<1>3. spec' = spec
  BY <1>1 DEF Next, Reconcile, Outside, ReconcileVPA, ApplyVPARecommendation,
     ReconcileStatefulSet, DisabledGetFails, UserEdit, PatchServerStatus, Recommend,
     UserRemovesSTS, vars
<1> QED
  BY <1>1, <1>2, <1>3

\* Only StartReconcile wakes an idle worker.
LEMMA WakesOnlyAtStart ==
  ASSUME Types, [Next]_vars, rec.pc = "idle", ~StartReconcile
  PROVE  rec' = rec
BY DEF Next, Reconcile, Outside, ReconcileVPA, ApplyVPARecommendation, ReconcileStatefulSet,
       DisabledGetFails, ApiFault, SyncSTS, TimerFires, UserEdit, PatchServerStatus, Recommend,
       UserRemovesSTS, vars

LEMMA CurrentStep ==
  ASSUME ScalingInv, [Next]_vars
  PROVE  SpecIsCurrent'
<1>1. CASE StartReconcile
  <2>1. rec'.spec = spec /\ spec' = spec
    BY <1>1, StartFields DEF ScalingInv, Types, StartReconcile
  <2> QED
    BY <2>1 DEF SpecIsCurrent
<1>2. CASE ~StartReconcile
  <2> SUFFICES ASSUME rec'.pc # "idle", ~queued' PROVE rec'.spec = spec'
    BY DEF SpecIsCurrent
  <2>1. ~queued /\ spec' = spec
    BY <1>2, QueueKept DEF ScalingInv
  <2>2. rec.pc # "idle"
    BY <1>2, WakesOnlyAtStart DEF ScalingInv
  <2>3. rec'.spec = rec.spec
    BY <1>2, RecEffect DEF ScalingInv, Types
  <2> QED
    BY <2>1, <2>2, <2>3 DEF ScalingInv, SpecIsCurrent
<1> QED
  BY <1>1, <1>2

LEMMA VPAWritten ==
  ASSUME Types, ReconcileVPA, rec.spec.mode # "Disabled", crd
  PROVE  vpa'.exists /\ (vpa'.mode = "InPlace" <=> rec.spec.mode = "InPlace")
<1>1. UpdateMode = "InPlace" <=> rec.spec.mode = "InPlace"
  BY DEF UpdateMode
<1>2. CASE ~vpa.exists
  <2>1. vpa' = [exists |-> TRUE, mode |-> UpdateMode, bounds |-> rec.spec.bounds,
                target |-> Unset]
    BY <1>2 DEF ReconcileVPA
  <2> QED
    BY <1>1, <2>1
<1>3. CASE vpa.exists /\ vpa.mode # UpdateMode
  <2>1. vpa' = [vpa EXCEPT !.mode = UpdateMode, !.bounds = rec.spec.bounds]
    BY <1>3 DEF ReconcileVPA
  <2>2. vpa'.exists = vpa.exists /\ vpa'.mode = UpdateMode
    BY <2>1 DEF Types, VPAType
  <2> QED
    BY <1>1, <1>3, <2>2
<1>4. CASE vpa.exists /\ vpa.mode = UpdateMode
  <2>1. vpa' = vpa
    BY <1>4 DEF ReconcileVPA
  <2> QED
    BY <1>1, <1>4, <2>1
<1> QED
  BY <1>2, <1>3, <1>4

LEMMA VPASetStep ==
  ASSUME ScalingInv, [Next]_vars
  PROVE  VPAIsSet'
<1> SUFFICES ASSUME rec'.pc # "vpa", ~queued', spec'.mode # "Disabled", crd'
             PROVE  vpa'.exists /\ (vpa'.mode = "InPlace" <=> spec'.mode = "InPlace")
  BY DEF VPAIsSet
<1>0. ~StartReconcile
  BY StartFields DEF ScalingInv, Types
<1>1. ~queued /\ spec' = spec /\ crd
  BY <1>0, QueueKept, InputStep DEF ScalingInv, Types
<1>2. CASE rec.pc = "vpa"
  <2>1. rec.spec = spec
    BY <1>1, <1>2 DEF ScalingInv, SpecIsCurrent
  <2>2. ReconcileVPA
    <3>1. ~ApiFault
      BY <1>0, QueueKept DEF ScalingInv
    <3>2. ~DisabledGetFails
      BY <1>1, <2>1 DEF DisabledGetFails
    <3>3. rec' # rec
      BY <1>2
    <3> QED
      BY <1>0, <1>2, <3>1, <3>2, <3>3 DEF Next, Reconcile, Outside, ApplyVPARecommendation,
         ReconcileStatefulSet, SyncSTS, TimerFires, UserEdit, PatchServerStatus, Recommend,
         UserRemovesSTS, vars
  <2> QED
    BY <1>1, <2>1, <2>2, VPAWritten DEF ScalingInv
<1>3. CASE rec.pc # "vpa"
  <2>1. vpa.exists /\ (vpa.mode = "InPlace" <=> spec.mode = "InPlace")
    BY <1>1, <1>3 DEF ScalingInv, VPAIsSet
  <2>2. vpa'.exists = vpa.exists /\ vpa'.mode = vpa.mode
    <3>1. ASSUME NEW t, Recommend(t) PROVE vpa'.exists = vpa.exists /\ vpa'.mode = vpa.mode
      BY <3>1 DEF Recommend, ScalingInv, Types, VPAType
    <3>2. CASE ~\E t \in Requests : Recommend(t)
      BY <1>3, <3>2 DEF Next, Reconcile, Outside, StartReconcile, ReconcileVPA,
         ApplyVPARecommendation, ReconcileStatefulSet, DisabledGetFails, ApiFault, SyncSTS,
         TimerFires, UserEdit, PatchServerStatus, UserRemovesSTS, vars
    <3> QED
      BY <3>1, <3>2
  <2> QED
    BY <1>1, <2>1, <2>2
<1> QED
  BY <1>2, <1>3

LEMMA FaultsCounted ==
  ASSUME Types, [Next]_vars, spent'["fault"] = 0
  PROVE  spent["fault"] = 0 /\ ~DisabledGetFails /\ ~ApiFault
<1>1. spent \in [EventKind -> Nat] /\ spent["fault"] \in Nat
  BY DEF Types, EventKind
<1>2. ASSUME NEW kind \in EventKind, Spend(kind) PROVE spent["fault"] = 0 /\ kind # "fault"
  <2>1. spent'[kind] = spent[kind] + 1 /\ (kind # "fault" => spent'["fault"] = spent["fault"])
    BY <1>1, <1>2 DEF Spend, EventKind
  <2> QED
    BY <1>1, <2>1
<1>3. ~DisabledGetFails /\ ~ApiFault
  BY <1>2 DEF DisabledGetFails, ApiFault, EventKind
<1>4. CASE Outside
  <2>1. \E kind \in EventKind : Spend(kind)
    BY <1>4 DEF Outside, DisabledGetFails, ApiFault, UserEdit, PatchServerStatus, Recommend,
       UserRemovesSTS, EventKind
  <2> QED
    BY <1>2, <1>3, <2>1
<1>5. CASE ~Outside
  <2>1. spent' = spent
    BY <1>5 DEF Next, Reconcile, StartReconcile, ReconcileVPA, ApplyVPARecommendation,
       ReconcileStatefulSet, SyncSTS, TimerFires, vars
  <2> QED
    BY <1>3, <2>1
<1> QED
  BY <1>4, <1>5

LEMMA VPAGoneStep ==
  ASSUME ScalingInv, [Next]_vars
  PROVE  VPAIsGone'
<1> SUFFICES ASSUME rec'.pc # "vpa", ~queued', spec'.mode = "Disabled", spent'["fault"] = 0
             PROVE  ~vpa'.exists
  BY DEF VPAIsGone
<1>0. ~StartReconcile
  BY StartFields DEF ScalingInv, Types
<1>1. ~queued /\ spec' = spec
  BY <1>0, QueueKept DEF ScalingInv
<1>2. spent["fault"] = 0 /\ ~DisabledGetFails /\ ~ApiFault
  BY FaultsCounted DEF ScalingInv
<1>3. CASE rec.pc = "vpa"
  <2>1. rec.spec = spec
    BY <1>1, <1>3 DEF ScalingInv, SpecIsCurrent
  <2>2. ReconcileVPA
    <3>1. rec' # rec
      BY <1>3
    <3> QED
      BY <1>0, <1>2, <1>3, <3>1 DEF Next, Reconcile, Outside, ApplyVPARecommendation,
         ReconcileStatefulSet, SyncSTS, TimerFires, UserEdit, PatchServerStatus, Recommend,
         UserRemovesSTS, vars
  <2>3. vpa' = NoVPA
    BY <1>1, <2>1, <2>2 DEF ReconcileVPA
  <2> QED
    BY <2>3 DEF NoVPA
<1>4. CASE rec.pc # "vpa"
  <2>1. ~vpa.exists
    BY <1>1, <1>2, <1>4 DEF ScalingInv, VPAIsGone
  <2>2. vpa' = vpa
    BY <1>4, <2>1 DEF Next, Reconcile, Outside, StartReconcile, ReconcileVPA,
       ApplyVPARecommendation, ReconcileStatefulSet, DisabledGetFails, ApiFault, SyncSTS,
       TimerFires, UserEdit, PatchServerStatus, Recommend, UserRemovesSTS, vars
  <2> QED
    BY <2>1, <2>2
<1> QED
  BY <1>3, <1>4

\* The last write of a reconcile that ends without an error is the spec's.
LEMMA RequestsSetStep ==
  ASSUME ScalingInv, [Next]_vars
  PROVE  RequestsAreSet'
<1> SUFFICES ASSUME rec'.pc = "idle", ~queued', ~timer', fresh'
             PROVE  sts'.exists /\ sts'.requests = spec'.requests
  BY DEF RequestsAreSet, AtRest
<1>0. ~StartReconcile
  BY StartFields DEF ScalingInv, Types
<1>1. ~queued /\ spec' = spec /\ ~ReturnError /\ ~SyncSTS /\ ~TimerFires /\ ~ApiFault
  BY <1>0, QueueKept DEF ScalingInv
<1>2. ~UserRemovesSTS
  BY DEF UserRemovesSTS
<1>3. CASE ReconcileStatefulSet
  <2>1. StoreRequests(rec.spec.requests)
    BY <1>1, <1>3, StatefulSetEffect
  <2>2. rec.spec = spec
    BY <1>1, <1>3 DEF ReconcileStatefulSet, ScalingInv, SpecIsCurrent
  <2> QED
    BY <1>1, <2>1, <2>2 DEF StoreRequests
<1>4. CASE ~ReconcileStatefulSet
  <2>1. rec' = rec /\ timer' = timer
    <3>1. ~ApplyVPARecommendation
      BY <1>1, ApplyEffect, GotoFields DEF ScalingInv, Types
    <3>2. ~ReconcileVPA /\ ~DisabledGetFails
      BY GotoFields DEF ReconcileVPA, DisabledGetFails, ScalingInv, Types
    <3> QED
      BY <1>0, <1>1, <1>4, <3>1, <3>2 DEF Next, Reconcile, Outside, UserEdit,
         PatchServerStatus, Recommend, UserRemovesSTS, vars
  <2>2. UNCHANGED stsVars
    <3>1. ~ApplyVPARecommendation
      BY <1>1, ApplyEffect, GotoFields DEF ScalingInv, Types
    <3> QED
      BY <1>1, <1>2, <1>4, <3>1, StatefulSetsKept
  <2>3. AtRest
    BY <1>1, <2>1, <2>2 DEF AtRest, stsVars
  <2> QED
    BY <1>1, <2>2, <2>3 DEF ScalingInv, RequestsAreSet, stsVars
<1> QED
  BY <1>3, <1>4

LEMMA ScalingInit == Init => ScalingInv
<1> SUFFICES ASSUME Init PROVE ScalingInv
  OBVIOUS
<1>1. queued
  BY Zenon DEF Init
<1> QED
  BY <1>1, TypesInit DEF ScalingInv, SpecIsCurrent, VPAIsSet, VPAIsGone, RequestsAreSet,
                          AtRest

LEMMA ScalingStep == ScalingInv /\ [Next]_vars => ScalingInv'
BY TypesStep, CurrentStep, VPASetStep, VPAGoneStep, RequestsSetStep DEF ScalingInv

\* A reconcile that no event has overtaken works from the stored spec, past reconcileVPA
\* the VPA has its mode, and at rest the StatefulSet has its requests: in WhenIdle mode
\* too, where applyVPARecommendation had written others.
THEOREM ScalingInvariant == Spec => []ScalingInv
BY ScalingInit, ScalingStep, PTL DEF Spec

-----------------------------------------------------------------------------
(* The properties.                                                          *)

\* Spec, VPA, StatefulSet and the step of the reconcile have their types; in particular
\* what applyVPARecommendation puts together is a pair of requests.
THEOREM ScalingTypes == Spec => []TypeOK
BY ScalingInvariant, TypesParts, PTL DEF ScalingInv

\* For every sequence of modes, recommendations, failures and removals, an operator at
\* rest outside WhenIdle mode has left the spec's requests on the StatefulSet: nothing
\* that applyVPARecommendation wrote earlier stays.
THEOREM RequestsAtRest == Spec => []RestRequestsSpec
<1>1. ScalingInv => RestRequestsSpec
  BY DEF ScalingInv, RequestsAreSet, RestRequestsSpec
<1> QED
  BY <1>1, ScalingInvariant, PTL

\* An operator at rest has a VPA that applies recommendations itself only where the spec
\* says InPlace (reconcileVPA), although VPAs are neither cached nor watched.
THEOREM VPAModeAtRest == Spec => []RestVPAMode
<1>1. ScalingInv => RestVPAMode
  BY DEF ScalingInv, VPAIsSet, RestVPAMode, AtRest
<1> QED
  BY <1>1, ScalingInvariant, PTL

\* Switching scaling off removes the VPA, whatever modes came before and although VPAs
\* are not watched, as long as no call has failed (reconcileVPA takes any failed Get for
\* an absent VPA).
THEOREM VPAGoneAtRest == Spec => []RestVPAGone
<1>1. ScalingInv => RestVPAGone
  BY DEF ScalingInv, VPAIsGone, RestVPAGone, AtRest
<1> QED
  BY <1>1, ScalingInvariant, PTL

\* applyVPARecommendation never lowers stored memory for a reconcile that knows of
\* players: its decision is made on a cached copy, and a write from a copy that is
\* not live is refused.
THEOREM MemoryKeptWhilePlaying == Spec => ApplyKeepsMemoryWhilePlaying
<1> DEFINE Kept == rec.pc = "apply" /\ rec.busy /\ rec'.pc = "statefulset"
                   => sts'.requests.mem >= sts.requests.mem
<1>1. ScalingInv /\ [Next]_vars => Kept
  <2> SUFFICES ASSUME ScalingInv, [Next]_vars, rec.pc = "apply", rec.busy,
                      rec'.pc = "statefulset"
               PROVE  sts'.requests.mem >= sts.requests.mem
    OBVIOUS
  <2>1. sts.requests \in Requests /\ vpa.target \in Requests /\ (fresh => stsSeen = sts)
    BY DEF ScalingInv, Types, StatefulSets, StatefulSetType, VPAType
  <2>2. sts.requests.mem \in Nat
    BY <2>1, RequestsAssumption
  <2>3. CASE sts' = sts
    BY <2>2, <2>3
  <2>4. CASE fresh /\ StoreRequests(Recommended(stsSeen.requests, vpa.target))
    <3>1. sts'.requests = Recommended(sts.requests, vpa.target)
      BY <2>1, <2>4 DEF StoreRequests
    <3> QED
      BY <2>1, <3>1, RecommendedMemory
  <2>5. ApplyVPARecommendation
    <3>1. rec' # rec
      OBVIOUS
    <3>2. ~ApiFault /\ ~StartReconcile
      BY GotoFields, StartFields DEF ApiFault, ReturnError, ScalingInv, Types
    <3> QED
      BY <3>1, <3>2 DEF Next, Reconcile, Outside, ReconcileVPA, ReconcileStatefulSet,
         DisabledGetFails, SyncSTS, TimerFires, UserEdit, PatchServerStatus, Recommend,
         UserRemovesSTS, vars
  <2>6. ~ReturnError
    BY GotoFields DEF ReturnError, ScalingInv, Types
  <2> QED
    BY <2>3, <2>4, <2>5, <2>6, ApplyEffect DEF stsVars
<1> QED
  BY <1>1, ScalingInvariant, PTL DEF Spec, ApplyKeepsMemoryWhilePlaying
=============================================================================
