--------------------------- MODULE VerticalScaling ---------------------------
(***************************************************************************)
(* The vertical scaling of one server: the VerticalPodAutoscaler the       *)
(* operator keeps, and the two writers of the StatefulSet's resource       *)
(* requests in one reconcile, applyVPARecommendation and                   *)
(* reconcileStatefulSet.  VPAs are read from the API server, StatefulSets  *)
(* from the informer cache.  The CR's own cache, its finalizer and its     *)
(* status belong to Reconciler and are taken as current here.              *)
(***************************************************************************)
EXTENDS Integers

CONSTANTS Requests,  \* pairs of a CPU and a memory request; 0 is a missing one
          Specs,     \* the specs the user may apply
          Budget     \* how often each kind of outside event may happen

Mode == {"Disabled", "Off", "WhenIdle", "InPlace"}

\* bounds stands for minAllowed and maxAllowed.
SpecType == [mode : Mode, bounds : {1, 2}, requests : Requests, defer : BOOLEAN]

EventKind == {"edit", "recommend", "players", "removeSTS", "fault"}

Unset == [cpu |-> 0, mem |-> 0]

ASSUME RequestsAssumption ==
  /\ Requests \subseteq [cpu : Nat, mem : Nat] /\ Unset \in Requests
  /\ \A a, b \in Requests : [cpu |-> a.cpu, mem |-> b.mem] \in Requests
ASSUME SpecsAssumption == Specs # {} /\ Specs \subseteq SpecType
ASSUME BudgetAssumption == Budget \in [EventKind -> Nat]

VARIABLES spec,     \* the CR's spec
          busy,     \* the CR's status reports players
          crd,      \* the VPA CRD is installed
          vpa,      \* the VPA, its target Unset without a recommendation
          sts,      \* the stored StatefulSet
          stsSeen,  \* the StatefulSet in the informer cache
          fresh,    \* stsSeen carries the live resourceVersion
          rec,      \* the running reconcile: program counter and CR copy
          queued,   \* the work queue holds the server's key
          timer,    \* a RequeueAfter of one minute is pending
          spent     \* outside events so far, per kind

stsVars == <<sts, stsSeen, fresh>>
vars == <<spec, busy, crd, vpa, sts, stsSeen, fresh, rec, queued, timer, spent>>

VPAType == [exists : BOOLEAN, mode : {"Off", "InPlace"}, bounds : {1, 2}, target : Requests]
NoVPA   == [exists |-> FALSE, mode |-> "Off", bounds |-> 1, target |-> Unset]

StatefulSetType == [exists : BOOLEAN, requests : Requests]
NoStatefulSet   == [exists |-> FALSE, requests |-> Unset]

Init ==
  /\ spec \in Specs /\ busy = FALSE /\ crd \in BOOLEAN
  /\ vpa = NoVPA
  /\ sts = NoStatefulSet /\ stsSeen = NoStatefulSet /\ fresh = TRUE
  /\ rec = [pc |-> "idle", spec |-> spec, busy |-> FALSE]
  /\ queued = TRUE /\ timer = FALSE
  /\ spent = [k \in EventKind |-> 0]

Spend(kind) ==
  /\ spent[kind] < Budget[kind]
  /\ spent' = [spent EXCEPT ![kind] = @ + 1]

Goto(step) == rec' = [rec EXCEPT !.pc = step]

\* The reconcile returns an error and is queued again.
ReturnError == Goto("idle") /\ queued' = TRUE /\ UNCHANGED stsVars

\* An Update that changes nothing keeps the resourceVersion.
StoreRequests(r) ==
  /\ sts' = [exists |-> TRUE, requests |-> r]
  /\ fresh' = (fresh /\ sts' = sts)

-----------------------------------------------------------------------------
(* The reconcile.                                                           *)

StartReconcile ==
  /\ rec.pc = "idle" /\ queued
  /\ rec' = [pc |-> "vpa", spec |-> spec, busy |-> busy]
  /\ queued' = FALSE
  /\ UNCHANGED <<spec, busy, crd, vpa, stsVars, timer, spent>>

\* Mutant: the spec's mode is handed to the VPA as it is.
UpdateModeVerbatim == rec.spec.mode

\* WhenIdle is "Off" to the VPA: the operator applies the recommendation itself.
UpdateMode == IF rec.spec.mode = "InPlace" THEN "InPlace" ELSE "Off"

\* Mutant: an existing VPA is left as it is.
ReconcileVPAOnce ==
  /\ rec.pc = "vpa"
  /\ vpa' = CASE rec.spec.mode = "Disabled" -> NoVPA
              [] rec.spec.mode # "Disabled" /\ crd /\ ~vpa.exists ->
                   [exists |-> TRUE, mode |-> UpdateMode, bounds |-> rec.spec.bounds,
                    target |-> Unset]
              [] OTHER -> vpa
  /\ Goto("apply")
  /\ UNCHANGED <<spec, busy, crd, stsVars, queued, timer, spent>>

\* Mutant: a server without scaling is done before its VPA is deleted.
ReconcileVPAEarlyReturn ==
  /\ rec.pc = "vpa"
  /\ vpa' = CASE rec.spec.mode # "Disabled" /\ crd /\ ~vpa.exists ->
                   [exists |-> TRUE, mode |-> UpdateMode, bounds |-> rec.spec.bounds,
                    target |-> Unset]
              [] rec.spec.mode # "Disabled" /\ crd /\ vpa.exists /\ vpa.mode # UpdateMode ->
                   [vpa EXCEPT !.mode = UpdateMode, !.bounds = rec.spec.bounds]
              [] OTHER -> vpa
  /\ Goto("apply")
  /\ UNCHANGED <<spec, busy, crd, stsVars, queued, timer, spent>>

\* reconcileVPA: nothing without the CRD; bounds are written only with the mode.
ReconcileVPA ==
  /\ rec.pc = "vpa"
  /\ vpa' = CASE rec.spec.mode = "Disabled" -> NoVPA
              [] rec.spec.mode # "Disabled" /\ crd /\ ~vpa.exists ->
                   [exists |-> TRUE, mode |-> UpdateMode, bounds |-> rec.spec.bounds,
                    target |-> Unset]
              [] rec.spec.mode # "Disabled" /\ crd /\ vpa.exists /\ vpa.mode # UpdateMode ->
                   [vpa EXCEPT !.mode = UpdateMode, !.bounds = rec.spec.bounds]
              [] OTHER -> vpa
  /\ Goto("apply")
  /\ UNCHANGED <<spec, busy, crd, stsVars, queued, timer, spent>>

\* A failed Get of the VPA to delete is taken for its absence.
DisabledGetFails ==
  /\ rec.pc = "vpa" /\ rec.spec.mode = "Disabled"
  /\ Spend("fault")
  /\ Goto("apply")
  /\ UNCHANGED <<spec, busy, crd, vpa, stsVars, queued, timer>>

\* Mutant: memory is lowered whoever plays.
RecommendedAtOnce(current, target) ==
  [cpu |-> IF target.cpu = 0 THEN current.cpu ELSE target.cpu,
   mem |-> IF target.mem = 0 THEN current.mem ELSE target.mem]

\* The requests after applying target to current: CPU always, memory down only
\* when the CR's copy reports no players.
Recommended(current, target) ==
  [cpu |-> IF target.cpu = 0 THEN current.cpu ELSE target.cpu,
   mem |-> IF \/ target.mem = 0
              \/ current.mem # 0 /\ target.mem < current.mem /\ rec.busy
           THEN current.mem ELSE target.mem]

HasRecommendation == rec.spec.mode = "WhenIdle" /\ vpa.exists /\ vpa.target # Unset

\* applyVPARecommendation; a missing StatefulSet is an error.
ApplyVPARecommendation ==
  /\ rec.pc = "apply"
  /\ IF ~HasRecommendation
     THEN Goto("statefulset") /\ UNCHANGED <<stsVars, queued>>
     ELSE LET new == Recommended(stsSeen.requests, vpa.target)
          IN  \/ /\ stsSeen.exists /\ new = stsSeen.requests
                 /\ Goto("statefulset") /\ UNCHANGED <<stsVars, queued>>
              \/ /\ stsSeen.exists /\ new # stsSeen.requests /\ fresh
                 /\ StoreRequests(new)
                 /\ Goto("statefulset") /\ UNCHANGED <<stsSeen, queued>>
              \/ /\ ~stsSeen.exists \/ (new # stsSeen.requests /\ ~fresh)
                 /\ ReturnError
  /\ UNCHANGED <<spec, busy, crd, vpa, timer, spent>>

HoldBack == rec.spec.defer /\ rec.busy

\* Mutant: requests are left to whoever set them last.
ReconcileStatefulSetKeeps ==
  /\ rec.pc = "statefulset"
  /\ \/ /\ HoldBack \/ stsSeen.exists
        /\ Goto("idle") /\ timer' = (timer \/ HoldBack) /\ UNCHANGED <<stsVars, queued>>
     \/ /\ ~HoldBack /\ ~stsSeen.exists /\ ~sts.exists
        /\ StoreRequests(rec.spec.requests)
        /\ Goto("idle") /\ UNCHANGED <<stsSeen, queued, timer>>
     \/ /\ ~HoldBack /\ ~stsSeen.exists /\ sts.exists
        /\ ReturnError /\ UNCHANGED timer
  /\ UNCHANGED <<spec, busy, crd, vpa, spent>>

\* reconcileStatefulSet, unless held back: the template's requests are the spec's.
ReconcileStatefulSet ==
  /\ rec.pc = "statefulset"
  /\ \/ /\ HoldBack
        /\ Goto("idle") /\ timer' = TRUE /\ UNCHANGED <<stsVars, queued>>
     \/ /\ ~HoldBack
        /\ IF stsSeen.exists THEN fresh ELSE ~sts.exists
        /\ StoreRequests(rec.spec.requests)
        /\ Goto("idle") /\ UNCHANGED <<stsSeen, queued, timer>>
     \/ /\ ~HoldBack
        /\ IF stsSeen.exists THEN ~fresh ELSE sts.exists
        /\ ReturnError /\ UNCHANGED timer
  /\ UNCHANGED <<spec, busy, crd, vpa, spent>>

\* Any other failed call of the reconcile.
ApiFault ==
  /\ Spend("fault") /\ rec.pc # "idle"
  /\ ReturnError
  /\ UNCHANGED <<spec, busy, crd, vpa, timer>>

Reconcile == StartReconcile \/ ReconcileVPA \/ ApplyVPARecommendation \/ ReconcileStatefulSet

-----------------------------------------------------------------------------
(* The informer, the work queue and the outside world.                      *)

SyncSTS ==
  /\ ~fresh
  /\ stsSeen' = sts /\ fresh' = TRUE /\ queued' = TRUE
  /\ UNCHANGED <<spec, busy, crd, vpa, sts, rec, timer, spent>>

TimerFires ==
  /\ timer
  /\ timer' = FALSE /\ queued' = TRUE
  /\ UNCHANGED <<spec, busy, crd, vpa, stsVars, rec, spent>>

UserEdit(s) ==
  /\ Spend("edit") /\ s # spec
  /\ spec' = s /\ queued' = TRUE
  /\ UNCHANGED <<busy, crd, vpa, stsVars, rec, timer>>

\* The sidecar of a running pod reports that players have come, or have left.
PatchServerStatus ==
  /\ Spend("players") /\ (busy \/ sts.exists)
  /\ busy' = ~busy /\ queued' = TRUE
  /\ UNCHANGED <<spec, crd, vpa, stsVars, rec, timer>>

\* The VPA recommender, which needs a pod to have run; it clears no recommendation
\* when the pods go.  VPAs are not watched, so nothing is queued.
Recommend(t) ==
  /\ Spend("recommend") /\ vpa.exists /\ sts.exists /\ t # vpa.target
  /\ vpa' = [vpa EXCEPT !.target = t]
  /\ UNCHANGED <<spec, busy, crd, stsVars, rec, queued, timer>>

UserRemovesSTS ==
  /\ Spend("removeSTS") /\ sts.exists
  /\ sts' = NoStatefulSet /\ fresh' = FALSE
  /\ UNCHANGED <<spec, busy, crd, vpa, stsSeen, rec, queued, timer>>

Outside == \/ DisabledGetFails \/ ApiFault
           \/ \E s \in Specs : UserEdit(s)
           \/ PatchServerStatus \/ UserRemovesSTS
           \/ \E t \in Requests : Recommend(t)

Next == Reconcile \/ SyncSTS \/ TimerFires \/ Outside

Spec == Init /\ [][Next]_vars

\* The worker, the informer and the delaying queue keep running.
FairSpec == Spec /\ WF_vars(Reconcile) /\ WF_vars(SyncSTS) /\ WF_vars(TimerFires)

-----------------------------------------------------------------------------
(* Properties.                                                              *)

TypeOK ==
  /\ spec \in Specs /\ busy \in BOOLEAN /\ crd \in BOOLEAN
  /\ vpa \in VPAType
  /\ sts \in StatefulSetType /\ stsSeen \in StatefulSetType /\ fresh \in BOOLEAN
  /\ rec \in [pc : {"idle", "vpa", "apply", "statefulset"}, spec : Specs, busy : BOOLEAN]
  /\ queued \in BOOLEAN /\ timer \in BOOLEAN
  /\ spent \in [EventKind -> Nat]

AtRest == rec.pc = "idle" /\ ~queued /\ ~timer /\ fresh

\* No trace of a recommendation stays behind: when the operator rests and WhenIdle is
\* off, the StatefulSet requests what the spec says, whichever mode was on before and
\* whatever it applied then.
RestRequestsSpec ==
  AtRest /\ spec.mode # "WhenIdle" => sts.exists /\ sts.requests = spec.requests

\* When the operator rests with vertical scaling on and the CRD installed, the VPA
\* exists and may apply recommendations itself only in InPlace mode.
RestVPAMode ==
  AtRest /\ spec.mode # "Disabled" /\ crd
  => vpa.exists /\ (vpa.mode = "InPlace" <=> spec.mode = "InPlace")

\* When scaling has been switched off and the operator rests, the VPA is gone, unless
\* a call has failed: nothing comes back to look for a VPA that was taken as absent.
RestVPAGone == AtRest /\ spec.mode = "Disabled" /\ spent["fault"] = 0 => ~vpa.exists

\* applyVPARecommendation compares the recommendation with a cached StatefulSet and a
\* copied status: a reconcile that knows of players never lowers the memory that is
\* stored when it writes, also after the StatefulSet was changed or created anew.
ApplyKeepsMemoryWhilePlaying ==
  [][rec.pc = "apply" /\ rec.busy /\ rec'.pc = "statefulset"
     => sts'.requests.mem >= sts.requests.mem]_vars

-----------------------------------------------------------------------------
(* What the documentation says and the code does not do: each is violated.  *)

\* "Memory scale-down: deferred while players are connected"
\* (enshroudedserver_vpa.go:164): no step of a WhenIdle reconcile that knows of
\* players lowers the memory below what was recommended and applied.
MemoryGuarded ==
  [][Reconcile /\ rec.spec.mode = "WhenIdle" /\ rec.busy /\ HasRecommendation
     /\ sts.requests.mem = vpa.target.mem => sts'.requests.mem >= sts.requests.mem]_vars

Wanted == Recommended(spec.requests, vpa.target)

\* "applyVPARecommendation reads the VPA's current recommendation and applies it to
\* the StatefulSet's resource requests" (enshroudedserver_vpa.go:158): an idle server
\* in WhenIdle mode that is reconciled settles on the recommendation or rests.
RecommendationSticks ==
  <>[](AtRest \/ ~sts.exists \/ rec.spec.mode # "WhenIdle" \/ rec.busy
       \/ sts.requests = Wanted)

\* "Update if updateMode or resource policy changed" (enshroudedserver_vpa.go:141).
BoundsFollowSpec == AtRest /\ spec.mode # "Disabled" /\ crd => vpa.bounds = spec.bounds

\* "If VPA integration is disabled, delete any existing VPA and return"
\* (enshroudedserver_vpa.go:54).
DisabledMeansNoVPA == AtRest /\ spec.mode = "Disabled" => ~vpa.exists

\* "Automatic StatefulSet + Service - the operator manages the underlying
\* Kubernetes objects" (README.md:8): a removed StatefulSet comes back.
StatefulSetComesBack == ~sts.exists ~> sts.exists
=============================================================================
