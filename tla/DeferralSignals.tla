---------------------------- MODULE DeferralSignals ----------------------------
(***************************************************************************)
(* What the operator tells the rest of the cluster about connected players *)
(* and maintenance windows: the PodDisruptionBudget, which admits or       *)
(* refuses node drains, the status of the server, and the operator's own   *)
(* Prometheus gauges.  One reconcile derives them at three moments from    *)
(* one copy of the server and from a clock that goes on between them.      *)
(*                                                                         *)
(* The server exists at first and may be deleted; what a reconcile does to *)
(* its other objects is in Reconciler and ChildObjects.                    *)
(***************************************************************************)
EXTENDS Integers, Functions

CONSTANTS MaxPlayers,
          Budget,     \* how often each kind of event may happen
          MaxEvents   \* and how many there may be in all

EventKind == {"players", "window", "pod", "edit", "secret", "delete", "fault", "lost", "crash"}

ASSUME SignalBounds == MaxPlayers \in Nat /\ Budget \in [EventKind -> Nat] /\ MaxEvents \in Nat

VARIABLES cr,        \* the stored server
          seen,      \* its copy in the informer cache
          pdb,       \* maxUnavailable of the PodDisruptionBudget, NoPDB if it is absent
          pdbSeen,   \* the same in the informer cache
          fresh,     \* which copies carry the live resourceVersion
          pod,       \* the StatefulSet's status as cached
          password,  \* the referenced password key exists
          window,    \* the clock is inside a maintenance window
          gauges,    \* the operator's gauges of this server, an empty record if deleted
          series,    \* the phase_info series of this server, by their phase label
          rec, queued, timer, spent

clusterVars == <<pod, password, window>>
gaugeVars   == <<gauges, series>>
vars == <<cr, seen, pdb, pdbSeen, fresh, pod, password, window, gauges, series,
          rec, queued, timer, spent>>

NoPDB    == -1
Phase    == {"Pending", "Running", "Updating", "Error"}
NoServer == [exists |-> FALSE, deleting |-> FALSE, defer |-> FALSE, players |-> 0,
             phase |-> "", deferred |-> FALSE]
NoGauges == {}
Idle     == [pc |-> "idle", server |-> NoServer, deferred |-> FALSE]

Init ==
  /\ \E d \in BOOLEAN : cr = [NoServer EXCEPT !.exists = TRUE, !.defer = d]
  /\ seen = cr /\ fresh = [seen |-> TRUE, server |-> FALSE, pdb |-> TRUE]
  /\ pdb = NoPDB /\ pdbSeen = NoPDB
  /\ pod = "absent" /\ password = TRUE /\ window \in BOOLEAN
  /\ gauges = NoGauges /\ series = {}
  /\ rec = Idle /\ queued = TRUE /\ timer = FALSE
  /\ spent = [k \in EventKind |-> 0]

Spend(kind) ==
  /\ spent[kind] < Budget[kind] /\ FoldFunction(+, 0, spent) < MaxEvents
  /\ spent' = [spent EXCEPT ![kind] = @ + 1]

StoreCR(new) ==
  /\ cr' = new
  /\ fresh' = IF new = cr THEN fresh ELSE [fresh EXCEPT !.seen = FALSE, !.server = FALSE]

-----------------------------------------------------------------------------
(* The reconcile.                                                           *)

Finish == rec' = Idle /\ UNCHANGED queued

Requeue == rec' = Idle /\ queued' = TRUE

ReturnError ==
  /\ Requeue /\ fresh' = [fresh EXCEPT !.server = FALSE]
  /\ UNCHANGED <<cr, pdb, gaugeVars>>

StartReconcile ==
  /\ rec.pc = "idle" /\ queued
  /\ queued' = FALSE
  /\ rec' = IF ~seen.exists THEN Idle
            ELSE [Idle EXCEPT !.pc = IF seen.deleting THEN "removeFinalizer" ELSE "password",
                              !.server = seen]
  /\ fresh' = [fresh EXCEPT !.server = fresh.seen /\ seen.exists]
  /\ UNCHANGED <<cr, seen, pdb, pdbSeen, clusterVars, gaugeVars, timer, spent>>

\* Mutant: only the series that carries the phase is deleted.
DeletePhaseSeries ==
  /\ series' = series \ {rec.server.phase}
  /\ UNCHANGED gauges

\* DeleteServerMetrics, with the phase of the reconcile's copy.
DeleteServerMetrics ==
  /\ gauges' = NoGauges
  /\ series' = series \ {rec.server.phase}

\* handleDeletion; the metrics go only after the finalizer.
RemoveFinalizer ==
  /\ rec.pc = "removeFinalizer"
  /\ IF fresh.server
     THEN StoreCR(NoServer) /\ DeleteServerMetrics /\ Finish /\ UNCHANGED pdb
     ELSE ReturnError
  /\ UNCHANGED <<seen, pdbSeen, clusterVars, timer, spent>>

\* The update took effect but its answer is lost.
RemovalUnacknowledged ==
  /\ Spend("lost") /\ rec.pc = "removeFinalizer" /\ fresh.server
  /\ StoreCR(NoServer) /\ Requeue
  /\ UNCHANGED <<seen, pdb, pdbSeen, clusterVars, gaugeVars, timer>>

\* setPhaseError: its own status update may fail unnoticed, and it sets no gauge.
CheckPassword ==
  /\ rec.pc = "password"
  /\ IF password
     THEN rec' = [rec EXCEPT !.pc = "pdb"] /\ UNCHANGED <<cr, fresh, queued>>
     ELSE /\ Requeue
          /\ cr' = IF fresh.server THEN [cr EXCEPT !.phase = "Error"] ELSE cr
          /\ fresh' = [fresh EXCEPT !.server = FALSE, !.seen = @ /\ cr' = cr]
  /\ UNCHANGED <<seen, pdb, pdbSeen, clusterVars, gaugeVars, timer, spent>>

Protected(s) == s.defer /\ s.players > 0 /\ ~window

MaxUnavailable(s) == IF Protected(s) THEN 0 ELSE 1

\* Mutant: an existing budget is left alone.
ReconcilePDBOnce ==
  /\ rec.pc = "pdb"
  /\ pdb' = IF pdb = NoPDB THEN MaxUnavailable(rec.server) ELSE pdb
  /\ fresh' = [fresh EXCEPT !.pdb = @ /\ pdb' = pdb]
  /\ rec' = [rec EXCEPT !.pc = "deferral"]
  /\ UNCHANGED <<cr, seen, pdbSeen, clusterVars, gaugeVars, queued, timer, spent>>

\* reconcilePDB: create, and take one that exists already for success; or update the copy
\* in the cache if its value differs.
ReconcilePDB ==
  /\ rec.pc = "pdb"
  /\ IF pdbSeen # NoPDB /\ pdbSeen # MaxUnavailable(rec.server) /\ ~fresh.pdb
     THEN ReturnError
     ELSE /\ pdb' = CASE pdbSeen = NoPDB /\ pdb # NoPDB -> pdb
                      [] pdbSeen = MaxUnavailable(rec.server) -> pdb
                      [] OTHER -> MaxUnavailable(rec.server)
          /\ fresh' = [fresh EXCEPT !.pdb = @ /\ pdb' = pdb]
          /\ rec' = [rec EXCEPT !.pc = "deferral"]
          /\ UNCHANGED <<cr, gaugeVars, queued>>
  /\ UNCHANGED <<seen, pdbSeen, clusterVars, timer, spent>>

\* The deferral check reads the clock anew.
DeferralCheck ==
  /\ rec.pc = "deferral"
  /\ rec' = [rec EXCEPT !.pc = "status", !.deferred = Protected(rec.server)]
  /\ UNCHANGED <<cr, seen, pdb, pdbSeen, fresh, clusterVars, gaugeVars, queued, timer, spent>>

\* Mutant: a StatefulSet that is not there says nothing about the phase.
PhaseIfPresent(p) ==
  CASE p = "ready" -> "Running" [] p = "updating" -> "Updating" [] p = "starting" -> "Pending"
    [] OTHER -> rec.server.phase

PhaseOf(p) ==
  CASE p = "ready" -> "Running" [] p = "updating" -> "Updating" [] OTHER -> "Pending"

\* Mutant: nothing is published as long as the phase stays.
SetServerMetricsOnChange(old, new) ==
  IF old = new THEN UNCHANGED gaugeVars
  ELSE /\ gauges' = {<<"ready", pod = "ready">>, <<"deferred", rec.deferred>>, <<"window", window>>}
       /\ series' = (series \ {old}) \cup {new}

\* Mutant: the label of the old phase is not deleted.
SetServerMetricsOnly(old, new) ==
  /\ gauges' = {<<"ready", pod = "ready">>, <<"deferred", rec.deferred>>, <<"window", window>>}
  /\ series' = series \cup {new}

\* SetServerMetrics
SetServerMetrics(old, new) ==
  /\ gauges' = {<<"ready", pod = "ready">>, <<"deferred", rec.deferred>>, <<"window", window>>}
  /\ series' = (series \ {old}) \cup {new}

StoreStatus ==
  /\ cr' = [cr EXCEPT !.phase = PhaseOf(pod), !.deferred = rec.deferred]
  /\ fresh' = [fresh EXCEPT !.server = FALSE, !.seen = @ /\ cr' = cr]

\* updateStatus, and the RequeueAfter that follows it.
UpdateStatus ==
  /\ rec.pc = "status"
  /\ IF fresh.server
     THEN /\ StoreStatus
          /\ SetServerMetrics(rec.server.phase, PhaseOf(pod))
          /\ Finish
          /\ timer' = (timer \/ rec.deferred)
          /\ UNCHANGED pdb
     ELSE ReturnError /\ UNCHANGED timer
  /\ UNCHANGED <<seen, pdbSeen, clusterVars, spent>>

\* The status is stored but the answer is lost: the phase it replaced is forgotten.
StatusUnacknowledged ==
  /\ Spend("lost") /\ rec.pc = "status" /\ fresh.server
  /\ StoreStatus /\ Requeue
  /\ UNCHANGED <<seen, pdb, pdbSeen, clusterVars, gaugeVars, timer>>

ApiFault ==
  /\ Spend("fault") /\ rec.pc # "idle"
  /\ ReturnError
  /\ UNCHANGED <<seen, pdbSeen, clusterVars, timer>>

\* The gauges live in the process; the caches of a new one list everything.
Restart ==
  /\ Spend("crash")
  /\ rec' = Idle /\ queued' = TRUE /\ timer' = FALSE
  /\ gauges' = NoGauges /\ series' = {}
  /\ seen' = cr /\ pdbSeen' = pdb
  /\ fresh' = [seen |-> TRUE, server |-> FALSE, pdb |-> TRUE]
  /\ UNCHANGED <<cr, pdb, clusterVars>>

Reconcile ==
  \/ StartReconcile \/ RemoveFinalizer \/ CheckPassword \/ ReconcilePDB \/ DeferralCheck
  \/ UpdateStatus

-----------------------------------------------------------------------------
(* Caches, work queue and garbage collector.                                *)

SyncCR ==
  /\ ~fresh.seen
  /\ seen' = cr /\ fresh' = [fresh EXCEPT !.seen = TRUE] /\ queued' = TRUE
  /\ UNCHANGED <<cr, pdb, pdbSeen, clusterVars, gaugeVars, rec, timer, spent>>

\* Mutant: budgets are not among the objects the controller owns.
SyncPDBUnwatched ==
  /\ ~fresh.pdb
  /\ pdbSeen' = pdb /\ fresh' = [fresh EXCEPT !.pdb = TRUE]
  /\ UNCHANGED <<cr, seen, pdb, clusterVars, gaugeVars, rec, queued, timer, spent>>

SyncPDB ==
  /\ ~fresh.pdb
  /\ pdbSeen' = pdb /\ fresh' = [fresh EXCEPT !.pdb = TRUE] /\ queued' = TRUE
  /\ UNCHANGED <<cr, seen, pdb, clusterVars, gaugeVars, rec, timer, spent>>

TimerFires ==
  /\ timer
  /\ timer' = FALSE /\ queued' = TRUE
  /\ UNCHANGED <<cr, seen, pdb, pdbSeen, fresh, clusterVars, gaugeVars, rec, spent>>

\* The informers deliver every object again after a SyncPeriod.
Resync ==
  /\ seen.exists /\ ~queued
  /\ queued' = TRUE
  /\ UNCHANGED <<cr, seen, pdb, pdbSeen, fresh, clusterVars, gaugeVars, rec, timer, spent>>

CollectGarbage ==
  /\ ~cr.exists /\ pdb # NoPDB
  /\ pdb' = NoPDB /\ fresh' = [fresh EXCEPT !.pdb = FALSE]
  /\ UNCHANGED <<cr, seen, pdbSeen, clusterVars, gaugeVars, rec, queued, timer, spent>>

-----------------------------------------------------------------------------
(* The user, the players, the cluster and the clock.                        *)

SidecarReports(n) ==
  /\ Spend("players") /\ cr.exists /\ n # cr.players
  /\ StoreCR([cr EXCEPT !.players = n])
  /\ UNCHANGED <<seen, pdb, pdbSeen, clusterVars, gaugeVars, rec, queued, timer>>

UserEdit ==
  /\ Spend("edit") /\ cr.exists
  /\ StoreCR([cr EXCEPT !.defer = ~@])
  /\ UNCHANGED <<seen, pdb, pdbSeen, clusterVars, gaugeVars, rec, queued, timer>>

UserDelete ==
  /\ Spend("delete") /\ cr.exists /\ ~cr.deleting
  /\ StoreCR([cr EXCEPT !.deleting = TRUE])
  /\ UNCHANGED <<seen, pdb, pdbSeen, clusterVars, gaugeVars, rec, queued, timer>>

StatefulSetChanges(p) ==
  /\ Spend("pod") /\ cr.exists /\ p # pod
  /\ pod' = p /\ queued' = TRUE
  /\ UNCHANGED <<cr, seen, pdb, pdbSeen, fresh, password, window, gaugeVars, rec, timer>>

SecretChange ==
  /\ Spend("secret")
  /\ password' = ~password /\ queued' = TRUE
  /\ UNCHANGED <<cr, seen, pdb, pdbSeen, fresh, pod, window, gaugeVars, rec, timer>>

\* Nothing is told of a window that opens or closes.
ClockCrosses ==
  /\ Spend("window")
  /\ window' = ~window
  /\ UNCHANGED <<cr, seen, pdb, pdbSeen, fresh, pod, password, gaugeVars, rec, queued, timer>>

Next ==
  \/ Reconcile \/ RemovalUnacknowledged \/ StatusUnacknowledged \/ ApiFault \/ Restart
  \/ SyncCR \/ SyncPDB \/ TimerFires \/ Resync \/ CollectGarbage
  \/ \E n \in 0 .. MaxPlayers : SidecarReports(n)
  \/ UserEdit \/ UserDelete
  \/ \E p \in {"starting", "updating", "ready"} : StatefulSetChanges(p)
  \/ SecretChange \/ ClockCrosses

Fairness ==
  /\ WF_vars(Reconcile) /\ WF_vars(SyncCR) /\ WF_vars(SyncPDB) /\ WF_vars(TimerFires)
  /\ WF_vars(Resync) /\ WF_vars(CollectGarbage)

Spec == Init /\ [][Next]_vars

FairSpec == Spec /\ Fairness

-----------------------------------------------------------------------------
(* Properties.                                                              *)

ServerType == [exists : BOOLEAN, deleting : BOOLEAN, defer : BOOLEAN, players : 0 .. MaxPlayers,
               phase : Phase \cup {""}, deferred : BOOLEAN]

RecType == [pc : {"idle", "removeFinalizer", "password", "pdb", "deferral", "status"},
            server : ServerType, deferred : BOOLEAN]

FreshType == [seen : BOOLEAN, server : BOOLEAN, pdb : BOOLEAN]

\* Types; every phase_info series carries a phase.
TypeOK ==
  /\ cr \in ServerType /\ seen \in ServerType
  /\ rec \in RecType
  /\ {pdb, pdbSeen} \subseteq {NoPDB, 0, 1}
  /\ fresh \in FreshType
  /\ gauges \subseteq {"ready", "deferred", "window"} \X BOOLEAN
  /\ series \subseteq Phase
  /\ {password, window, queued, timer} \subseteq BOOLEAN
  /\ pod \in {"absent", "starting", "updating", "ready"}

Rest == rec.pc = "idle" /\ ~queued /\ ~timer /\ fresh.seen /\ fresh.pdb

Served == cr.exists /\ ~cr.deleting

Drainable(s) == ~(s.defer /\ s.players > 0) => pdb = 1

\* An operator with nothing left to do lets nodes be drained if no one plays, although it
\* takes a budget it finds to exist already, with whatever value, for its own.
RestDrainsAllowed == Rest /\ Served => Drainable(cr)

\* What it publishes then is what the status says, also after a restart, and although the
\* gauges are set from another copy than the one that is stored.
RestGaugesAgree ==
  Rest /\ Served => /\ <<"deferred", cr.deferred>> \in gauges
                    /\ <<"ready", pod = "ready">> \in gauges
                    /\ cr.phase \in series

\* The phase is published under one label: whatever stale copies, conflicts, failed calls and
\* restarts come between, a phase that is no longer the stored one has no series.  Only
\* setPhaseError and the loss of an answer leave one behind.
SeriesFollowsPhase == spent["secret"] = 0 /\ spent["lost"] = 0 => series \subseteq {cr.phase}

\* From the moment the server is gone its gauges are, and no reconcile that still works on a
\* copy of it brings them back.
GaugesGoWithServer == spent["lost"] = 0 /\ ~cr.exists => gauges = NoGauges

\* In the end, budget, status and gauges all tell the same of players and window, with no
\* event for a window's opening or closing: the resync catches it up.
SignalsCatchUp ==
  <>[](Served /\ password =>
         /\ pdb = MaxUnavailable(cr) /\ cr.deferred = Protected(cr) /\ cr.phase = PhaseOf(pod)
         /\ gauges = {<<"ready", pod = "ready">>, <<"deferred", Protected(cr)>>,
                      <<"window", window>>})

\* A copy with the live resourceVersion equals the stored object.
CopiesAgree == /\ fresh.seen => seen = cr
               /\ fresh.server => rec.server = cr
               /\ fresh.pdb => pdbSeen = pdb

\* The reconcile has seen to the budget before it returns, unless an event about it is
\* under way.
BudgetIsSet ==
  rec.pc \in {"deferral", "status"} /\ ~queued /\ fresh.pdb => Drainable(rec.server)

\* A reconcile past its Get works on a server, and the password is there until someone
\* takes it away.
Counted ==
  /\ spent \in [EventKind -> Nat]
  /\ spent["secret"] = 0 => password
  /\ rec.pc # "idle" => rec.server.exists

\* The inductive invariant.
IInv == /\ TypeOK /\ CopiesAgree /\ BudgetIsSet /\ RestDrainsAllowed /\ RestGaugesAgree
        /\ Counted /\ SeriesFollowsPhase /\ GaugesGoWithServer

-----------------------------------------------------------------------------
(* What comments and documentation say and the code does not do.            *)

\* "maxUnavailable=0 when deferWhilePlaying is enabled, players are present, and the
\* cluster is not currently in a maintenance window" (enshroudedserver_pdb.go:23).
RestPlayersProtected == Rest /\ Served /\ Protected(cr) => pdb = 0

\* "maxUnavailable=1 in all other cases (allows rolling updates and node-drain operations
\* to proceed normally)" (enshroudedserver_pdb.go:25).  A window that opens between
\* the budget and the deferral check leaves no timer to lift the budget.
RestWindowAllowsDrains == Rest /\ Served /\ window => pdb = 1

\* "1 if the current time falls inside a configured maintenance window, 0 otherwise"
\* (collector.go:67).
RestWindowPublished == Rest /\ Served => <<"window", window>> \in gauges

\* "oldPhase is the previous phase so the old label-set can be deleted when it changes"
\* (collector.go:78): one series, of the current phase.
RestOneSeries == Rest /\ Served => series = {cr.phase}

\* "removes all operator-level metrics for a server that has been deleted"
\* (collector.go:102).
NothingPublishedOnceGone == Rest /\ ~cr.exists => gauges = NoGauges /\ series = {}
=============================================================================
