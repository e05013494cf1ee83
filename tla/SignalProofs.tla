----------------------------- MODULE SignalProofs -----------------------------
(* An operator at rest lets nodes be drained of servers no one plays on,    *)
(* and publishes what the status says.                                      *)
EXTENDS DeferralSignals, TLAPS

-----------------------------------------------------------------------------
(* Records.                                                                 *)

LEMMA NoServerType == NoServer \in ServerType /\ ~NoServer.exists
<1>1. 0 \in 0 .. MaxPlayers
  BY SignalBounds
<1>2. NoServer \in ServerType
  BY <1>1 DEF NoServer, ServerType
<1>3. NoServer.exists = FALSE
  BY DEF NoServer
<1> QED
  BY <1>2, <1>3

LEMMA IdleType == Idle \in RecType /\ Idle.pc = "idle" /\ Idle.server = NoServer
<1>1. Idle \in RecType
  BY NoServerType DEF Idle, RecType
<1> QED
  BY <1>1 DEF Idle

LEMMA StoreCRFields ==
  ASSUME fresh \in FreshType, NEW new, StoreCR(new)
  PROVE  /\ fresh' \in FreshType /\ cr' = new
         /\ fresh'.seen => fresh.seen /\ cr' = cr
         /\ fresh'.server => fresh.server /\ cr' = cr
         /\ fresh'.pdb = fresh.pdb
BY DEF FreshType, StoreCR

LEMMA ErrorFields ==
  ASSUME fresh \in FreshType, ReturnError
  PROVE  /\ fresh' \in FreshType /\ ~fresh'.server
         /\ fresh'.seen = fresh.seen /\ fresh'.pdb = fresh.pdb
         /\ rec' = Idle /\ queued' = TRUE /\ UNCHANGED <<cr, pdb, gaugeVars>>
<1>1. fresh' = [fresh EXCEPT !.server = FALSE]
  BY DEF ReturnError
<1>2. fresh' \in FreshType /\ fresh'.seen = fresh.seen /\ fresh'.pdb = fresh.pdb
  BY <1>1 DEF FreshType
<1>3. fresh'.server = FALSE
  BY <1>1 DEF FreshType
<1> QED
  BY <1>2, <1>3 DEF ReturnError, Requeue

LEMMA GotoFields ==
  ASSUME rec \in RecType, NEW step, rec' = [rec EXCEPT !.pc = step]
  PROVE  rec'.pc = step /\ rec'.server = rec.server /\ rec'.deferred = rec.deferred
BY DEF RecType

\* The freshness of the caches after a write of the status.
LEMMA StatusFields ==
  ASSUME fresh \in FreshType, NEW same \in BOOLEAN,
         fresh' = [fresh EXCEPT !.server = FALSE, !.seen = @ /\ same]
  PROVE  /\ fresh' \in FreshType /\ ~fresh'.server
         /\ fresh'.seen => fresh.seen /\ same
         /\ fresh'.pdb = fresh.pdb
<1>1. fresh'.server = FALSE /\ fresh'.seen = (fresh.seen /\ same) /\ fresh'.pdb = fresh.pdb
  BY DEF FreshType
<1>2. fresh' \in FreshType
  BY DEF FreshType
<1> QED
  BY <1>1, <1>2

LEMMA BudgetFields ==
  ASSUME fresh \in FreshType, NEW same \in BOOLEAN, fresh' = [fresh EXCEPT !.pdb = @ /\ same]
  PROVE  /\ fresh' \in FreshType
         /\ fresh'.seen = fresh.seen /\ fresh'.server = fresh.server
         /\ fresh'.pdb => fresh.pdb /\ same
<1>1. fresh'.pdb = (fresh.pdb /\ same) /\ fresh'.seen = fresh.seen /\ fresh'.server = fresh.server
  BY DEF FreshType
<1>2. fresh' \in FreshType
  BY DEF FreshType
<1> QED
  BY <1>1, <1>2

LEMMA MaxUnavailableValues ==
  ASSUME NEW s
  PROVE  /\ MaxUnavailable(s) \in {0, 1} /\ MaxUnavailable(s) # NoPDB
         /\ ~(s.defer /\ s.players > 0) => MaxUnavailable(s) = 1
BY DEF MaxUnavailable, Protected, NoPDB

LEMMA PhaseValues ==
  ASSUME NEW p
  PROVE  PhaseOf(p) \in Phase
BY DEF PhaseOf, Phase

-----------------------------------------------------------------------------
(* What the steps do.                                                       *)

\* What the invariant says of a state with an event queued.
LEMMA Woken ==
  ASSUME queued'
  PROVE  BudgetIsSet' /\ RestDrainsAllowed' /\ RestGaugesAgree'
BY DEF BudgetIsSet, RestDrainsAllowed, RestGaugesAgree, Rest

\* A step of another actor.
Quiet ==
  /\ fresh'.seen => fresh.seen /\ cr' = cr
  /\ fresh'.pdb => fresh.pdb
  /\ UNCHANGED <<rec, queued, timer, pod, gauges, series, pdb>>

LEMMA QuietKeeps ==
  ASSUME IInv, Quiet
  PROVE  BudgetIsSet' /\ RestDrainsAllowed' /\ RestGaugesAgree'
<1>1. BudgetIsSet'
  BY DEF IInv, Quiet, BudgetIsSet, Drainable
<1>2. ASSUME Rest' PROVE Rest /\ cr' = cr
  BY <1>2 DEF Quiet, Rest
<1>3. ASSUME Rest', Served' PROVE Drainable(cr)' /\ Served
  BY <1>2, <1>3 DEF IInv, Quiet, RestDrainsAllowed, Drainable, Served
<1>4. RestDrainsAllowed'
  BY <1>3 DEF RestDrainsAllowed
<1>5. RestGaugesAgree'
  BY <1>2, <1>3 DEF IInv, Quiet, RestGaugesAgree, Served
<1> QED
  BY <1>1, <1>4, <1>5

\* A step of the reconcile that does not return.
LEMMA BusyKeeps ==
  ASSUME rec'.pc # "idle"
  PROVE  RestDrainsAllowed' /\ RestGaugesAgree'
BY DEF RestDrainsAllowed, RestGaugesAgree, Rest

LEMMA StartSignals ==
  ASSUME IInv, StartReconcile
  PROVE  BudgetIsSet' /\ RestDrainsAllowed' /\ RestGaugesAgree'
<1>1. CASE ~seen.exists
  <2>1. rec' = Idle /\ cr' = cr /\ fresh' = [fresh EXCEPT !.server = fresh.seen /\ seen.exists]
    BY <1>1 DEF StartReconcile
  <2>2. rec'.pc = "idle" /\ fresh'.seen = fresh.seen
    BY <2>1, IdleType DEF IInv, TypeOK, FreshType
  <2>3. fresh.seen => ~cr.exists
    BY <1>1 DEF IInv, CopiesAgree
  <2> QED
    BY <2>1, <2>2, <2>3 DEF BudgetIsSet, RestDrainsAllowed, RestGaugesAgree, Rest, Served
<1>2. CASE seen.exists
  <2>1. rec' = [Idle EXCEPT !.pc = IF seen.deleting THEN "removeFinalizer" ELSE "password",
                            !.server = seen]
    BY <1>2 DEF StartReconcile
  <2>2. rec'.pc \in {"removeFinalizer", "password"}
    BY <2>1 DEF Idle
  <2> QED
    BY <2>2, BusyKeeps DEF BudgetIsSet
<1> QED
  BY <1>1, <1>2

LEMMA RemoveSignals ==
  ASSUME IInv, RemoveFinalizer
  PROVE  BudgetIsSet' /\ RestDrainsAllowed' /\ RestGaugesAgree'
<1>1. CASE fresh.server
  <2>1. rec' = Idle /\ cr' = NoServer
    BY <1>1 DEF RemoveFinalizer, StoreCR, Finish
  <2>2. rec'.pc = "idle" /\ ~cr'.exists
    BY <2>1, IdleType, NoServerType
  <2> QED
    BY <2>2 DEF BudgetIsSet, RestDrainsAllowed, RestGaugesAgree, Served
<1>2. CASE ~fresh.server
  BY <1>2, ErrorFields, Woken DEF RemoveFinalizer, IInv, TypeOK
<1> QED
  BY <1>1, <1>2

LEMMA PasswordSignals ==
  ASSUME IInv, CheckPassword
  PROVE  BudgetIsSet' /\ RestDrainsAllowed' /\ RestGaugesAgree'
<1>1. CASE password
  <2>1. rec'.pc = "pdb"
    BY <1>1, GotoFields DEF CheckPassword, IInv, TypeOK
  <2> QED
    BY <2>1, BusyKeeps DEF BudgetIsSet
<1>2. CASE ~password
  BY <1>2, Woken DEF CheckPassword, Requeue
<1> QED
  BY <1>1, <1>2

\* After reconcilePDB the budget is the one asked for, or its cache is stale.
LEMMA BudgetSignals ==
  ASSUME IInv, ReconcilePDB
  PROVE  BudgetIsSet' /\ RestDrainsAllowed' /\ RestGaugesAgree'
<1> DEFINE m == MaxUnavailable(rec.server)
<1>1. CASE pdbSeen # NoPDB /\ pdbSeen # m /\ ~fresh.pdb
  BY <1>1, ErrorFields, Woken DEF ReconcilePDB, IInv, TypeOK
<1>2. CASE ~(pdbSeen # NoPDB /\ pdbSeen # m /\ ~fresh.pdb)
  <2>1. /\ pdb' = CASE pdbSeen = NoPDB /\ pdb # NoPDB -> pdb
                    [] pdbSeen = m -> pdb
                    [] OTHER -> m
        /\ fresh' = [fresh EXCEPT !.pdb = @ /\ pdb' = pdb]
        /\ rec' = [rec EXCEPT !.pc = "deferral"]
    BY <1>2 DEF ReconcilePDB
  <2>2. rec'.pc = "deferral" /\ rec'.server = rec.server
    BY <2>1, GotoFields DEF IInv, TypeOK
  <2>3. fresh'.pdb => fresh.pdb /\ pdb' = pdb
    <3> DEFINE same == pdb' = pdb
    <3>1. same \in BOOLEAN /\ fresh' = [fresh EXCEPT !.pdb = @ /\ same]
      BY <2>1
    <3> HIDE DEF same
    <3>2. fresh'.pdb => fresh.pdb /\ same
      BY <3>1, BudgetFields DEF IInv, TypeOK
    <3> QED
      BY <3>2 DEF same
  <2>4. fresh'.pdb => pdb' = m
    BY <2>1, <2>3, MaxUnavailableValues DEF IInv, CopiesAgree
  <2>5. BudgetIsSet'
    BY <2>2, <2>4, MaxUnavailableValues DEF BudgetIsSet, Drainable
  <2> QED
    BY <2>2, <2>5, BusyKeeps
<1> QED
  BY <1>1, <1>2

LEMMA DeferralSignalsKept ==
  ASSUME IInv, DeferralCheck
  PROVE  BudgetIsSet' /\ RestDrainsAllowed' /\ RestGaugesAgree'
<1>1. rec' = [rec EXCEPT !.pc = "status", !.deferred = Protected(rec.server)]
  BY DEF DeferralCheck
<1>2. rec'.pc = "status" /\ rec'.server = rec.server
  BY <1>1 DEF IInv, TypeOK, RecType
<1>3. rec.pc = "deferral" /\ UNCHANGED <<queued, fresh, pdb>>
  BY DEF DeferralCheck
<1>4. BudgetIsSet'
  BY <1>2, <1>3 DEF IInv, BudgetIsSet, Drainable
<1> QED
  BY <1>2, <1>4, BusyKeeps

LEMMA StatusSignals ==
  ASSUME IInv, UpdateStatus
  PROVE  BudgetIsSet' /\ RestDrainsAllowed' /\ RestGaugesAgree'
<1>1. CASE ~fresh.server
  BY <1>1, ErrorFields, Woken DEF UpdateStatus, IInv, TypeOK
<1>2. CASE fresh.server
  <2>1. /\ rec.pc = "status" /\ rec' = Idle /\ UNCHANGED <<queued, pdb, pod>>
        /\ cr' = [cr EXCEPT !.phase = PhaseOf(pod), !.deferred = rec.deferred]
        /\ fresh' = [fresh EXCEPT !.server = FALSE, !.seen = @ /\ cr' = cr]
        /\ gauges' = {<<"ready", pod = "ready">>, <<"deferred", rec.deferred>>,
                      <<"window", window>>}
        /\ series' = (series \ {rec.server.phase}) \cup {PhaseOf(pod)}
    BY <1>2 DEF UpdateStatus, StoreStatus, SetServerMetrics, Finish, clusterVars
  <2>2. fresh'.pdb = fresh.pdb
    BY <2>1 DEF IInv, TypeOK, FreshType
  <2>3. /\ cr'.phase = PhaseOf(pod) /\ cr'.deferred = rec.deferred
        /\ cr'.defer = cr.defer /\ cr'.players = cr.players
    BY <2>1 DEF IInv, TypeOK, ServerType
  <2>4. rec.server = cr
    BY <1>2 DEF IInv, CopiesAgree
  <2>5. rec'.pc = "idle"
    BY <2>1, IdleType
  <2>6. RestGaugesAgree'
    BY <2>1, <2>3 DEF RestGaugesAgree
  <2>7. RestDrainsAllowed'
    BY <2>1, <2>2, <2>3, <2>4 DEF IInv, BudgetIsSet, RestDrainsAllowed, Rest, Drainable
  <2> QED
    BY <2>5, <2>6, <2>7 DEF BudgetIsSet
<1> QED
  BY <1>1, <1>2

Signals == \E n \in 0 .. MaxPlayers : SidecarReports(n)
Changes == \E p \in {"starting", "updating", "ready"} : StatefulSetChanges(p)

\* A write of the CR by someone else.
LEMMA ForeignWrite ==
  ASSUME TypeOK, Signals \/ UserEdit \/ UserDelete
  PROVE  /\ \E new \in ServerType : StoreCR(new)
         /\ UNCHANGED <<seen, pdb, pdbSeen, clusterVars, gaugeVars, rec, queued, timer>>
<1>1. ASSUME NEW n \in 0 .. MaxPlayers, SidecarReports(n)
      PROVE  \E new \in ServerType : StoreCR(new)
  <2>1. [cr EXCEPT !.players = n] \in ServerType
    BY DEF TypeOK, ServerType
  <2> QED
    BY <1>1, <2>1 DEF SidecarReports
<1>2. ASSUME UserEdit PROVE \E new \in ServerType : StoreCR(new)
  <2>1. cr \in ServerType
    BY DEF TypeOK
  <2>2. (~cr.defer) \in BOOLEAN
    OBVIOUS
  <2>3. [cr EXCEPT !.defer = ~cr.defer] \in ServerType
    BY <2>1, <2>2 DEF ServerType
  <2> QED
    BY <1>2, <2>3 DEF UserEdit
<1>3. ASSUME UserDelete PROVE \E new \in ServerType : StoreCR(new)
  <2>1. [cr EXCEPT !.deleting = TRUE] \in ServerType
    BY DEF TypeOK, ServerType
  <2> QED
    BY <1>3, <2>1 DEF UserDelete
<1> QED
  BY <1>1, <1>2, <1>3 DEF Signals, SidecarReports, UserEdit, UserDelete

LEMMA SignalsStep ==
  ASSUME IInv, Next
  PROVE  BudgetIsSet' /\ RestDrainsAllowed' /\ RestGaugesAgree'
<1>1. CASE Reconcile
  BY <1>1, StartSignals, RemoveSignals, PasswordSignals, BudgetSignals, DeferralSignalsKept,
     StatusSignals DEF Reconcile
<1>2. CASE RemovalUnacknowledged \/ StatusUnacknowledged \/ ApiFault \/ Restart \/ SyncCR \/ SyncPDB
           \/ TimerFires \/ Resync \/ Changes \/ SecretChange
  <2>1. queued' = TRUE
    BY <1>2 DEF RemovalUnacknowledged, StatusUnacknowledged, ApiFault, Restart, SyncCR, SyncPDB,
       TimerFires, Resync, Changes, StatefulSetChanges, SecretChange, ReturnError, Requeue
  <2> QED
    BY <2>1, Woken
<1>3. CASE CollectGarbage
  <2>1. fresh' = [fresh EXCEPT !.pdb = FALSE]
    BY <1>3 DEF CollectGarbage
  <2>2. fresh'.pdb = FALSE
    BY <2>1 DEF IInv, TypeOK, FreshType
  <2> QED
    BY <2>2 DEF BudgetIsSet, RestDrainsAllowed, RestGaugesAgree, Rest
<1>4. CASE Signals \/ UserEdit \/ UserDelete
  <2>1. PICK new \in ServerType : StoreCR(new)
    BY <1>4, ForeignWrite DEF IInv
  <2>2. (fresh'.seen => fresh.seen /\ cr' = cr) /\ fresh'.pdb = fresh.pdb
    BY <2>1, StoreCRFields DEF IInv, TypeOK
  <2>3. UNCHANGED <<rec, queued, timer, pod, gauges, series, pdb>>
    BY <1>4, ForeignWrite DEF IInv, clusterVars, gaugeVars
  <2> QED
    BY <2>2, <2>3, QuietKeeps DEF Quiet
<1>5. CASE ClockCrosses
  BY <1>5, QuietKeeps DEF ClockCrosses, Quiet, gaugeVars
<1> QED
  BY <1>1, <1>2, <1>3, <1>4, <1>5 DEF Next, Signals, Changes

-----------------------------------------------------------------------------
(* Copies.                                                                  *)

LEMMA ErrorCopies ==
  ASSUME IInv, ReturnError, UNCHANGED <<seen, pdbSeen>>
  PROVE  CopiesAgree'
BY ErrorFields DEF IInv, TypeOK, CopiesAgree

LEMMA StoredCopies ==
  ASSUME IInv, NEW new, StoreCR(new), UNCHANGED <<seen, pdb, pdbSeen>>, rec' = rec
  PROVE  CopiesAgree'
<1>1. /\ fresh'.seen => fresh.seen /\ cr' = cr
      /\ fresh'.server => fresh.server /\ cr' = cr
      /\ fresh'.pdb = fresh.pdb
  BY StoreCRFields DEF IInv, TypeOK
<1> QED
  BY <1>1 DEF IInv, CopiesAgree

\* Writing NoServer and forgetting the copy.
LEMMA RemovedCopies ==
  ASSUME IInv, StoreCR(NoServer), UNCHANGED <<seen, pdb, pdbSeen>>, rec' = Idle
  PROVE  CopiesAgree'
<1>1. /\ fresh'.seen => fresh.seen /\ cr' = cr
      /\ fresh'.server => cr' = NoServer
      /\ fresh'.pdb = fresh.pdb
  BY StoreCRFields DEF IInv, TypeOK
<1> QED
  BY <1>1, IdleType DEF IInv, CopiesAgree

\* Writing the status through the copy, which is then forgotten.
LEMMA StatusCopies ==
  ASSUME IInv, fresh' = [fresh EXCEPT !.server = FALSE, !.seen = @ /\ cr' = cr],
         UNCHANGED <<seen, pdb, pdbSeen>>
  PROVE  CopiesAgree' /\ fresh' \in FreshType
<1> DEFINE same == cr' = cr
<1>1. same \in BOOLEAN /\ fresh' = [fresh EXCEPT !.server = FALSE, !.seen = @ /\ same]
  OBVIOUS
<1> HIDE DEF same
<1>2. fresh' \in FreshType /\ ~fresh'.server /\ (fresh'.seen => fresh.seen /\ same)
      /\ fresh'.pdb = fresh.pdb
  BY <1>1, StatusFields DEF IInv, TypeOK
<1> QED
  BY <1>2 DEF same, IInv, CopiesAgree

LEMMA BudgetCopies ==
  ASSUME IInv, fresh' = [fresh EXCEPT !.pdb = @ /\ pdb' = pdb],
         UNCHANGED <<cr, seen, pdbSeen>>, rec'.server = rec.server
  PROVE  CopiesAgree' /\ fresh' \in FreshType
<1> DEFINE same == pdb' = pdb
<1>1. same \in BOOLEAN /\ fresh' = [fresh EXCEPT !.pdb = @ /\ same]
  OBVIOUS
<1> HIDE DEF same
<1>2. fresh' \in FreshType /\ fresh'.seen = fresh.seen /\ fresh'.server = fresh.server
      /\ (fresh'.pdb => fresh.pdb /\ same)
  BY <1>1, BudgetFields DEF IInv, TypeOK
<1> QED
  BY <1>2 DEF same, IInv, CopiesAgree

LEMMA ReconcileCopies ==
  ASSUME IInv, Reconcile
  PROVE  CopiesAgree' /\ fresh' \in FreshType
<1> USE DEF IInv
<1>0. ASSUME ReturnError, UNCHANGED <<seen, pdbSeen>> PROVE CopiesAgree' /\ fresh' \in FreshType
  BY <1>0, ErrorCopies, ErrorFields DEF TypeOK
<1>1. CASE StartReconcile
  <2>1. fresh' = [fresh EXCEPT !.server = fresh.seen /\ seen.exists]
        /\ UNCHANGED <<cr, seen, pdb, pdbSeen>>
    BY <1>1 DEF StartReconcile
  <2>2. fresh' \in FreshType /\ fresh'.seen = fresh.seen /\ fresh'.pdb = fresh.pdb
    BY <2>1 DEF TypeOK, FreshType, ServerType
  <2>3. fresh'.server = (fresh.seen /\ seen.exists)
    BY <2>1 DEF TypeOK, FreshType
  <2>4. seen.exists => rec'.server = seen
    BY <1>1 DEF StartReconcile, Idle
  <2> QED
    BY <2>1, <2>2, <2>3, <2>4 DEF CopiesAgree
<1>2. CASE RemoveFinalizer
  <2>1. CASE fresh.server
    BY <1>2, <2>1, RemovedCopies, StoreCRFields DEF RemoveFinalizer, Finish, TypeOK
  <2> QED
    BY <1>0, <1>2, <2>1 DEF RemoveFinalizer
<1>3. CASE CheckPassword
  <2>1. CASE password
    <3>1. UNCHANGED <<cr, seen, pdb, pdbSeen, fresh>> /\ rec'.server = rec.server
      BY <1>3, <2>1, GotoFields DEF CheckPassword, TypeOK
    <3> QED
      BY <3>1 DEF CopiesAgree, TypeOK
  <2>2. CASE ~password
    BY <1>3, <2>2, StatusCopies DEF CheckPassword
  <2> QED
    BY <2>1, <2>2
<1>4. CASE ReconcilePDB
  <2>1. CASE fresh' = [fresh EXCEPT !.pdb = @ /\ pdb' = pdb]
             /\ rec' = [rec EXCEPT !.pc = "deferral"] /\ cr' = cr
    BY <1>4, <2>1, GotoFields, BudgetCopies DEF ReconcilePDB, TypeOK
  <2>2. ReturnError \/ (fresh' = [fresh EXCEPT !.pdb = @ /\ pdb' = pdb]
                        /\ rec' = [rec EXCEPT !.pc = "deferral"] /\ cr' = cr)
    BY <1>4 DEF ReconcilePDB
  <2> QED
    BY <1>0, <1>4, <2>1, <2>2 DEF ReconcilePDB
<1>5. CASE DeferralCheck
  <2>1. UNCHANGED <<cr, seen, pdb, pdbSeen, fresh>>
        /\ rec' = [rec EXCEPT !.pc = "status", !.deferred = Protected(rec.server)]
    BY <1>5 DEF DeferralCheck
  <2>2. rec'.server = rec.server
    BY <2>1 DEF TypeOK, RecType
  <2> QED
    BY <2>1, <2>2 DEF CopiesAgree, TypeOK
<1>6. CASE UpdateStatus
  BY <1>0, <1>6, StatusCopies DEF UpdateStatus, StoreStatus
<1> QED
  BY <1>1, <1>2, <1>3, <1>4, <1>5, <1>6 DEF Reconcile

LEMMA OtherCopies ==
  ASSUME IInv, Next, ~Reconcile
  PROVE  CopiesAgree' /\ fresh' \in FreshType
<1> USE DEF IInv
<1>1. CASE RemovalUnacknowledged
  BY <1>1, RemovedCopies, StoreCRFields DEF RemovalUnacknowledged, Requeue, TypeOK
<1>2. CASE ApiFault
  BY <1>2, ErrorCopies, ErrorFields DEF ApiFault, TypeOK
<1>3. CASE Restart
  <2>1. fresh' = [seen |-> TRUE, server |-> FALSE, pdb |-> TRUE] /\ seen' = cr' /\ pdbSeen' = pdb'
    BY <1>3 DEF Restart
  <2>2. fresh' \in FreshType /\ fresh'.server = FALSE
    BY <2>1 DEF FreshType
  <2> QED
    BY <2>1, <2>2 DEF CopiesAgree
<1>4. CASE SyncCR
  <2>1. fresh' = [fresh EXCEPT !.seen = TRUE] /\ seen' = cr' /\ UNCHANGED <<cr, pdb, pdbSeen, rec>>
    BY <1>4 DEF SyncCR
  <2>2. fresh' \in FreshType /\ fresh'.server = fresh.server /\ fresh'.pdb = fresh.pdb
    BY <2>1 DEF TypeOK, FreshType
  <2> QED
    BY <2>1, <2>2 DEF CopiesAgree
<1>5. CASE SyncPDB
  <2>1. fresh' = [fresh EXCEPT !.pdb = TRUE] /\ pdbSeen' = pdb' /\ UNCHANGED <<cr, seen, pdb, rec>>
    BY <1>5 DEF SyncPDB
  <2>2. fresh' \in FreshType /\ fresh'.server = fresh.server /\ fresh'.seen = fresh.seen
    BY <2>1 DEF TypeOK, FreshType
  <2> QED
    BY <2>1, <2>2 DEF CopiesAgree
<1>6. CASE CollectGarbage
  <2>1. fresh' = [fresh EXCEPT !.pdb = FALSE] /\ UNCHANGED <<cr, seen, rec>>
    BY <1>6 DEF CollectGarbage
  <2>2. fresh' \in FreshType /\ fresh'.server = fresh.server /\ fresh'.seen = fresh.seen
    BY <2>1 DEF TypeOK, FreshType
  <2>3. fresh'.pdb = FALSE
    BY <2>1 DEF TypeOK, FreshType
  <2> QED
    BY <2>1, <2>2, <2>3 DEF CopiesAgree
<1>7. CASE Signals \/ UserEdit \/ UserDelete
  BY <1>7, ForeignWrite, StoredCopies, StoreCRFields DEF TypeOK
<1>8. CASE TimerFires \/ Resync \/ Changes \/ SecretChange \/ ClockCrosses
  <2>1. UNCHANGED <<cr, seen, pdb, pdbSeen, fresh, rec>>
    BY <1>8 DEF TimerFires, Resync, Changes, StatefulSetChanges, SecretChange, ClockCrosses
  <2> QED
    BY <2>1 DEF CopiesAgree, TypeOK
<1>9. CASE StatusUnacknowledged
  BY <1>9, StatusCopies DEF StatusUnacknowledged, StoreStatus
<1> QED
  BY <1>1, <1>2, <1>3, <1>4, <1>5, <1>6, <1>7, <1>8, <1>9 DEF Next, Signals, Changes

-----------------------------------------------------------------------------
(* Types, but for fresh.                                                    *)

ClusterType == /\ {password, window, queued, timer} \subseteq BOOLEAN
               /\ pod \in {"absent", "starting", "updating", "ready"}

GaugeType == /\ gauges \subseteq {"ready", "deferred", "window"} \X BOOLEAN
             /\ series \subseteq Phase

LEMMA TypeParts ==
  TypeOK <=> /\ cr \in ServerType /\ seen \in ServerType /\ rec \in RecType
             /\ {pdb, pdbSeen} \subseteq {NoPDB, 0, 1} /\ fresh \in FreshType
             /\ ClusterType /\ GaugeType
BY DEF TypeOK, ClusterType, GaugeType

LEMMA ClusterTypeStep ==
  ASSUME TypeOK, Next
  PROVE  ClusterType'
<1>1. ClusterType
  BY TypeParts
<1>2. CASE Reconcile
  <2>1. rec.deferred \in BOOLEAN
    BY DEF TypeOK, RecType
  <2>2. /\ queued' \in {queued, TRUE, FALSE} /\ timer' \in {timer, timer \/ rec.deferred}
        /\ UNCHANGED <<password, window, pod>>
    BY <1>2 DEF Reconcile, StartReconcile, RemoveFinalizer, CheckPassword, ReconcilePDB,
       DeferralCheck, UpdateStatus, ReturnError, Requeue, Finish, clusterVars
  <2> QED
    BY <1>1, <2>1, <2>2 DEF ClusterType
<1>3. CASE RemovalUnacknowledged \/ StatusUnacknowledged \/ ApiFault \/ Restart \/ SyncCR \/ SyncPDB
           \/ TimerFires \/ Resync \/ CollectGarbage \/ Signals \/ UserEdit \/ UserDelete
  <2>1. queued' \in {queued, TRUE} /\ timer' \in {timer, FALSE} /\ UNCHANGED <<password, window, pod>>
    BY <1>3 DEF RemovalUnacknowledged, StatusUnacknowledged, ApiFault, Restart, SyncCR, SyncPDB,
       TimerFires, Resync, CollectGarbage, Signals, SidecarReports, UserEdit, UserDelete, ReturnError, Requeue,
       clusterVars
  <2> QED
    BY <1>1, <2>1 DEF ClusterType
<1>4. CASE Changes
  BY <1>1, <1>4 DEF Changes, StatefulSetChanges, ClusterType
<1>5. CASE SecretChange
  BY <1>1, <1>5 DEF SecretChange, ClusterType
<1>6. CASE ClockCrosses
  BY <1>1, <1>6 DEF ClockCrosses, ClusterType
<1> QED
  BY <1>2, <1>3, <1>4, <1>5, <1>6 DEF Next, Signals, Changes

LEMMA GaugeTypeStep ==
  ASSUME TypeOK, Next
  PROVE  GaugeType'
<1>1. GaugeType
  BY TypeParts
<1>2. CASE UNCHANGED gaugeVars
  BY <1>1, <1>2 DEF gaugeVars, GaugeType
<1>3. CASE gauges' = {} /\ series' \subseteq series
  BY <1>1, <1>3 DEF GaugeType
<1>4. CASE UpdateStatus
  <2>1. rec.deferred \in BOOLEAN /\ window \in BOOLEAN
    BY DEF TypeOK, RecType
  <2>2. CASE ~fresh.server
    BY <1>2, <1>4, <2>2 DEF UpdateStatus, ReturnError
  <2>3. CASE fresh.server
    <3>1. /\ gauges' = {<<"ready", pod = "ready">>, <<"deferred", rec.deferred>>,
                        <<"window", window>>}
          /\ series' = (series \ {rec.server.phase}) \cup {PhaseOf(pod)}
      BY <1>4, <2>3 DEF UpdateStatus, SetServerMetrics
    <3>2. gauges' \subseteq {"ready", "deferred", "window"} \X BOOLEAN
      <4> DEFINE up == pod = "ready"
      <4>1. up \in BOOLEAN /\ gauges' = {<<"ready", up>>, <<"deferred", rec.deferred>>,
                                        <<"window", window>>}
        BY <3>1
      <4> HIDE DEF up
      <4>2. \A b \in BOOLEAN : \A g \in {"ready", "deferred", "window"} :
              <<g, b>> \in {"ready", "deferred", "window"} \X BOOLEAN
        OBVIOUS
      <4> QED
        BY <2>1, <4>1, <4>2
    <3>3. series' \subseteq Phase
      BY <1>1, <3>1, PhaseValues DEF GaugeType
    <3> QED
      BY <3>2, <3>3 DEF GaugeType
  <2> QED
    BY <2>2, <2>3
<1>5. CASE RemoveFinalizer \/ Restart
  BY <1>2, <1>3, <1>5 DEF RemoveFinalizer, Restart, DeleteServerMetrics, NoGauges, ReturnError
<1>6. CASE StartReconcile \/ CheckPassword \/ ReconcilePDB \/ DeferralCheck
  BY <1>2, <1>6 DEF StartReconcile, CheckPassword, ReconcilePDB, DeferralCheck, ReturnError
<1>7. CASE RemovalUnacknowledged \/ StatusUnacknowledged \/ ApiFault \/ SyncCR \/ SyncPDB
           \/ TimerFires \/ Resync \/ CollectGarbage \/ Signals \/ UserEdit \/ UserDelete \/ Changes \/ SecretChange
           \/ ClockCrosses
  BY <1>2, <1>7 DEF RemovalUnacknowledged, StatusUnacknowledged, ApiFault, SyncCR, SyncPDB, TimerFires, Resync,
     CollectGarbage, Signals, SidecarReports, UserEdit, UserDelete, Changes, StatefulSetChanges,
     SecretChange, ClockCrosses, ReturnError
<1> QED
  BY <1>4, <1>5, <1>6, <1>7 DEF Next, Reconcile, Signals, Changes

ObjectType == /\ cr \in ServerType /\ seen \in ServerType /\ rec \in RecType
              /\ {pdb, pdbSeen} \subseteq {NoPDB, 0, 1}

LEMMA GotoType ==
  ASSUME rec \in RecType, NEW step \in {"pdb", "deferral"}, rec' = [rec EXCEPT !.pc = step]
  PROVE  rec' \in RecType
BY DEF RecType

LEMMA ErrorObjects ==
  ASSUME TypeOK, ReturnError, UNCHANGED <<seen, pdbSeen>>
  PROVE  ObjectType'
BY IdleType DEF TypeOK, ObjectType, ReturnError, Requeue

LEMMA StoredStatus ==
  ASSUME TypeOK, StoreStatus
  PROVE  cr' \in ServerType /\ cr'.phase = PhaseOf(pod) /\ cr'.exists = cr.exists
<1>1. rec.deferred \in BOOLEAN /\ PhaseOf(pod) \in Phase
  BY PhaseValues DEF TypeOK, RecType
<1>2. cr' = [cr EXCEPT !.phase = PhaseOf(pod), !.deferred = rec.deferred]
  BY DEF StoreStatus
<1> QED
  BY <1>1, <1>2 DEF TypeOK, ServerType

LEMMA ReconcileObjects ==
  ASSUME TypeOK, Reconcile
  PROVE  ObjectType'
<1>1. CASE StartReconcile
  <2>1. rec' = Idle \/ \E step \in {"removeFinalizer", "password"} :
                         rec' = [Idle EXCEPT !.pc = step, !.server = seen]
    BY <1>1 DEF StartReconcile
  <2>2. rec' \in RecType
    BY <2>1, IdleType DEF TypeOK, RecType
  <2> QED
    BY <1>1, <2>2 DEF StartReconcile, TypeOK, ObjectType
<1>2. CASE RemoveFinalizer
  BY <1>2, ErrorObjects, IdleType, NoServerType
  DEF RemoveFinalizer, StoreCR, Finish, TypeOK, ObjectType
<1>3. CASE CheckPassword
  <2>1. [cr EXCEPT !.phase = "Error"] \in ServerType
    BY DEF TypeOK, ServerType, Phase
  <2>2. rec' \in RecType
    BY <1>3, GotoType, IdleType DEF CheckPassword, Requeue, TypeOK
  <2> QED
    BY <1>3, <2>1, <2>2 DEF CheckPassword, TypeOK, ObjectType
<1>4. CASE ReconcilePDB
  <2>1. CASE ReturnError
    BY <1>4, <2>1, ErrorObjects DEF ReconcilePDB
  <2>2. CASE ~ReturnError
    <3> DEFINE m == MaxUnavailable(rec.server)
    <3>1. /\ pdb' = CASE pdbSeen = NoPDB /\ pdb # NoPDB -> pdb
                      [] pdbSeen = m -> pdb
                      [] OTHER -> m
          /\ rec' = [rec EXCEPT !.pc = "deferral"]
          /\ UNCHANGED <<cr, seen, pdbSeen>>
      BY <1>4, <2>2 DEF ReconcilePDB
    <3>2. m \in {0, 1}
      BY MaxUnavailableValues
    <3> HIDE DEF m
    <3>3. pdb' = pdb \/ pdb' = m
      BY <3>1
    <3>4. rec' \in RecType
      BY <3>1, GotoType DEF TypeOK
    <3> QED
      BY <3>1, <3>2, <3>3, <3>4 DEF TypeOK, ObjectType
  <2> QED
    BY <2>1, <2>2
<1>5. CASE DeferralCheck
  <2>1. Protected(rec.server) \in BOOLEAN
    BY DEF Protected, TypeOK, RecType, ServerType
  <2>2. rec' = [rec EXCEPT !.pc = "status", !.deferred = Protected(rec.server)]
    BY <1>5 DEF DeferralCheck
  <2>3. rec' \in RecType
    BY <2>1, <2>2 DEF TypeOK, RecType
  <2> QED
    BY <1>5, <2>3 DEF DeferralCheck, TypeOK, ObjectType
<1>6. CASE UpdateStatus
  BY <1>6, StoredStatus, ErrorObjects, IdleType DEF UpdateStatus, Finish, TypeOK, ObjectType
<1> QED
  BY <1>1, <1>2, <1>3, <1>4, <1>5, <1>6 DEF Reconcile

LEMMA OtherObjects ==
  ASSUME TypeOK, Next, ~Reconcile
  PROVE  ObjectType'
<1>1. CASE RemovalUnacknowledged
  BY <1>1, IdleType, NoServerType DEF RemovalUnacknowledged, StoreCR, Requeue, TypeOK, ObjectType
<1>2. CASE ApiFault
  BY <1>2, ErrorObjects DEF ApiFault
<1>3. CASE Restart \/ SyncCR \/ SyncPDB \/ CollectGarbage
  BY <1>3, IdleType DEF Restart, SyncCR, SyncPDB, CollectGarbage, TypeOK, ObjectType
<1>4. CASE Signals \/ UserEdit \/ UserDelete
  BY <1>4, ForeignWrite DEF StoreCR, TypeOK, ObjectType
<1>5. CASE TimerFires \/ Resync \/ Changes \/ SecretChange \/ ClockCrosses
  BY <1>5 DEF TimerFires, Resync, Changes, StatefulSetChanges, SecretChange, ClockCrosses,
     TypeOK, ObjectType
<1>6. CASE StatusUnacknowledged
  BY <1>6, StoredStatus, IdleType DEF StatusUnacknowledged, Requeue, TypeOK, ObjectType
<1> QED
  BY <1>1, <1>2, <1>3, <1>4, <1>5, <1>6 DEF Next, Signals, Changes

-----------------------------------------------------------------------------
(* What is published and what is stored.                                    *)

LEMMA SpentStep ==
  ASSUME IInv, Next
  PROVE  /\ spent' \in [EventKind -> Nat]
         /\ spent'["secret"] = 0 => spent["secret"] = 0 /\ ~SecretChange
         /\ spent'["lost"] = 0 =>
              spent["lost"] = 0 /\ ~RemovalUnacknowledged /\ ~StatusUnacknowledged
<1>1. spent \in [EventKind -> Nat]
  BY DEF IInv, Counted
<1>2. ASSUME NEW kind \in EventKind, Spend(kind)
      PROVE  /\ spent' \in [EventKind -> Nat]
             /\ \A k \in {"secret", "lost"} : spent'[k] = 0 => spent[k] = 0 /\ kind # k
  <2>1. spent' = [spent EXCEPT ![kind] = @ + 1]
    BY <1>2 DEF Spend
  <2>2. spent' \in [EventKind -> Nat]
    BY <1>1, <2>1
  <2>3. ASSUME NEW k \in EventKind
        PROVE  spent'[k] = 0 => spent[k] = 0 /\ kind # k
    <3>1. spent[k] \in Nat /\ spent'[k] = IF k = kind THEN spent[k] + 1 ELSE spent[k]
      BY <1>1, <2>1
    <3> QED
      BY <3>1
  <2> QED
    BY <2>2, <2>3 DEF EventKind
<1>3. SecretChange => Spend("secret")
  BY DEF SecretChange
<1>4. RemovalUnacknowledged \/ StatusUnacknowledged => Spend("lost")
  BY DEF RemovalUnacknowledged, StatusUnacknowledged
<1>5. spent' = spent \/ \E kind \in EventKind : Spend(kind)
  <2>1. CASE Reconcile
    BY <2>1 DEF Reconcile, StartReconcile, RemoveFinalizer, CheckPassword, ReconcilePDB,
       DeferralCheck, UpdateStatus
  <2>2. CASE ~Reconcile
    BY <2>2 DEF Next, RemovalUnacknowledged, StatusUnacknowledged, ApiFault, Restart, SyncCR,
       SyncPDB, TimerFires, Resync, CollectGarbage, SidecarReports, UserEdit, UserDelete,
       StatefulSetChanges, SecretChange, ClockCrosses, EventKind
  <2> QED
    BY <2>1, <2>2
<1>6. CASE \E kind \in EventKind : Spend(kind)
  BY <1>2, <1>3, <1>4, <1>6 DEF EventKind
<1>7. CASE spent' = spent
  <2>1. ASSUME NEW kind \in EventKind, Spend(kind) PROVE FALSE
    <3>1. spent'[kind] = spent[kind] + 1
      BY <1>1, <2>1 DEF Spend
    <3>2. spent[kind] \in Nat
      BY <1>1
    <3> QED
      BY <1>7, <3>1, <3>2
  <2> QED
    BY <1>1, <1>3, <1>4, <1>7, <2>1 DEF EventKind
<1> QED
  BY <1>5, <1>6, <1>7

LEMMA CountedStep ==
  ASSUME IInv, Next
  PROVE  Counted'
<1> USE DEF IInv
<1>1. ASSUME spent'["secret"] = 0 PROVE password'
  <2>1. password /\ ~SecretChange
    BY <1>1, SpentStep DEF Counted
  <2>2. password' = password
    <3>1. CASE Reconcile
      BY <3>1 DEF Reconcile, StartReconcile, RemoveFinalizer, CheckPassword, ReconcilePDB,
         DeferralCheck, UpdateStatus, clusterVars
    <3>2. CASE ~Reconcile
      BY <2>1, <3>2 DEF Next, RemovalUnacknowledged, StatusUnacknowledged, ApiFault, Restart,
         SyncCR, SyncPDB, TimerFires, Resync, CollectGarbage, SidecarReports, UserEdit, UserDelete,
         StatefulSetChanges, ClockCrosses, clusterVars
    <3> QED
      BY <3>1, <3>2
  <2> QED
    BY <2>1, <2>2
<1>2. ASSUME rec'.pc # "idle" PROVE rec'.server.exists
  <2>1. CASE StartReconcile
    <3>1. seen.exists
      BY <1>2, <2>1, IdleType DEF StartReconcile
    <3>2. rec'.server = seen
      BY <2>1, <3>1 DEF StartReconcile, Idle
    <3> QED
      BY <3>1, <3>2
  <2>2. CASE rec' = Idle
    BY <1>2, <2>2, IdleType
  <2>3. CASE rec' = rec
    BY <1>2, <2>3 DEF Counted
  <2>4. CASE rec.pc # "idle" /\ rec'.server = rec.server
    BY <2>4 DEF Counted
  <2>5. CASE CheckPassword
    <3>1. rec.pc = "password" /\ (rec' = Idle \/ rec' = [rec EXCEPT !.pc = "pdb"])
      BY <2>5 DEF CheckPassword, Requeue
    <3> QED
      BY <2>2, <2>4, <3>1, GotoFields DEF TypeOK
  <2>6. CASE ReconcilePDB
    <3>1. rec.pc = "pdb" /\ (rec' = Idle \/ rec' = [rec EXCEPT !.pc = "deferral"])
      BY <2>6 DEF ReconcilePDB, ReturnError, Requeue
    <3> QED
      BY <2>2, <2>4, <3>1, GotoFields DEF TypeOK
  <2>7. CASE DeferralCheck
    <3>1. rec.pc = "deferral"
          /\ rec' = [rec EXCEPT !.pc = "status", !.deferred = Protected(rec.server)]
      BY <2>7 DEF DeferralCheck
    <3>2. rec'.server = rec.server
      BY <3>1 DEF TypeOK, RecType
    <3> QED
      BY <2>4, <3>1, <3>2
  <2>8. CASE RemoveFinalizer \/ UpdateStatus
    BY <2>2, <2>8 DEF RemoveFinalizer, UpdateStatus, ReturnError, Requeue, Finish
  <2>9. CASE ~Reconcile
    BY <2>2, <2>3, <2>9 DEF Next, RemovalUnacknowledged, StatusUnacknowledged, ApiFault, Restart,
       SyncCR, SyncPDB, TimerFires, Resync, CollectGarbage, SidecarReports, UserEdit, UserDelete,
       StatefulSetChanges, SecretChange, ClockCrosses, ReturnError, Requeue
  <2> QED
    BY <2>1, <2>5, <2>6, <2>7, <2>8, <2>9 DEF Reconcile
<1> QED
  BY <1>1, <1>2, SpentStep DEF Counted

\* A step that leaves alone both what is published and what it stands for.
Unpublished == UNCHANGED gaugeVars /\ cr'.phase = cr.phase /\ cr'.exists = cr.exists

LEMMA ForeignKeeps ==
  ASSUME TypeOK, Signals \/ UserEdit \/ UserDelete
  PROVE  Unpublished
<1>1. UNCHANGED gaugeVars
  BY ForeignWrite
<1>2. \/ \E n \in 0 .. MaxPlayers : cr' = [cr EXCEPT !.players = n]
      \/ cr' = [cr EXCEPT !.defer = ~cr.defer]
      \/ cr' = [cr EXCEPT !.deleting = TRUE]
  BY DEF Signals, SidecarReports, UserEdit, UserDelete, StoreCR
<1>3. cr'.phase = cr.phase /\ cr'.exists = cr.exists
  BY <1>2 DEF TypeOK, ServerType
<1> QED
  BY <1>1, <1>3 DEF Unpublished

\* The other steps are the status update, the removal of the finalizer, a restart, and what
\* follows a lost answer or a lost password.
LEMMA Publishers ==
  ASSUME IInv, Next, ~StatusUnacknowledged, ~RemovalUnacknowledged
  PROVE  \/ Unpublished \/ Restart
         \/ fresh.server /\ (UpdateStatus \/ RemoveFinalizer)
         \/ ~password /\ UNCHANGED gaugeVars /\ cr'.exists = cr.exists
<1> USE DEF IInv
<1>1. CASE ReturnError
  BY <1>1 DEF ReturnError, Unpublished
<1>2. CASE UNCHANGED <<cr, gaugeVars>>
  BY <1>2 DEF Unpublished
<1>3. CASE CheckPassword
  <2>1. CASE password
    BY <1>2, <1>3, <2>1 DEF CheckPassword
  <2>2. CASE ~password
    <3>1. cr' = cr \/ cr' = [cr EXCEPT !.phase = "Error"]
      BY <1>3, <2>2 DEF CheckPassword
    <3>2. cr'.exists = cr.exists
      BY <3>1 DEF TypeOK, ServerType
    <3> QED
      BY <1>3, <2>2, <3>2 DEF CheckPassword
  <2> QED
    BY <2>1, <2>2
<1>4. CASE UpdateStatus \/ RemoveFinalizer
  BY <1>1, <1>4 DEF UpdateStatus, RemoveFinalizer
<1>5. CASE ReconcilePDB
  BY <1>1, <1>2, <1>5 DEF ReconcilePDB
<1>6. CASE StartReconcile \/ DeferralCheck
  BY <1>2, <1>6 DEF StartReconcile, DeferralCheck
<1>7. CASE Signals \/ UserEdit \/ UserDelete
  BY <1>7, ForeignKeeps
<1>8. CASE ApiFault
  BY <1>1, <1>8 DEF ApiFault
<1>9. CASE SyncCR \/ SyncPDB \/ TimerFires \/ Resync \/ CollectGarbage \/ Changes \/ SecretChange
           \/ ClockCrosses
  BY <1>2, <1>9 DEF SyncCR, SyncPDB, TimerFires, Resync, CollectGarbage, Changes,
     StatefulSetChanges, SecretChange, ClockCrosses
<1> QED
  BY <1>3, <1>4, <1>5, <1>6, <1>7, <1>8, <1>9 DEF Next, Reconcile, Signals, Changes

LEMMA SeriesStep ==
  ASSUME IInv, Next
  PROVE  SeriesFollowsPhase'
<1> SUFFICES ASSUME spent'["secret"] = 0, spent'["lost"] = 0
             PROVE  series' \subseteq {cr'.phase}
  BY DEF SeriesFollowsPhase
<1>1. /\ spent["secret"] = 0 /\ spent["lost"] = 0
      /\ ~RemovalUnacknowledged /\ ~StatusUnacknowledged
  BY SpentStep
<1>2. password /\ series \subseteq {cr.phase}
  BY <1>1 DEF IInv, Counted, SeriesFollowsPhase
<1>3. fresh.server => rec.server.phase = cr.phase
  BY DEF IInv, CopiesAgree
<1>4. CASE Unpublished
  BY <1>2, <1>4 DEF Unpublished, gaugeVars
<1>5. CASE Restart
  BY <1>5 DEF Restart
<1>6. CASE UpdateStatus /\ fresh.server
  <2>1. StoreStatus /\ series' = (series \ {rec.server.phase}) \cup {PhaseOf(pod)}
    BY <1>6 DEF UpdateStatus, SetServerMetrics
  <2>2. cr'.phase = PhaseOf(pod)
    BY <2>1, StoredStatus DEF IInv
  <2> QED
    BY <1>2, <1>3, <1>6, <2>1, <2>2
<1>7. CASE RemoveFinalizer /\ fresh.server
  BY <1>2, <1>3, <1>7 DEF RemoveFinalizer, DeleteServerMetrics
<1> QED
  BY <1>1, <1>2, <1>4, <1>5, <1>6, <1>7, Publishers

LEMMA GaugesStep ==
  ASSUME IInv, Next
  PROVE  GaugesGoWithServer'
<1> SUFFICES ASSUME spent'["lost"] = 0, ~cr'.exists
             PROVE  gauges' = NoGauges
  BY DEF GaugesGoWithServer, NoGauges
<1>1. spent["lost"] = 0 /\ ~RemovalUnacknowledged /\ ~StatusUnacknowledged
  BY SpentStep
<1>2. CASE UNCHANGED gaugeVars /\ cr'.exists = cr.exists
  BY <1>1, <1>2 DEF IInv, GaugesGoWithServer, gaugeVars
<1>3. CASE Restart
  BY <1>3 DEF Restart
<1>4. CASE UpdateStatus /\ fresh.server
  <2>1. rec.server = cr /\ rec.server.exists
    BY <1>4 DEF UpdateStatus, IInv, CopiesAgree, Counted
  <2>2. cr'.exists = cr.exists
    BY <1>4, StoredStatus DEF UpdateStatus, IInv
  <2> QED
    BY <2>1, <2>2
<1>5. CASE RemoveFinalizer /\ fresh.server
  BY <1>5 DEF RemoveFinalizer, DeleteServerMetrics
<1> QED
  BY <1>1, <1>2, <1>3, <1>4, <1>5, Publishers DEF Unpublished

-----------------------------------------------------------------------------
(* The theorems.                                                            *)

LEMMA IInvStep ==
  ASSUME IInv, Next
  PROVE  IInv'
<1>1. CopiesAgree' /\ fresh' \in FreshType
  BY ReconcileCopies, OtherCopies
<1>2. ObjectType' /\ ClusterType' /\ GaugeType'
  BY ReconcileObjects, OtherObjects, ClusterTypeStep, GaugeTypeStep DEF IInv
<1>3. TypeOK'
  BY <1>1, <1>2 DEF TypeOK, ObjectType, ClusterType, GaugeType
<1> QED
  BY <1>1, <1>3, SignalsStep, CountedStep, SeriesStep, GaugesStep DEF IInv

LEMMA IInvInit ==
  ASSUME Init
  PROVE  IInv
<1>1. cr \in ServerType
  <2>1. PICK d \in BOOLEAN : cr = [NoServer EXCEPT !.exists = TRUE, !.defer = d]
    BY DEF Init
  <2> QED
    BY <2>1, NoServerType DEF ServerType
<1>2. fresh \in FreshType /\ fresh.server = FALSE
  BY DEF Init, FreshType
<1>3. TypeOK
  BY <1>1, <1>2, IdleType DEF Init, TypeOK, NoGauges
<1>4. CopiesAgree
  BY <1>2 DEF Init, CopiesAgree
<1>5. BudgetIsSet /\ RestDrainsAllowed /\ RestGaugesAgree
  BY DEF Init, BudgetIsSet, RestDrainsAllowed, RestGaugesAgree, Rest
<1>6. Counted
  BY IdleType DEF Init, Counted
<1>7. SeriesFollowsPhase /\ GaugesGoWithServer
  BY DEF Init, SeriesFollowsPhase, GaugesGoWithServer
<1> QED
  BY <1>3, <1>4, <1>5, <1>6, <1>7 DEF IInv

LEMMA IInvStutters ==
  ASSUME IInv, UNCHANGED vars
  PROVE  IInv'
<1>1. TypeOK' /\ CopiesAgree'
  BY DEF IInv, vars, TypeOK, CopiesAgree
<1>2. Quiet
  BY DEF vars, Quiet
<1>3. Counted' /\ SeriesFollowsPhase' /\ GaugesGoWithServer'
  BY DEF IInv, vars, Counted, SeriesFollowsPhase, GaugesGoWithServer, NoGauges
<1> QED
  BY <1>1, <1>2, <1>3, QuietKeeps DEF IInv

\* The inductive invariant holds.
THEOREM SignalInvariant == Spec => []IInv
<1>1. Init => IInv
  BY IInvInit
<1>2. IInv /\ Next => IInv'
  BY IInvStep
<1>3. IInv /\ UNCHANGED vars => IInv'
  BY IInvStutters
<1> QED
  BY <1>1, <1>2, <1>3, PTL DEF Spec

\* Status, gauges, disruption budget and the step of the reconcile have their types, across
\* restarts and failed calls.
THEOREM SignalTypes == Spec => []TypeOK
BY SignalInvariant, PTL DEF IInv

\* An operator at rest never leaves a budget that blocks the drain of a node whose server
\* no one plays on (reconcilePDB takes AlreadyExists for success).
THEOREM DrainsAllowed == Spec => []RestDrainsAllowed
BY SignalInvariant, PTL DEF IInv

\* The gauges of an operator at rest agree with the status it stored (updateStatus,
\* SetServerMetrics), restarts included.
THEOREM GaugesAgree == Spec => []RestGaugesAgree
BY SignalInvariant, PTL DEF IInv

\* No series of a phase that is no longer stored is published, until the password is touched
\* (setPhaseError sets no metric) or an answer is lost (updateStatus, SetServerMetrics and
\* DeleteServerMetrics delete the label of the copy's phase).
THEOREM SeriesFollow == Spec => []SeriesFollowsPhase
BY SignalInvariant, PTL DEF IInv

\* Without a lost answer, no gauge of a server outlives it (handleDeletion), although
\* reconciles go on with copies of it (updateStatus).
THEOREM GaugesGo == Spec => []GaugesGoWithServer
BY SignalInvariant, PTL DEF IInv
=============================================================================
