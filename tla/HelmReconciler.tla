---------------------------- MODULE HelmReconciler ----------------------------
(***************************************************************************)
(* The helm operator for one custom resource (CR): the reconciler, the     *)
(* release manager it calls, and what they act on.                         *)
(*                                                                         *)
(* The reconciler reads the CR from a cache that lags behind the API       *)
(* server, and writes to the API server, which refuses a write that is     *)
(* based on an old version.  The release manager drives helm, whose        *)
(* operations are sequences of writes to helm's storage and to the         *)
(* cluster; any of them may fail, and the operator may crash between any   *)
(* two.  Users create, edit and delete the CR and change the release's     *)
(* resources meanwhile.                                                    *)
(*                                                                         *)
(* The API server, the cache, the work queue, helm (v3.1) and the garbage  *)
(* collector are external: modelled from how the operator uses them.       *)
(***************************************************************************)
EXTENDS Naturals, SequencesExt, HelmAppStatus, IstioEnv

CONSTANTS
  Specs,        \* what users create and edit CRs with
  BadCharts,    \* the charts' values whose manifest the cluster refuses
  None,         \* no spec, no manifest
  Mixed,        \* resources that are no manifest's: half applied or changed
  MaxUid,       \* bound on the number of CRs created, one after the other
  MaxEdits,     \* bound on edits of the CR and of the resources
  MaxTroubles   \* bound on failing calls, failing records and crashes together

ASSUME HelmAssumption ==
  /\ Specs \subseteq Contents /\ BadCharts \subseteq Charts
  /\ None \notin Contents \cup Manifests /\ Mixed \notin Manifests /\ None # Mixed
  /\ MaxUid \in Nat /\ MaxEdits \in Nat /\ MaxTroubles \in Nat

VARIABLES
  cr,       \* the CR in the API server
  watch,    \* the versions of the CR that the cache has not seen yet
  cache,    \* the CR in the operator's cache
  queued,   \* is the CR's key in the work queue?
  pc,       \* the next step of Reconcile
  o,        \* Reconcile's copy of the CR
  fresh,    \* is o's resource version the server's?
  status,   \* Reconcile's HelmAppStatus
  need,     \* what Reconcile has to do: install, update, undo, reconcile
  rel,      \* the manifest of the manager's deployed release
  hist,     \* helm's storage: the records of the release
  live,     \* the release's resources in the cluster and the CR that owns them
  ns,       \* the labels of the release's namespace
  bounds    \* edits, faults, failing records and crashes so far

server  == <<cr, watch>>
local   == <<o, fresh, status, need, rel>>
cluster == <<hist, live, ns>>

vars == <<server, cache, queued, pc, local, cluster, bounds>>

-----------------------------------------------------------------------------
(* The API server *)

NoStatus == EmptyStatus(None)

NoCR == [exists |-> FALSE, uid |-> 0, spec |-> None, finalizer |-> FALSE,
         deleting |-> FALSE, status |-> NoStatus]

\* The server stores c and announces it, unless c is what it has.
Store(c) == cr' = c /\ watch' = IF c = cr THEN watch ELSE Append(watch, c)

\* What is left of a CR that is removed.
Removed(c) == [NoCR EXCEPT !.uid = c.uid]

\* Mutant: writes carry no resource version.
CurrentAny == cr.exists /\ o.uid = cr.uid

\* A write based on o is accepted: o is the version the server has.
Current == cr.exists /\ fresh

Edited == bounds.edits < MaxEdits /\ bounds' = [bounds EXCEPT !.edits = @ + 1]

Trouble(what) ==
  /\ bounds.faults + bounds.records + bounds.crashes < MaxTroubles
  /\ bounds' = [bounds EXCEPT ![what] = @ + 1]

\* A call fails; a write that marks a release as deployed or superseded fails.
Fault      == Trouble("faults")
RecordLost == Trouble("records")

-----------------------------------------------------------------------------
(* Resources *)

Gone == [is |-> None, uid |-> 0, stray |-> FALSE]

\* The release's resources are those of man, owned by Reconcile's CR.
Resources(man) == [live EXCEPT !.is = man, !.uid = o.uid]

\* There are resources that a release in the storage does not know.
Strayed(l) == [l EXCEPT !.stray = TRUE]

\* What is left when the resources of a release are deleted: all of it, none, or
\* what the release does not know.
Half    == IF live.is = None THEN live ELSE [live EXCEPT !.is = Mixed]
Deleted == IF live.stray THEN Half ELSE Gone

-----------------------------------------------------------------------------
(* Users and the cluster *)

CreateCR(s) ==
  /\ ~cr.exists /\ cr.uid < MaxUid
  /\ Store([NoCR EXCEPT !.exists = TRUE, !.uid = cr.uid + 1, !.spec = s])
  /\ fresh' = FALSE
  /\ UNCHANGED <<cache, queued, pc, o, status, need, rel, cluster, bounds>>

EditCR(s) ==
  /\ cr.exists /\ s # cr.spec
  /\ Edited
  /\ Store([cr EXCEPT !.spec = s])
  /\ fresh' = FALSE
  /\ UNCHANGED <<cache, queued, pc, o, status, need, rel, cluster>>

\* A CR with a finalizer is only marked, one without is removed at once.
DeleteCR ==
  /\ cr.exists /\ ~cr.deleting
  /\ Store(IF cr.finalizer THEN [cr EXCEPT !.deleting = TRUE] ELSE Removed(cr))
  /\ fresh' = FALSE
  /\ UNCHANGED <<cache, queued, pc, o, status, need, rel, cluster, bounds>>

\* What a CR is edited to: something of its own, or what it is with other values.
Edits == Specs \cup (IF cr.exists THEN {[cr.spec EXCEPT !.chart = s.chart] : s \in Specs} ELSE {})

\* Somebody changes or deletes resources of the release: a dependent watch, if
\* there is one yet, puts the owner's key into the queue.
Drift ==
  /\ live.is \in Manifests
  /\ Edited
  /\ live' = [live EXCEPT !.is = Mixed]
  /\ queued' \in {queued, TRUE}
  /\ UNCHANGED <<server, cache, pc, local, hist, ns>>

\* The garbage collector removes resources whose owner is gone.
CollectGarbage ==
  /\ live.is # None /\ ~(cr.exists /\ cr.uid = live.uid)
  /\ live' = Gone
  /\ UNCHANGED <<server, cache, queued, pc, local, hist, ns, bounds>>

\* The cache learns of the next version, and the key is queued.
Deliver ==
  /\ watch # <<>>
  /\ cache' = Head(watch) /\ watch' = Tail(watch)
  /\ queued' = TRUE
  /\ UNCHANGED <<cr, pc, local, cluster, bounds>>

-----------------------------------------------------------------------------
(* Reconcile's control flow *)

Goto(label) == pc' = label

\* Reconcile returns; the key is queued again after an error or a period.
Return(requeue) ==
  /\ Goto("idle")
  /\ queued' = (queued \/ requeue)
  /\ o' = NoCR /\ fresh' = FALSE /\ status' = NoStatus /\ need' = "none" /\ rel' = None

\* Mutant: the error is not recorded.
ReturnErrorSilent(type, reason) ==
  Goto("failstatus") /\ UNCHANGED <<status, o, fresh, need, rel, queued>>

\* An error is recorded in the status before Reconcile returns it.
ReturnError(type, reason) ==
  /\ status' = SetCondition(status, type, reason)
  /\ Goto("failstatus")
  /\ UNCHANGED <<o, fresh, need, rel, queued>>

\* A worker takes the key and reads the CR from the cache.  Its labels are completed
\* and copied to its values and to the namespace; a failing patch is only logged.
Reconcile ==
  /\ pc = "idle" /\ queued
  /\ queued' = FALSE
  /\ IF cache.exists
     THEN LET spec == SetupIstioEnv(cache.spec) IN
          /\ o' = [cache EXCEPT !.spec = spec] /\ fresh' = (watch = <<>>)
          /\ \/ ns' = [istioEnv |-> spec.istioEnv, revision |-> spec.revision] /\ UNCHANGED bounds
             \/ Fault /\ UNCHANGED ns
          /\ Goto("manager")
     ELSE UNCHANGED <<o, fresh, ns, pc, bounds>>
  /\ UNCHANGED <<server, cache, status, need, rel, hist, live>>

\* Mutant: the finalizer is removed first.
NewManagerFinalizerFirst ==
  /\ pc = "manager" /\ ~(o.deleting /\ ~o.finalizer)
  /\ status' = SetCondition(o.status, "Initialized", "")
  /\ Goto(IF o.deleting THEN "delfinalizer" ELSE "sync")
  /\ UNCHANGED <<o, fresh, need, rel, queued>>
  /\ UNCHANGED <<server, cache, cluster, bounds>>

\* NewManager and StatusFor; then deletion or synchronisation.
NewManager ==
  /\ pc = "manager"
  /\ \/ /\ o.deleting /\ ~o.finalizer
        /\ Return(FALSE)
     \/ /\ o.deleting /\ o.finalizer
        /\ status' = o.status
        /\ Goto("uninstall")
        /\ UNCHANGED <<o, fresh, need, rel, queued>>
     \/ /\ ~o.deleting
        /\ status' = SetCondition(o.status, "Initialized", "")
        /\ Goto("sync")
        /\ UNCHANGED <<o, fresh, need, rel, queued>>
  /\ UNCHANGED <<server, cache, cluster, bounds>>

\* Mutant: the error is swallowed.
FailPlainSwallowed ==
  /\ pc \in {"manager", "addfinalizer", "status", "delstatus", "delfinalizer"}
  /\ Fault
  /\ Return(FALSE)
  /\ UNCHANGED <<server, cache, cluster>>

\* NewManager, a release hook, or an update of the CR fails: the error is only
\* returned.
FailPlain ==
  /\ pc \in {"manager", "addfinalizer", "status", "delstatus", "delfinalizer"}
  /\ Fault
  /\ Return(TRUE)
  /\ UNCHANGED <<server, cache, cluster>>

-----------------------------------------------------------------------------
(* Helm's storage *)

\* A record is deployed or not: pending, failed, superseded or uninstalling.
Created(man) == Append(hist, [deployed |-> FALSE, manifest |-> man])

Mark(h, i, deployed) == [h EXCEPT ![i].deployed = deployed]

Released == \E i \in DOMAIN hist : hist[i].deployed

\* The records that Sync deletes.
Stale == {i \in DOMAIN hist : ~hist[i].deployed}

\* A release that helm marks as not deployed; all of them.
Superseded(i) == Mark(hist, i, FALSE)
AllSuperseded == [i \in DOMAIN hist |-> [hist[i] EXCEPT !.deployed = FALSE]]

-----------------------------------------------------------------------------
(* Installing, updating, reconciling *)

\* Sync's cleanup deletes the records that are not deployed, version by version.
RemoveStale ==
  /\ pc = "sync"
  /\ \E i \in Stale : hist' = RemoveAt(hist, i)
  /\ UNCHANGED <<server, cache, queued, pc, local, live, ns, bounds>>

\* Sync loads a deployed release (helm does not say which, if there are several) and
\* compares it with what the spec asks for; the choice of what is to be done.
Sync ==
  /\ pc = "sync" /\ Stale = {}
  /\ rel' \in IF hist = <<>> THEN {None} ELSE {hist[i].manifest : i \in DOMAIN hist}
  /\ status' = RemoveCondition(status, "Irreconcilable")
  /\ need' = IF rel' = None THEN "install"
             ELSE IF rel' # Manifest(o.spec) THEN "update" ELSE "reconcile"
  /\ Goto(IF need' = "install" \/ o.finalizer THEN need' ELSE "addfinalizer")
  /\ UNCHANGED <<server, cache, queued, o, fresh, cluster, bounds>>

\* Reading or deleting records fails, before or after others were deleted, or the
\* candidate release cannot be rendered.
SyncFails ==
  /\ pc = "sync"
  /\ Fault
  /\ ReturnError("Irreconcilable", "ReconcileError")
  /\ UNCHANGED <<server, cache, cluster>>

\* The candidate release is refused: it has resources that exist and that the
\* deployed release does not know.
SyncRefused ==
  /\ pc = "sync" /\ Stale = {} /\ live.stray
  /\ \E i \in DOMAIN hist : hist[i].manifest # Manifest(o.spec)
  /\ ReturnError("Irreconcilable", "ReconcileError")
  /\ UNCHANGED <<server, cache, cluster, bounds>>

\* InstallRelease.  Helm refuses to install over resources that exist, and
\* returns no release then;
InstallRefused ==
  /\ pc = "install" /\ live.is # None
  /\ ReturnError("ReleaseFailed", "InstallError")
  /\ UNCHANGED <<server, cache, cluster, bounds>>

\* otherwise it records a pending release.
InstallRelease ==
  /\ pc = "install" /\ live.is \in {None, Mixed}
  /\ hist' = Created(Manifest(o.spec))
  /\ Goto("apply")
  /\ UNCHANGED <<server, cache, queued, local, live, ns, bounds>>

\* Mutant: the old release is superseded before the new one is applied.
UpdateReleaseSupersedes ==
  /\ pc = "update"
  /\ hist' = Append(AllSuperseded, [deployed |-> FALSE, manifest |-> Manifest(o.spec)])
  /\ Goto("apply")
  /\ UNCHANGED <<server, cache, queued, local, live, ns, bounds>>

\* UpdateRelease: helm records a pending release.
UpdateRelease ==
  /\ pc = "update"
  /\ hist' = Created(Manifest(o.spec))
  /\ Goto("apply")
  /\ UNCHANGED <<server, cache, queued, local, live, ns, bounds>>

\* Helm fails before it has recorded a release, or does not learn that it has.  Of
\* an installation it returns the release then, which the manager uninstalls.
ReleaseFailsEarly ==
  /\ pc \in {"install", "update"}
  /\ Fault
  /\ \/ /\ hist' \in {hist} \cup (IF pc = "update" THEN {Created(Manifest(o.spec))} ELSE {})
        /\ ReturnError("ReleaseFailed", IF pc = "install" THEN "InstallError" ELSE "UpdateError")
     \/ /\ pc = "install"
        /\ hist' = Created(Manifest(o.spec))
        /\ Goto("uninstallfailed")
        /\ UNCHANGED <<local, queued>>
  /\ UNCHANGED <<server, cache, live, ns>>

\* Helm applies the manifest of the last record to the cluster.
Apply ==
  LET man == hist[Len(hist)].manifest IN
  /\ pc = "apply" /\ man.chart \notin BadCharts
  /\ live' = Resources(man)
  /\ Goto(IF need = "install" THEN "promote" ELSE "supersede")
  /\ UNCHANGED <<server, cache, queued, local, hist, ns, bounds>>

\* The cluster refuses a part of it, or a call fails: the manager undoes the release.
\* When that was the undoing, helm marks the release before as superseded, and
\* resources of the update may be left.
ApplyFails ==
  /\ pc = "apply"
  /\ IF hist[Len(hist)].manifest.chart \in BadCharts THEN UNCHANGED bounds ELSE Fault
  /\ IF need = "undo"
     THEN /\ live' = Strayed(Resources(Mixed))
          /\ hist' \in {hist, Superseded(Len(hist) - 1)}
          /\ ReturnError("ReleaseFailed", "UpdateError")
     ELSE /\ live' = Resources(Mixed)
          /\ Goto(IF need = "install" THEN "uninstallfailed" ELSE "rollback")
          /\ UNCHANGED <<local, queued, hist>>
  /\ UNCHANGED <<server, cache, ns>>

\* The workaround for a failed installation: its resources are deleted,
UninstallFailed ==
  /\ pc = "uninstallfailed"
  /\ live' = Deleted
  /\ Goto("purgefailed")
  /\ UNCHANGED <<server, cache, queued, local, hist, ns, bounds>>

\* and its record.
PurgeFailed ==
  /\ pc = "purgefailed"
  /\ hist' = <<>>
  /\ ReturnError("ReleaseFailed", "InstallError")
  /\ UNCHANGED <<server, cache, live, ns, bounds>>

\* That fails as well.
UninstallFailedFails ==
  /\ pc \in {"uninstallfailed", "purgefailed"}
  /\ Fault
  /\ live' \in {live, Half}
  /\ hist' \in {hist, <<>>}
  /\ ReturnError("ReleaseFailed", "InstallError")
  /\ UNCHANGED <<server, cache, ns>>

\* The workaround for a failed update: a rollback to the release before.
Rollback ==
  /\ pc = "rollback"
  /\ hist' = Created(hist[Len(hist) - 1].manifest)
  /\ need' = "undo"
  /\ Goto("apply")
  /\ UNCHANGED <<server, cache, queued, o, fresh, status, rel, live, ns, bounds>>

\* It fails before it has recorded a release, or does not learn that it has.
RollbackFails ==
  /\ pc = "rollback"
  /\ Fault
  /\ hist' \in {hist, Created(hist[Len(hist) - 1].manifest)}
  /\ live' = Strayed(live)
  /\ ReturnError("ReleaseFailed", "UpdateError")
  /\ UNCHANGED <<server, cache, ns>>

\* The records of an update or a rollback: first the old release is superseded, or
\* whatever is deployed; a record that cannot be written is only logged.
SupersedeOld ==
  /\ pc = "supersede"
  /\ IF need = "update"
     THEN \E i \in DOMAIN hist : hist[i].deployed /\ hist[i].manifest = rel /\ hist' = Superseded(i)
     ELSE hist' = AllSuperseded
  /\ Goto("promote")
  /\ UNCHANGED <<server, cache, queued, local, live, ns, bounds>>

SupersedeFails ==
  /\ pc = "supersede"
  /\ \/ /\ RecordLost
        /\ \E kept \in SUBSET DOMAIN hist :
             hist' = [i \in DOMAIN hist |->
                        [hist[i] EXCEPT !.deployed = @ /\ (need = "update" \/ i \in kept)]]
        /\ Goto("promote")
        /\ UNCHANGED <<local, queued>>
     \/ /\ need = "undo" /\ Fault
        /\ ReturnError("ReleaseFailed", "UpdateError")
        /\ UNCHANGED hist
  /\ live' = Strayed(live)
  /\ UNCHANGED <<server, cache, ns>>

\* The release is there: the success path of Reconcile.
Succeed ==
  /\ status' = RemoveCondition(status, "ReleaseFailed")
  /\ Goto(IF need = "install" THEN "addfinalizer" ELSE "status")
  /\ UNCHANGED <<o, fresh, need, rel, queued>>

\* Mutant: the status is written before the finalizer.
PromoteStatusFirst ==
  /\ pc = "promote"
  /\ hist' = Mark(hist, Len(hist), TRUE)
  /\ IF need = "undo" THEN ReturnError("ReleaseFailed", "UpdateError")
     ELSE /\ status' = RemoveCondition(status, "ReleaseFailed")
          /\ Goto("status")
          /\ UNCHANGED <<o, fresh, need, rel, queued>>
  /\ UNCHANGED <<server, cache, live, ns, bounds>>

\* Then the new one is deployed.
Promote ==
  /\ pc = "promote"
  /\ hist' = Mark(hist, Len(hist), TRUE)
  /\ IF need = "undo" THEN ReturnError("ReleaseFailed", "UpdateError") ELSE Succeed
  /\ UNCHANGED <<server, cache, live, ns, bounds>>

\* That record cannot be written, or nobody learns that it was.  An installation
\* succeeds all the same, and an update is rolled back.
PromoteFails ==
  /\ pc = "promote"
  /\ RecordLost
  /\ hist' \in {hist, Mark(hist, Len(hist), TRUE)}
  /\ \/ need = "install" /\ Succeed /\ UNCHANGED live
     \/ need = "update" /\ Goto("rollback") /\ UNCHANGED <<local, queued, live>>
     \/ need = "undo" /\ ReturnError("ReleaseFailed", "UpdateError") /\ live' = Strayed(live)
  /\ UNCHANGED <<server, cache, ns>>

\* ReconcileRelease creates or patches the resources of the deployed release.
ReconcileRelease ==
  /\ pc = "reconcile"
  /\ live' = Resources(rel)
  /\ status' = RemoveCondition(RemoveCondition(status, "ReleaseFailed"), "Irreconcilable")
  /\ Goto("status")
  /\ UNCHANGED <<server, cache, queued, o, fresh, need, rel, hist, ns, bounds>>

\* It fails, possibly half way.
ReconcileReleaseFails ==
  /\ pc = "reconcile"
  /\ Fault
  /\ live' \in {live, Resources(Mixed)}
  /\ status' = SetCondition(RemoveCondition(status, "ReleaseFailed"), "Irreconcilable", "ReconcileError")
  /\ Goto("failstatus")
  /\ UNCHANGED <<server, cache, queued, o, fresh, need, rel, hist, ns>>

-----------------------------------------------------------------------------
(* Writing the CR *)

\* The server's answer to a write becomes Reconcile's copy.
Answered == o' = [cr' EXCEPT !.spec = RestoreIstioEnv(cr'.spec, o.spec.istioEnv)]

\* updateResource with the finalizer added, and with the labels and the revision as
\* they were completed.  A conflict is retried with the same old version, in vain.
AddFinalizer ==
  /\ pc = "addfinalizer"
  /\ IF Current
     THEN /\ Store([cr EXCEPT !.spec = WithoutIstioEnv(o.spec), !.finalizer = TRUE])
          /\ Answered
          /\ Goto(IF need = "install" THEN "status" ELSE need)
          /\ UNCHANGED <<fresh, status, need, rel, queued>>
     ELSE Return(TRUE) /\ UNCHANGED server
  /\ UNCHANGED <<cache, cluster, bounds>>

\* The status after an install, an update or a reconciliation.
FinalStatus ==
  LET s == CASE need = "install" -> SetCondition(status, "Deployed", "InstallSuccessful")
             [] need = "update"  -> SetCondition(status, "Deployed", "UpdateSuccessful")
             [] OTHER            -> status
  IN  [s EXCEPT !.release = IF need = "reconcile" THEN rel ELSE Manifest(o.spec)]

\* updateResourceStatus at the end of a successful Reconcile.
UpdateStatus ==
  /\ pc = "status"
  /\ IF Current THEN Store([cr EXCEPT !.status = FinalStatus]) ELSE UNCHANGED server
  /\ Return(TRUE)
  /\ UNCHANGED <<cache, cluster, bounds>>

\* updateResourceStatus on the way out with an error; its own error is dropped.
UpdateFailStatus ==
  /\ pc = "failstatus"
  /\ \/ /\ IF Current THEN Store([cr EXCEPT !.status = status]) ELSE UNCHANGED server
        /\ UNCHANGED bounds
     \/ Fault /\ UNCHANGED server
  /\ Return(TRUE)
  /\ UNCHANGED <<cache, cluster>>

-----------------------------------------------------------------------------
(* Deletion *)

\* The last record is marked as being uninstalled.
Uninstalling == IF hist = <<>> THEN hist ELSE Superseded(Len(hist))

\* UninstallRelease: without records there is nothing to uninstall.  Otherwise
\* helm marks the last record, or fails to and goes on, and deletes the resources,
UninstallRelease ==
  /\ pc = "uninstall"
  /\ IF hist = <<>>
     THEN /\ status' = RemoveCondition(status, "ReleaseFailed")
          /\ Goto("delstatus")
          /\ UNCHANGED <<hist, live>>
     ELSE /\ hist' \in {hist, Uninstalling}
          /\ live' = Deleted
          /\ Goto("purge")
          /\ UNCHANGED status
  /\ UNCHANGED <<server, cache, queued, o, fresh, need, rel, ns, bounds>>

\* and then deletes the records.
Purge ==
  /\ pc = "purge"
  /\ hist' = <<>>
  /\ status' = [SetCondition(RemoveCondition(status, "ReleaseFailed"), "Deployed", "UninstallSuccessful")
                  EXCEPT !.release = None]
  /\ Goto("delstatus")
  /\ UNCHANGED <<server, cache, queued, o, fresh, need, rel, live, ns, bounds>>

\* Reading the history, deleting the resources or deleting the records, the oldest
\* first, fails.
UninstallFails ==
  /\ pc \in {"uninstall", "purge"}
  /\ Fault
  /\ live' \in {live, Half}
  /\ \E k \in 0 .. Len(hist) :
       hist' \in {SubSeq(hist, k + 1, Len(hist))} \cup (IF k = 0 THEN {Uninstalling} ELSE {})
  /\ ReturnError("ReleaseFailed", "UninstallError")
  /\ UNCHANGED <<server, cache, ns>>

\* updateResourceStatus before the finalizer is removed.
UpdateDeletedStatus ==
  /\ pc = "delstatus"
  /\ IF Current
     THEN /\ Store([cr EXCEPT !.status = status])
          /\ Answered
          /\ Goto("delfinalizer")
          /\ UNCHANGED <<fresh, status, need, rel, queued>>
     ELSE Return(TRUE) /\ UNCHANGED server
  /\ UNCHANGED <<cache, cluster, bounds>>

\* updateResource without the finalizer: the API server removes the CR.
RemoveFinalizer ==
  /\ pc = "delfinalizer"
  /\ IF Current
     THEN /\ Store(Removed(cr))
          /\ Goto("wait")
          /\ fresh' = FALSE
          /\ UNCHANGED <<o, status, need, rel, queued>>
     ELSE Return(TRUE) /\ UNCHANGED server
  /\ UNCHANGED <<cache, cluster, bounds>>

\* waitForDeletion: until the cache has no such CR, or for five seconds.
WaitForDeletion ==
  /\ pc = "wait"
  /\ Return(cache.exists)
  /\ UNCHANGED <<server, cache, cluster, bounds>>

-----------------------------------------------------------------------------
\* What a crash leaves of the resources that are being written.
CutOff ==
  CASE pc = "apply" /\ need = "install"               -> {live, Resources(Mixed)}
    [] pc = "apply" /\ need = "update"                -> {live, Strayed(Resources(Mixed))}
    [] pc = "apply" /\ need = "undo"                  -> {Strayed(live), Strayed(Resources(Mixed))}
    [] pc \in {"rollback", "supersede"}               -> {Strayed(live)}
    [] pc = "promote" /\ need # "install"             -> {Strayed(live)}
    [] pc = "reconcile"                               -> {live, Resources(Mixed)}
    [] pc \in {"uninstall", "uninstallfailed"}        -> {live, Half}
    [] OTHER                                          -> {live}

\* The operator crashes, or UninstallRelease fails without a response and panics.
\* The new process starts with a fresh cache and every CR in its queue.
Crash ==
  /\ Trouble("crashes")
  /\ live' \in CutOff
  /\ Goto("idle")
  /\ o' = NoCR /\ fresh' = FALSE /\ status' = NoStatus /\ need' = "none" /\ rel' = None
  /\ cache' = cr /\ watch' = <<>> /\ queued' = cr.exists
  /\ UNCHANGED <<cr, hist, ns>>

Init ==
  /\ cr = NoCR /\ watch = <<>> /\ cache = NoCR /\ queued = FALSE
  /\ pc = "idle" /\ o = NoCR /\ fresh = FALSE /\ status = NoStatus /\ need = "none" /\ rel = None
  /\ hist = <<>> /\ live = Gone /\ ns = [istioEnv |-> "", revision |-> ""]
  /\ bounds = [edits |-> 0, faults |-> 0, records |-> 0, crashes |-> 0]

ReconcileStep ==
  \/ Reconcile \/ NewManager \/ RemoveStale \/ Sync \/ SyncRefused \/ InstallRefused
  \/ InstallRelease \/ UpdateRelease \/ Apply \/ ApplyFails \/ UninstallFailed \/ PurgeFailed
  \/ Rollback \/ SupersedeOld \/ Promote \/ ReconcileRelease \/ AddFinalizer \/ UpdateStatus
  \/ UpdateFailStatus \/ UninstallRelease \/ Purge \/ UpdateDeletedStatus \/ RemoveFinalizer
  \/ WaitForDeletion

FaultStep ==
  \/ FailPlain \/ SyncFails \/ ReleaseFailsEarly \/ UninstallFailedFails \/ RollbackFails
  \/ SupersedeFails \/ PromoteFails \/ ReconcileReleaseFails \/ UninstallFails \/ Crash

UserStep ==
  (\E s \in Specs : CreateCR(s)) \/ (\E s \in Edits : EditCR(s)) \/ DeleteCR \/ Drift

Next == ReconcileStep \/ FaultStep \/ UserStep \/ Deliver \/ CollectGarbage

Spec == Init /\ [][Next]_vars

\* Workers run, the watch delivers and garbage is collected; users may stop.
FairSpec == Spec /\ WF_vars(ReconcileStep) /\ WF_vars(Deliver) /\ WF_vars(CollectGarbage)

-----------------------------------------------------------------------------
(* Properties *)

Labels == {"idle", "manager", "sync", "install", "update", "apply", "uninstallfailed",
           "purgefailed", "rollback", "supersede", "promote", "reconcile", "addfinalizer",
           "status", "failstatus", "uninstall", "purge", "delstatus", "delfinalizer", "wait"}

Needs == {"none", "install", "update", "undo", "reconcile"}

\* What a status may name as its release.
Reported == Manifests \cup {None}

Statuses ==
  [conditions : [ConditionTypes -> Reasons \cup {"none"}], string : SUBSET ErrorReasons,
   release : Reported]

CRs ==
  [exists : BOOLEAN, uid : 0 .. MaxUid, spec : Contents \cup {None},
   finalizer : BOOLEAN, deleting : BOOLEAN, status : Statuses]

Records == [deployed : BOOLEAN, manifest : Manifests]

Lives == [is : Manifests \cup {None, Mixed}, uid : 0 .. MaxUid, stray : BOOLEAN]

Bounds ==
  [edits : 0 .. MaxEdits, faults : 0 .. MaxTroubles, records : 0 .. MaxTroubles,
   crashes : 0 .. MaxTroubles]

\* The variables have their types; in particular every record in helm's storage has a
\* manifest, rendered from complete values.
TypeOK ==
  /\ cr \in CRs /\ cache \in CRs /\ o \in CRs /\ fresh \in BOOLEAN
  /\ watch \in Seq(CRs) /\ queued \in BOOLEAN
  /\ pc \in Labels /\ status \in Statuses /\ need \in Needs /\ rel \in Reported
  /\ hist \in Seq(Records) /\ live \in Lives /\ ns \in NamespaceLabels
  /\ bounds \in Bounds

\* The operator writes the whole CR, from a copy that may be old and that it has
\* changed: what the user asked for is never undone.  It only completes the labels and
\* the revision and takes the environment out of the values, and what is to be
\* released stays the same.
NoLostEdit ==
  [][cr.exists /\ cr'.exists /\ cr'.uid = cr.uid /\ cr'.spec # cr.spec
       => \/ \E s \in Edits : EditCR(s)
          \/ /\ cr'.spec = WithoutIstioEnv(SetupIstioEnv(cr.spec))
             /\ Manifest(cr'.spec) = Manifest(cr.spec)]_vars

\* The finalizer's promise: a CR that has it disappears only when its release is
\* gone from helm's storage, whatever crashed or failed on the way.  (Resources that
\* could not be deleted have an owner that is gone: they are garbage.)
FinalizerHonoured == [][cr.finalizer /\ ~cr'.exists => hist = <<>>]_vars

\* A CR whose status names a release has the finalizer: who sees the release can
\* rely on its being uninstalled with the CR.
ReportedIsGuarded == cr.exists /\ cr.status.release # None => cr.finalizer

\* The operator applies its finalizer only when a release is deployed, and as long
\* as nobody deletes the CR the release stays deployed through failing updates and
\* rollbacks, whatever call fails but those that record that a release is deployed
\* or superseded.  (When such a record is lost, or the operator crashes between
\* two of them, nothing may be deployed.)
FinalizerOnlyWhenDeployed ==
  cr.exists /\ cr.finalizer /\ ~cr.deleting /\ bounds.crashes = 0 /\ bounds.records = 0
    => Released \/ pc = "promote"

\* Is the CR there to stay, with values that the cluster accepts?
Wanted   == cr.exists /\ ~cr.deleting
Accepted == Wanted /\ cr.spec.chart \notin BadCharts

Deployed(man) == \E i \in DOMAIN hist : hist[i].deployed /\ hist[i].manifest = man

\* The release, its resources, its namespace and the CR's status are what the spec
\* asks for.
Converged ==
  LET man == Manifest(cr.spec) IN
  /\ Deployed(man)
  /\ live.is = man /\ live.uid = cr.uid
  /\ ns = [istioEnv |-> man.istioEnv, revision |-> man.revision]
  /\ cr.finalizer
  /\ cr.status.release = man /\ cr.status.string = {}

\* Resources of the CR that no release, or not every release, knows of.  Helm does
\* not install or update over them.
Obstructed == live.is # None /\ live.uid = cr.uid /\ (~Released \/ live.stray)

\* When edits, faults and crashes are over, the operator brings about what the spec
\* asks for and reports it, unless a release was cut off half way; the stale
\* summary of the status is refreshed as well.
Converges == <>[](Accepted => Converged \/ Obstructed)

\* A spec that the cluster refuses ends in a status that says so.
RefusalReported ==
  <>[](Wanted /\ cr.spec.chart \in BadCharts =>
         /\ \/ cr.status.conditions["ReleaseFailed"] \in ErrorReasons
            \/ cr.status.conditions["Irreconcilable"] \in ErrorReasons
         /\ cr.status.string # {})

\* A deleted CR goes away: no conflict, failure or stale read keeps its finalizer.
DeletionEnds ==
  \A u \in 1 .. MaxUid :
    (cr.exists /\ cr.deleting /\ cr.uid = u) ~> (~cr.exists \/ cr.uid # u)

\* Failed installations are correctly retried: a spec that can be installed is
\* installed in the end.
InstallRetried == <>[](Accepted => Deployed(Manifest(cr.spec)))

\* To uninstall the release, simply delete the CR.
DeleteUninstalls == <>[](~cr.exists => hist = <<>>)
=============================================================================
