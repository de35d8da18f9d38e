------------------------- MODULE HelmReconcilerProofs -------------------------
(***************************************************************************)
(* Proofs about HelmReconciler, for any specs and bounds.                  *)
(*                                                                         *)
(* The last version on its way to the cache is the server's.  So a copy    *)
(* that Reconcile took when nothing was on its way, and that nobody has    *)
(* overtaken since, is what the server has but for the Istio environment,  *)
(* and a write that the server accepts keeps the user's spec and the       *)
(* finalizer it was made under.                                            *)
(*                                                                         *)
(* Each step of Reconcile knows something of helm's storage.  The cache    *)
(* sees CRs of one name one after the other, so that once the server's CR  *)
(* has a finalizer no step works on a copy of an earlier, deleted one any  *)
(* more.                                                                   *)
(***************************************************************************)
EXTENDS HelmReconciler, SequenceTheorems, TLAPS

\* The versions of a CR: one whose status names a release has the finalizer.
Versions ==
  {c \in CRs : /\ c.status.release # None => c.finalizer
               /\ c.finalizer => c.exists
               /\ c.exists => c.spec \in Contents}

\* The cache lags behind the server by the versions of the watch.
ServerInv ==
  /\ cr \in Versions /\ cache \in Versions /\ watch \in Seq(Versions)
  /\ IF watch = <<>> THEN cache = cr ELSE watch[Len(watch)] = cr

\* Reconcile's copy is the server's CR, but for what its labels say of its values.
Based ==
  /\ o = [cr EXCEPT !.spec = o.spec]
  /\ cr.exists => SetupIstioEnv(o.spec) = SetupIstioEnv(cr.spec)

\* The labels and the revision of Reconcile's copy are complete until it is deleted.
Completed ==
  pc \notin {"idle", "delfinalizer", "wait"}
    => WithoutIstioEnv(o.spec) = WithoutIstioEnv(SetupIstioEnv(o.spec))

\* Where Reconcile has a CR, and has seen that it is being deleted.
Path ==
  /\ pc # "idle" => o.exists
  /\ pc \in {"uninstall", "purge", "delstatus", "delfinalizer"} => o.deleting

CopyInv ==
  /\ ServerInv
  /\ o \in Versions /\ fresh \in BOOLEAN
  /\ fresh => Based
  /\ Completed /\ Path

\* Where Reconcile is after the finalizer was seen or added.
LocalInv ==
  /\ status \in Statuses /\ pc \in Labels /\ need \in Needs /\ rel \in Reported
  /\ status.release # None => o.finalizer
  /\ pc \in {"idle", "manager"} => status.release = None
  /\ pc \in {"status", "update", "reconcile", "rollback"} => o.finalizer
  /\ pc \in {"apply", "supersede", "promote"} /\ need # "install" => o.finalizer
  /\ pc = "install" => need = "install"
  /\ pc = "update" => need = "update"
  /\ pc \in {"rollback", "supersede"} => need # "install"
  /\ pc = "addfinalizer" => need \in {"install", "update", "reconcile"}

-----------------------------------------------------------------------------
(* The status *)

\* An empty status is a status without a release.
LEMMA EmptyStatusType == NoStatus \in Statuses /\ NoStatus.release = None
  BY DEF NoStatus, EmptyStatus, Statuses, Reported, ConditionTypes, Reasons, ErrorReasons

\* updateStatusString keeps the release.
LEMMA UpdateStatusStringType ==
  ASSUME NEW s \in Statuses
  PROVE  UpdateStatusString(s) \in Statuses /\ UpdateStatusString(s).release = s.release
  BY DEF UpdateStatusString, Statuses

\* SetCondition keeps the release.
LEMMA SetConditionType ==
  ASSUME NEW s \in Statuses, NEW type \in ConditionTypes, NEW reason \in Reasons
  PROVE  /\ SetCondition(s, type, reason) \in Statuses
         /\ SetCondition(s, type, reason).release = s.release
<1> DEFINE t == [s EXCEPT !.conditions[type] = reason]
<1>1. t \in Statuses /\ t.release = s.release
  BY DEF Statuses
<1>2. UpdateStatusString(t) \in Statuses /\ UpdateStatusString(t).release = t.release
  BY <1>1, UpdateStatusStringType
<1>3. SetCondition(s, type, reason) \in {t, UpdateStatusString(t)}
  BY DEF SetCondition
<1> QED BY <1>1, <1>2, <1>3

\* RemoveCondition keeps the release.
LEMMA RemoveConditionType ==
  ASSUME NEW s \in Statuses, NEW type \in ConditionTypes
  PROVE  /\ RemoveCondition(s, type) \in Statuses
         /\ RemoveCondition(s, type).release = s.release
<1> DEFINE t == [s EXCEPT !.conditions[type] = "none"]
<1>1. t \in Statuses /\ t.release = s.release
  BY DEF Statuses
<1>2. UpdateStatusString(s) \in Statuses /\ UpdateStatusString(s).release = s.release
  BY UpdateStatusStringType
<1>3. RemoveCondition(s, type) \in {t, UpdateStatusString(s)}
  BY DEF RemoveCondition
<1> QED BY <1>1, <1>2, <1>3

\* The conditions and reasons that Reconcile sets.
LEMMA ConditionNames ==
  /\ "Initialized" \in ConditionTypes /\ "Deployed" \in ConditionTypes
  /\ "ReleaseFailed" \in ConditionTypes /\ "Irreconcilable" \in ConditionTypes
  /\ "" \in Reasons /\ "InstallError" \in Reasons /\ "UpdateError" \in Reasons
  /\ "UninstallError" \in Reasons /\ "ReconcileError" \in Reasons
  /\ "InstallSuccessful" \in Reasons /\ "UpdateSuccessful" \in Reasons
  /\ "UninstallSuccessful" \in Reasons
  BY DEF ConditionTypes, Reasons, ErrorReasons

-----------------------------------------------------------------------------
(* The Istio environment *)

\* The environment and the revision that a CR's labels ask for.
Revision(c)    == Text(c.revLabel)
Environment(c) == IF Revision(c) # "" THEN "" ELSE Text(c.envLabel)

\* A field as text is a text, and a text is itself.
LEMMA TextType == \A f \in Fields : Text(f) \in Texts /\ (f \in Texts => Text(f) = f)
  BY IstioAssumption DEF Text, Fields, Texts

\* What setupNamespaceAndIstioEnv makes of a CR's spec and labels.
LEMMA SetupIs ==
  ASSUME NEW c \in Contents
  PROVE  /\ Revision(c) \in Texts /\ Environment(c) \in Texts
         /\ SetupIstioEnv(c) =
              [chart |-> c.chart, istioEnv |-> Environment(c), revision |-> Revision(c),
               envLabel |-> Environment(c), revLabel |-> Revision(c)]
         /\ SetupIstioEnv(c) \in Contents
<1>1. Revision(c) \in Texts /\ Environment(c) \in Texts /\ Texts \subseteq Fields
  BY TextType DEF Revision, Environment, Contents, Texts, Fields
<1>2. SetupIstioEnv(c) =
        [c EXCEPT !.istioEnv = Environment(c), !.envLabel = Environment(c),
                  !.revision = Revision(c), !.revLabel = Revision(c)]
  BY DEF SetupIstioEnv, Revision, Environment
<1> QED BY <1>1, <1>2 DEF Contents

\* What is written to the server.
LEMMA WithoutIs ==
  ASSUME NEW c \in Contents
  PROVE  /\ WithoutIstioEnv(c) =
              [chart |-> c.chart, istioEnv |-> Absent, revision |-> c.revision,
               envLabel |-> c.envLabel, revLabel |-> c.revLabel]
         /\ WithoutIstioEnv(c) \in Contents
  BY DEF WithoutIstioEnv, Contents, Fields

\* The environment among the values does not matter to what the labels ask for.
LEMMA SameLabels ==
  ASSUME NEW c \in Contents, NEW d \in Contents,
         d.chart = c.chart, d.envLabel = c.envLabel, d.revLabel = c.revLabel
  PROVE  SetupIstioEnv(d) = SetupIstioEnv(c)
  BY SetupIs DEF Revision, Environment

\* Completed labels and values ask for what they were completed from.
LEMMA SetupTwice ==
  ASSUME NEW c \in Contents
  PROVE  /\ SetupIstioEnv(SetupIstioEnv(c)) = SetupIstioEnv(c)
         /\ SetupIstioEnv(WithoutIstioEnv(c)) = SetupIstioEnv(c)
<1> DEFINE s == SetupIstioEnv(c)
<1>1. /\ s = [chart |-> c.chart, istioEnv |-> Environment(c), revision |-> Revision(c),
              envLabel |-> Environment(c), revLabel |-> Revision(c)]
      /\ s \in Contents /\ Revision(c) \in Texts /\ Environment(c) \in Texts
  BY SetupIs
<1>2. Texts \subseteq Fields
  BY DEF Texts, Fields
<1>3. Revision(s) = Revision(c)
  BY <1>1, <1>2, TextType DEF Revision
<1>4. Environment(s) = Environment(c)
  <2>1. Text(s.envLabel) = Environment(c)
    BY <1>1, <1>2, TextType
  <2>2. Revision(c) # "" => Environment(c) = ""
    BY DEF Environment
  <2> QED BY <1>3, <2>1, <2>2 DEF Environment
<1>5. SetupIstioEnv(s) = s
  BY <1>1, <1>3, <1>4, SetupIs
<1>6. SetupIstioEnv(WithoutIstioEnv(c)) = SetupIstioEnv(c)
  BY WithoutIs, SameLabels
<1> QED BY <1>5, <1>6

\* The manifest of a release, and the labels of its namespace.
LEMMA ManifestType ==
  ASSUME NEW c \in Contents
  PROVE  /\ Manifest(c) \in Manifests /\ Manifest(c) \in Reported /\ Manifest(c) # None
         /\ [istioEnv |-> SetupIstioEnv(c).istioEnv, revision |-> SetupIstioEnv(c).revision]
              \in NamespaceLabels
<1>1. Manifest(c) = [chart |-> c.chart, istioEnv |-> Environment(c), revision |-> Revision(c)]
  BY SetupIs DEF Manifest
<1>2. c.chart \in Charts /\ Revision(c) \in Texts /\ Environment(c) \in Texts
  BY SetupIs DEF Contents
<1>3. Manifest(c) \in Manifests
  BY <1>1, <1>2 DEF Manifests
<1>4. SetupIstioEnv(c).istioEnv = Environment(c) /\ SetupIstioEnv(c).revision = Revision(c)
  BY SetupIs
<1> QED BY <1>2, <1>3, <1>4, HelmAssumption DEF Reported, NamespaceLabels

\* What is written asks for the same release.
LEMMA WrittenManifest ==
  ASSUME NEW c \in Contents
  PROVE  Manifest(WithoutIstioEnv(SetupIstioEnv(c))) = Manifest(c)
  BY SetupIs, SetupTwice DEF Manifest

\* The server's answer with the environment put back.
LEMMA Restored ==
  ASSUME NEW c \in Contents, NEW e \in Fields
  PROVE  /\ RestoreIstioEnv(c, e) \in Contents
         /\ SetupIstioEnv(RestoreIstioEnv(c, e)) = SetupIstioEnv(c)
         /\ WithoutIstioEnv(RestoreIstioEnv(c, e)) = WithoutIstioEnv(c)
<1> DEFINE d == [c EXCEPT !.istioEnv = e]
<1>1. /\ d \in Contents /\ d.chart = c.chart /\ d.revision = c.revision
      /\ d.envLabel = c.envLabel /\ d.revLabel = c.revLabel
  BY DEF Contents
<1>2. SetupIstioEnv(d) = SetupIstioEnv(c)
  BY <1>1, SameLabels
<1>3. WithoutIstioEnv(d) = WithoutIstioEnv(c)
  BY <1>1, WithoutIs
<1>4. RestoreIstioEnv(c, e) \in {c, d}
  BY DEF RestoreIstioEnv
<1> QED BY <1>1, <1>2, <1>3, <1>4

-----------------------------------------------------------------------------
(* The server *)

\* What a version of a CR is made of.
LEMMA VersionType ==
  ASSUME NEW x \in Versions
  PROVE  /\ x \in CRs /\ x.uid \in Nat /\ x.uid \in 0 .. MaxUid
         /\ x.exists \in BOOLEAN /\ x.deleting \in BOOLEAN /\ x.finalizer \in BOOLEAN
         /\ x.status \in Statuses /\ (x.status.release # None => x.finalizer)
         /\ x.finalizer => x.exists
         /\ x.exists => x.spec \in Contents
  BY HelmAssumption DEF Versions, CRs

\* There is no CR, and there never was.
LEMMA NoCRType ==
  /\ NoCR \in Versions /\ NoCR.uid = 0 /\ ~NoCR.exists /\ ~NoCR.finalizer /\ ~NoCR.deleting
  /\ NoCR.status = NoStatus
  BY EmptyStatusType, HelmAssumption DEF NoCR, Versions, CRs

\* A CR with another status.
LEMMA WithStatus ==
  ASSUME NEW c \in Versions, NEW st \in Statuses, st.release # None => c.finalizer
  PROVE  /\ [c EXCEPT !.status = st] \in Versions
         /\ [c EXCEPT !.status = st].exists = c.exists
         /\ [c EXCEPT !.status = st].uid = c.uid
         /\ [c EXCEPT !.status = st].spec = c.spec
         /\ [c EXCEPT !.status = st].finalizer = c.finalizer
         /\ [c EXCEPT !.status = st].deleting = c.deleting
  BY DEF Versions, CRs

\* Versions that writes make of a version.
LEMMA VersionsMade ==
  ASSUME NEW c \in Versions
  PROVE  /\ \A st \in Statuses :
              (st.release # None => c.finalizer) =>
                /\ [c EXCEPT !.status = st] \in Versions
                /\ [c EXCEPT !.status = st].exists = c.exists
                /\ [c EXCEPT !.status = st].uid = c.uid
                /\ [c EXCEPT !.status = st].spec = c.spec
                /\ [c EXCEPT !.status = st].finalizer = c.finalizer
                /\ [c EXCEPT !.status = st].deleting = c.deleting
         /\ \A s \in Contents : [c EXCEPT !.spec = s] \in Versions
         /\ c.exists => \A s \in Contents : [c EXCEPT !.spec = s, !.finalizer = TRUE] \in Versions
         /\ [c EXCEPT !.deleting = TRUE] \in Versions
         /\ Removed(c) \in Versions /\ ~Removed(c).exists /\ ~Removed(c).finalizer
         /\ Removed(c).uid = c.uid
<1>1. ASSUME NEW st \in Statuses, st.release # None => c.finalizer
      PROVE  /\ [c EXCEPT !.status = st] \in Versions
             /\ [c EXCEPT !.status = st].exists = c.exists
             /\ [c EXCEPT !.status = st].uid = c.uid
             /\ [c EXCEPT !.status = st].spec = c.spec
             /\ [c EXCEPT !.status = st].finalizer = c.finalizer
             /\ [c EXCEPT !.status = st].deleting = c.deleting
  BY <1>1, WithStatus
<1>2. /\ \A s \in Contents : [c EXCEPT !.spec = s] \in Versions
      /\ [c EXCEPT !.deleting = TRUE] \in Versions
  BY DEF Versions, CRs
<1>3. ASSUME c.exists, NEW s \in Contents PROVE [c EXCEPT !.spec = s, !.finalizer = TRUE] \in Versions
  BY <1>3 DEF Versions, CRs
<1>4. /\ Removed(c) \in Versions /\ ~Removed(c).exists /\ ~Removed(c).finalizer
      /\ Removed(c).uid = c.uid
  <2>1. NoCR \in Versions /\ c.uid \in 0 .. MaxUid
    BY NoCRType, VersionType
  <2>2. Removed(c) = [NoCR EXCEPT !.uid = c.uid]
    BY DEF Removed
  <2> QED BY <2>1, <2>2, NoCRType DEF Versions, CRs
<1> QED BY <1>1, <1>2, <1>3, <1>4

\* The server stores a version and announces it.
LEMMA Storing ==
  ASSUME ServerInv, NEW c \in Versions, Store(c), cache' = cache
  PROVE  /\ ServerInv' /\ cr' = c
         /\ (UNCHANGED server) \/ watch' = Append(watch, cr')
<1>1. CASE c = cr
  BY <1>1 DEF Store, ServerInv, server
<1>2. CASE c # cr
  <2>1. cr' = c /\ watch' = Append(watch, c)
    BY <1>2 DEF Store
  <2>2. /\ watch' \in Seq(Versions) /\ Len(watch') = Len(watch) + 1
        /\ watch'[Len(watch) + 1] = c /\ Len(watch) \in Nat
    BY <2>1, AppendProperties, LenProperties DEF ServerInv
  <2>3. watch' # <<>>
    BY <2>2, EmptySeq
  <2> QED BY <2>1, <2>2, <2>3 DEF ServerInv
<1> QED BY <1>1, <1>2

\* The cache learns of the next version.
LEMMA Delivering == ASSUME ServerInv, Deliver PROVE ServerInv'
<1>1. /\ watch \in Seq(Versions) /\ watch # <<>> /\ cr' = cr
      /\ cache' = Head(watch) /\ watch' = Tail(watch)
  BY DEF Deliver, ServerInv
<1>2. /\ Head(watch) = watch[1] /\ Tail(watch) \in Seq(Versions)
      /\ Len(watch) \in Nat \ {0} /\ Len(Tail(watch)) = Len(watch) - 1
      /\ \A i \in 1 .. Len(Tail(watch)) : Tail(watch)[i] = watch[i + 1]
      /\ watch[1] \in Versions
  BY <1>1, HeadTailProperties, EmptySeq, LenProperties, ElementOfSeq
<1>3. CASE Len(watch) = 1
  <2>1. Len(Tail(watch)) = 0
    BY <1>2, <1>3
  <2>2. Tail(watch) = <<>>
    BY <1>2, <2>1, EmptySeq
  <2> QED BY <2>2, <1>1, <1>2, <1>3 DEF ServerInv
<1>4. CASE Len(watch) # 1
  <2>0. Len(Tail(watch)) \in 1 .. Len(Tail(watch))
    BY <1>2, <1>4
  <2>a. Tail(watch) = <<>> => Len(Tail(watch)) = 0
    BY EmptySeq
  <2>b. Len(Tail(watch)) # 0
    BY <1>2, <1>4
  <2>1. Tail(watch) # <<>>
    BY <2>a, <2>b
  <2> QED BY <2>0, <2>1, <1>1, <1>2 DEF ServerInv
<1> QED BY <1>3, <1>4

\* A write that the server accepts starts from what the server has.
LEMMA CurrentIsServer ==
  ASSUME CopyInv, Current
  PROVE  /\ cr.exists /\ o.exists /\ o.uid = cr.uid /\ o.finalizer = cr.finalizer
         /\ o.deleting = cr.deleting /\ o.spec \in Contents /\ cr.spec \in Contents
         /\ SetupIstioEnv(o.spec) = SetupIstioEnv(cr.spec)
<1>1. Based /\ cr.exists /\ cr \in Versions /\ o \in Versions
  BY DEF CopyInv, Current, ServerInv
<1>2. /\ o.exists = cr.exists /\ o.uid = cr.uid /\ o.finalizer = cr.finalizer
      /\ o.deleting = cr.deleting
  <2>1. o = [cr EXCEPT !.spec = o.spec] /\ cr \in CRs
    BY <1>1, VersionType DEF Based
  <2> HIDE <1>1
  <2>2. PICK s : s = o.spec
    OBVIOUS
  <2>3. o = [cr EXCEPT !.spec = s]
    BY <2>1, <2>2
  <2> QED BY <2>1, <2>3 DEF CRs
<1> QED BY <1>1, <1>2, VersionType DEF Based

\* The invariant of the copies, where the server does not change.
LEMMA SameServer ==
  ASSUME CopyInv, UNCHANGED <<server, cache>>, Path',
         \/ o' = NoCR /\ fresh' = FALSE /\ pc' = "idle"
         \/ /\ UNCHANGED <<o, fresh>>
            /\ pc' \in {"idle", "delfinalizer", "wait"} \/ pc \notin {"idle", "delfinalizer", "wait"}
  PROVE  CopyInv'
<1>1. ServerInv'
  BY DEF CopyInv, ServerInv, server
<1>2. CASE o' = NoCR /\ fresh' = FALSE /\ pc' = "idle"
  BY <1>1, <1>2, NoCRType DEF CopyInv, Completed
<1>3. CASE /\ UNCHANGED <<o, fresh>>
           /\ pc' \in {"idle", "delfinalizer", "wait"} \/ pc \notin {"idle", "delfinalizer", "wait"}
  <2>1. Completed'
    BY <1>3 DEF CopyInv, Completed
  <2>2. Based => Based'
    BY <1>3 DEF Based, server
  <2> QED BY <1>1, <1>3, <2>1, <2>2 DEF CopyInv
<1> QED BY <1>2, <1>3

\* The invariant of the copies, where the server's CR may change.
LEMMA StaleCopy ==
  ASSUME CopyInv, ServerInv', Path',
         \/ o' = NoCR /\ fresh' = FALSE /\ pc' = "idle"
         \/ /\ o' = o /\ fresh' = FALSE
            /\ pc' = pc \/ pc' \in {"idle", "delfinalizer", "wait"}
  PROVE  CopyInv'
  BY NoCRType DEF CopyInv, Completed

-----------------------------------------------------------------------------
(* Reconcile's own state *)

\* The actions that leave the server and the cache alone, and Reconcile's copy.
Internal ==
  \/ NewManager \/ FailPlain \/ RemoveStale \/ Sync \/ SyncFails \/ SyncRefused
  \/ InstallRefused \/ InstallRelease \/ UpdateRelease \/ ReleaseFailsEarly \/ Apply
  \/ ApplyFails \/ UninstallFailed \/ PurgeFailed \/ UninstallFailedFails \/ Rollback
  \/ RollbackFails \/ SupersedeOld \/ SupersedeFails \/ Promote \/ PromoteFails
  \/ ReconcileRelease \/ ReconcileReleaseFails \/ UninstallRelease \/ Purge
  \/ UninstallFails \/ WaitForDeletion

\* What they do to the control of Reconcile.
Calm ==
  /\ UNCHANGED <<server, cache>>
  /\ \/ o' = NoCR /\ fresh' = FALSE /\ pc' = "idle"
     \/ /\ UNCHANGED <<o, fresh>> /\ pc # "idle" /\ pc' # "idle"
        /\ pc' = "wait" \/ pc \notin {"delfinalizer", "wait"}

\* Return forgets everything.
LEMMA ReturnStep ==
  ASSUME NEW b, Return(b)
  PROVE  LocalInv' /\ Path' /\ o' = NoCR /\ fresh' = FALSE /\ pc' = "idle"
  BY EmptyStatusType DEF LocalInv, Path, Return, Goto, Labels, Needs, Reported

\* An error keeps the release that the status reports.
LEMMA ReturnErrorStep ==
  ASSUME CopyInv, LocalInv, NEW type \in ConditionTypes, NEW reason \in Reasons,
         ReturnError(type, reason), pc # "idle"
  PROVE  LocalInv' /\ Path' /\ UNCHANGED <<o, fresh>> /\ pc' = "failstatus"
<1>1. status' \in Statuses /\ status'.release = status.release
  BY SetConditionType DEF ReturnError, LocalInv
<1> QED BY <1>1 DEF LocalInv, CopyInv, Path, ReturnError, Goto, Labels

\* The success path keeps it as well.
LEMMA SucceedStep ==
  ASSUME CopyInv, LocalInv, Succeed, pc = "promote"
  PROVE  LocalInv' /\ Path' /\ UNCHANGED <<o, fresh>> /\ pc' \in {"addfinalizer", "status"}
<1>1. status' \in Statuses /\ status'.release = status.release
  BY ConditionNames, RemoveConditionType DEF Succeed, LocalInv
<1> QED BY <1>1 DEF LocalInv, CopyInv, Path, Succeed, Goto, Labels

\* Another step with the same copy, and a status with the same release.
LEMMA GotoStep ==
  ASSUME CopyInv, LocalInv, UNCHANGED <<server, cache, o, fresh>>,
         status' \in Statuses, status'.release = status.release, need' = need, rel' = rel,
         \/ pc = "install" /\ pc' \in {"apply", "uninstallfailed"}
         \/ pc = "update" /\ pc' = "apply"
         \/ pc = "apply" /\ need = "install" /\ pc' \in {"promote", "uninstallfailed"}
         \/ pc = "apply" /\ need # "install" /\ pc' \in {"supersede", "rollback"}
         \/ pc = "uninstallfailed" /\ pc' = "purgefailed"
         \/ pc = "supersede" /\ need # "install" /\ pc' = "promote"
         \/ pc = "promote" /\ need # "install" /\ pc' = "rollback"
         \/ pc = "reconcile" /\ pc' \in {"status", "failstatus"}
         \/ pc = "sync" /\ pc' = "sync"
         \/ pc = "uninstall" /\ pc' \in {"purge", "delstatus"}
  PROVE  LocalInv' /\ Path' /\ Calm
  BY DEF LocalInv, CopyInv, Path, Calm, Labels

\* They keep the invariant of Reconcile's variables.
LEMMA InternalKeeps ==
  ASSUME CopyInv, LocalInv, hist \in Seq(Records), Internal
  PROVE  LocalInv' /\ Path' /\ Calm
<1> USE DEF local, Goto
<1>t. /\ status \in Statuses /\ o.status \in Statuses
      /\ o.status.release # None => o.finalizer
      /\ pc = "supersede" => need # "install"
  BY VersionType DEF CopyInv, LocalInv, Path
<1>r. ASSUME NEW b, Return(b), UNCHANGED <<server, cache>> PROVE LocalInv' /\ Path' /\ Calm
  BY <1>r, ReturnStep DEF Calm
<1>e. ASSUME NEW type \in ConditionTypes, NEW reason \in Reasons, ReturnError(type, reason),
             UNCHANGED <<server, cache>>, pc \notin {"idle", "delfinalizer", "wait"}
      PROVE  LocalInv' /\ Path' /\ Calm
  BY <1>e, ReturnErrorStep DEF Calm
<1>g. ASSUME UNCHANGED <<server, cache, o, fresh>>,
         status' \in Statuses, status'.release = status.release, need' = need, rel' = rel,
         \/ pc = "install" /\ pc' \in {"apply", "uninstallfailed"}
         \/ pc = "update" /\ pc' = "apply"
         \/ pc = "apply" /\ need = "install" /\ pc' \in {"promote", "uninstallfailed"}
         \/ pc = "apply" /\ need # "install" /\ pc' \in {"supersede", "rollback"}
         \/ pc = "uninstallfailed" /\ pc' = "purgefailed"
         \/ pc = "supersede" /\ need # "install" /\ pc' = "promote"
         \/ pc = "promote" /\ need # "install" /\ pc' = "rollback"
         \/ pc = "reconcile" /\ pc' \in {"status", "failstatus"}
         \/ pc = "sync" /\ pc' = "sync"
         \/ pc = "uninstall" /\ pc' \in {"purge", "delstatus"}
      PROVE LocalInv' /\ Path' /\ Calm
  BY <1>g, GotoStep
<1>1. CASE NewManager
  <2>1. CASE Return(FALSE)
    BY <2>1, <1>1, <1>r DEF NewManager
  <2>2. CASE o.deleting /\ status' = o.status /\ pc' = "uninstall" /\ UNCHANGED <<o, fresh, need, rel, queued>>
    BY <2>2, <1>1, <1>t DEF NewManager, LocalInv, CopyInv, Path, Calm, Labels
  <2>3. CASE /\ status' = SetCondition(o.status, "Initialized", "")
             /\ pc' = "sync" /\ UNCHANGED <<o, fresh, need, rel, queued>>
    <3>1. status' \in Statuses /\ status'.release = o.status.release
      <4>1. "Initialized" \in ConditionTypes /\ "" \in Reasons
        BY ConditionNames
      <4>2. /\ SetCondition(o.status, "Initialized", "") \in Statuses
            /\ SetCondition(o.status, "Initialized", "").release = o.status.release
        BY <4>1, <1>t, SetConditionType
      <4> QED BY <2>3, <4>2
    <3> QED BY <2>3, <3>1, <1>1, <1>t DEF NewManager, LocalInv, CopyInv, Path, Calm, Labels
  <2> QED BY <1>1, <2>1, <2>2, <2>3 DEF NewManager
<1>2. CASE FailPlain \/ WaitForDeletion
  BY <1>2, <1>r DEF FailPlain, WaitForDeletion
<1>3. CASE RemoveStale
  BY <1>3, <1>t, <1>g DEF RemoveStale
<1>4. CASE Sync
  <2>1. status' \in Statuses /\ status'.release = status.release
    BY <1>4, <1>t, ConditionNames, RemoveConditionType DEF Sync
  <2>2. rel' \in Reported
    <3>1. \A i \in DOMAIN hist : hist[i] \in Records
      BY ElementOfSeq, LenProperties
    <3>2. \A i \in DOMAIN hist : hist[i].manifest \in Manifests
      BY <3>1 DEF Records
    <3> QED
      BY <1>4, <3>2 DEF Sync, Reported
  <2> QED BY <1>4, <2>1, <2>2 DEF Sync, LocalInv, CopyInv, Path, Calm, Labels, Needs
<1>5. CASE SyncFails \/ SyncRefused
  BY <1>5, <1>e, ConditionNames DEF SyncFails, SyncRefused
<1>6. CASE InstallRefused
  BY <1>6, <1>e, ConditionNames DEF InstallRefused
<1>7. CASE InstallRelease \/ UpdateRelease
  BY <1>7, <1>t, <1>g DEF InstallRelease, UpdateRelease
<1>8. CASE ReleaseFailsEarly
  <2>1. CASE ReturnError("ReleaseFailed", IF pc = "install" THEN "InstallError" ELSE "UpdateError")
    <3>1. (IF pc = "install" THEN "InstallError" ELSE "UpdateError") \in Reasons
      BY ConditionNames
    <3> QED BY <2>1, <3>1, <1>8, <1>e, ConditionNames DEF ReleaseFailsEarly
  <2>2. CASE pc = "install" /\ pc' = "uninstallfailed" /\ UNCHANGED <<local, queued>>
    BY <2>2, <1>8, <1>t, <1>g DEF ReleaseFailsEarly
  <2> QED BY <1>8, <2>1, <2>2 DEF ReleaseFailsEarly
<1>9. CASE Apply
  BY <1>9, <1>t, <1>g DEF Apply
<1>10. CASE ApplyFails
  <2>1. CASE need = "undo"
    BY <2>1, <1>10, <1>e, ConditionNames DEF ApplyFails
  <2>2. CASE need # "undo"
    BY <2>2, <1>10, <1>t, <1>g DEF ApplyFails
  <2> QED BY <2>1, <2>2
<1>11. CASE UninstallFailed
  BY <1>11, <1>t, <1>g DEF UninstallFailed
<1>12. CASE PurgeFailed \/ UninstallFailedFails
  BY <1>12, <1>e, ConditionNames DEF PurgeFailed, UninstallFailedFails
<1>13. CASE Rollback
  BY <1>13 DEF Rollback, LocalInv, CopyInv, Path, Calm, Labels, Needs
<1>14. CASE RollbackFails
  BY <1>14, <1>e, ConditionNames DEF RollbackFails
<1>15. CASE SupersedeOld
  BY <1>15, <1>t, <1>g DEF SupersedeOld
<1>16. CASE SupersedeFails
  <2>1. CASE ReturnError("ReleaseFailed", "UpdateError")
    BY <2>1, <1>16, <1>e, ConditionNames DEF SupersedeFails
  <2>2. CASE pc' = "promote" /\ UNCHANGED <<local, queued>>
    BY <2>2, <1>16, <1>t, <1>g DEF SupersedeFails
  <2> QED BY <1>16, <2>1, <2>2 DEF SupersedeFails
<1>17. CASE Promote \/ PromoteFails
  <2>0. pc = "promote" /\ UNCHANGED <<server, cache>>
    BY <1>17 DEF Promote, PromoteFails
  <2>1. CASE ReturnError("ReleaseFailed", "UpdateError")
    BY <2>1, <2>0, <1>e, ConditionNames
  <2>2. CASE Succeed
    BY <2>2, <2>0, SucceedStep DEF Calm
  <2>3. CASE need = "update" /\ pc' = "rollback" /\ UNCHANGED <<local, queued>>
    BY <2>3, <2>0, <1>t, <1>g
  <2> QED BY <1>17, <2>1, <2>2, <2>3 DEF Promote, PromoteFails
<1>18. CASE ReconcileRelease
  <2> DEFINE s == RemoveCondition(status, "ReleaseFailed")
  <2>1. s \in Statuses /\ s.release = status.release
    BY <1>t, ConditionNames, RemoveConditionType
  <2>2. status' = RemoveCondition(s, "Irreconcilable")
    BY <1>18 DEF ReconcileRelease
  <2> HIDE DEF s
  <2>3. status' \in Statuses /\ status'.release = status.release
    BY <2>1, <2>2, ConditionNames, RemoveConditionType
  <2> QED BY <2>3, <1>18, <1>g DEF ReconcileRelease
<1>19. CASE ReconcileReleaseFails
  <2> DEFINE s == RemoveCondition(status, "ReleaseFailed")
  <2>1. s \in Statuses /\ s.release = status.release
    BY <1>t, ConditionNames, RemoveConditionType
  <2>2. status' = SetCondition(s, "Irreconcilable", "ReconcileError")
    BY <1>19 DEF ReconcileReleaseFails
  <2> HIDE DEF s
  <2>3. status' \in Statuses /\ status'.release = status.release
    <3>1. "Irreconcilable" \in ConditionTypes /\ "ReconcileError" \in Reasons
      BY ConditionNames
    <3> QED BY <2>1, <2>2, <3>1, SetConditionType
  <2> QED BY <2>3, <1>19, <1>g DEF ReconcileReleaseFails
<1>20. CASE UninstallRelease
  <2>1. status' \in Statuses /\ status'.release = status.release
    BY <1>20, <1>t, ConditionNames, RemoveConditionType DEF UninstallRelease
  <2> QED BY <2>1, <1>20, <1>g DEF UninstallRelease
<1>21. CASE Purge
  <2> DEFINE s == RemoveCondition(status, "ReleaseFailed")
             u == SetCondition(s, "Deployed", "UninstallSuccessful")
  <2>1. s \in Statuses
    BY <1>t, ConditionNames, RemoveConditionType
  <2>2. u \in Statuses
    <3> HIDE DEF s
    <3> QED BY <2>1, ConditionNames, SetConditionType
  <2>3. status' = [u EXCEPT !.release = None]
    BY <1>21 DEF Purge
  <2> HIDE DEF u
  <2>4. status' \in Statuses /\ status'.release = None
    BY <2>2, <2>3 DEF Statuses, Reported
  <2> QED BY <2>4, <1>21 DEF Purge, LocalInv, CopyInv, Path, Calm, Labels
<1>22. CASE UninstallFails
  BY <1>22, <1>e, ConditionNames DEF UninstallFails
<1> QED BY <1>1, <1>2, <1>3, <1>4, <1>5, <1>6, <1>7, <1>8, <1>9, <1>10, <1>11, <1>12,
           <1>13, <1>14, <1>15, <1>16, <1>17, <1>18, <1>19, <1>20, <1>21, <1>22 DEF Internal

-----------------------------------------------------------------------------
(* Steps that change the server's CR or Reconcile's copy *)

Writes == AddFinalizer \/ UpdateStatus \/ UpdateFailStatus \/ UpdateDeletedStatus \/ RemoveFinalizer
Users  == (\E s \in Specs : CreateCR(s)) \/ (\E s \in Edits : EditCR(s)) \/ DeleteCR

\* What the server does to its CR: a CR that is being deleted stays so until it is
\* gone, and what is new is announced.
Moves ==
  /\ cr'.uid >= cr.uid
  /\ cr'.uid = cr.uid /\ (cr.deleting \/ ~cr.exists) => cr'.deleting \/ ~cr'.exists
  /\ (UNCHANGED server) \/ watch' = Append(watch, cr')

\* Only AddFinalizer adds a finalizer.
FinalizerMoves ==
  /\ cr'.finalizer => cr'.exists /\ cr'.uid = cr.uid
  /\ cr'.finalizer /\ ~cr'.deleting => (cr.finalizer /\ ~cr.deleting) \/ (AddFinalizer /\ Current)
  /\ cr'.finalizer => cr.finalizer \/ (AddFinalizer /\ Current)

\* Reconcile takes a copy of the CR from the cache.
LEMMA ReconcileKeeps ==
  ASSUME CopyInv, LocalInv, Reconcile
  PROVE  /\ CopyInv' /\ LocalInv' /\ UNCHANGED <<server, cache>>
         /\ \/ UNCHANGED <<o, pc>>
            \/ /\ pc' = "manager" /\ o'.exists = cache.exists /\ o'.uid = cache.uid
               /\ o'.deleting = cache.deleting
<1>1. ServerInv' /\ UNCHANGED <<server, cache>>
  BY DEF Reconcile, CopyInv, ServerInv, server
<1>2. CASE ~cache.exists
  <2>1. UNCHANGED <<o, fresh, pc, status, need, rel>>
    BY <1>2 DEF Reconcile
  <2>2. Based => Based'
    BY <2>1, <1>1 DEF Based, server
  <2> QED BY <1>1, <2>1, <2>2 DEF CopyInv, LocalInv, Completed, Path
<1>3. CASE cache.exists
  <2> DEFINE spec == SetupIstioEnv(cache.spec)
  <2>1. /\ o' = [cache EXCEPT !.spec = spec] /\ fresh' = (watch = <<>>) /\ pc' = "manager"
        /\ UNCHANGED <<status, need, rel>> /\ pc = "idle"
    BY <1>3 DEF Reconcile, Goto
  <2>2. cache \in Versions /\ cache.spec \in Contents
    BY <1>3, VersionType DEF CopyInv, ServerInv
  <2>3. spec \in Contents /\ SetupIstioEnv(spec) = spec
    BY <2>2, SetupIs, SetupTwice
  <2> HIDE DEF spec
  <2>4. o' \in Versions /\ o'.spec = spec /\ o'.exists /\ o'.uid = cache.uid /\ o'.deleting = cache.deleting
    <3>1. [cache EXCEPT !.spec = spec] \in Versions
      BY <2>2, <2>3, VersionsMade
    <3>2. cache \in CRs
      BY <2>2, VersionType
    <3> QED BY <2>1, <3>1, <3>2, <1>3 DEF CRs
  <2>5. fresh' => Based'
    <3>1. ASSUME watch = <<>> PROVE cr' = cache /\ SetupIstioEnv(spec) = SetupIstioEnv(cache.spec)
      BY <3>1, <1>1, <2>3 DEF CopyInv, ServerInv, server, spec
    <3> QED BY <2>1, <2>4, <3>1 DEF Based
  <2>6. Completed' /\ Path' /\ fresh' \in BOOLEAN
    BY <2>1, <2>3, <2>4 DEF Completed, Path
  <2>7. LocalInv'
    BY <2>1 DEF LocalInv, Labels
  <2> QED BY <1>1, <1>3, <2>1, <2>4, <2>5, <2>6, <2>7 DEF CopyInv
<1> QED BY <1>2, <1>3

\* What a user may edit a CR to.
LEMMA EditsAre == ASSUME CopyInv, NEW s \in Edits PROVE s \in Contents
<1>1. Specs \subseteq Contents /\ (cr.exists => cr.spec \in Contents)
  BY HelmAssumption, VersionType DEF CopyInv, ServerInv
<1>2. ASSUME cr.exists, NEW t \in Specs PROVE [cr.spec EXCEPT !.chart = t.chart] \in Contents
  BY <1>1, <1>2 DEF Contents
<1> QED BY <1>1, <1>2 DEF Edits

\* Users create, edit and delete the CR.
LEMMA UserMoves ==
  ASSUME CopyInv, LocalInv, Users
  PROVE  /\ CopyInv' /\ LocalInv' /\ Moves /\ FinalizerMoves
         /\ UNCHANGED <<cache, pc, o, hist>>
         /\ cr.finalizer => cr'.exists
         /\ \/ cr'.spec = cr.spec \/ ~cr'.exists \/ cr'.uid # cr.uid
            \/ \E s \in Edits : EditCR(s)
<1>t. /\ ServerInv /\ cr \in Versions /\ cr \in CRs /\ cr.uid \in Nat /\ cr.uid \in 0 .. MaxUid
      /\ cr.exists \in BOOLEAN /\ cr.deleting \in BOOLEAN /\ cr.finalizer \in BOOLEAN
      /\ cr.finalizer => cr.exists
  BY VersionType DEF CopyInv, ServerInv
<1>0. UNCHANGED <<cache, pc, o, status, need, rel, hist>> /\ fresh' = FALSE
  BY DEF Users, CreateCR, EditCR, DeleteCR, cluster
<1>1. LocalInv' /\ (ServerInv' => CopyInv')
  <2>1. Path'
    BY <1>0 DEF CopyInv, Path
  <2> QED BY <1>0, <2>1, StaleCopy DEF LocalInv
<1> DEFINE Done ==
      /\ ServerInv' /\ Moves /\ FinalizerMoves
      /\ cr.finalizer => cr'.exists
      /\ \/ cr'.spec = cr.spec \/ ~cr'.exists \/ cr'.uid # cr.uid
         \/ \E s \in Edits : EditCR(s)
<1>m. ASSUME ServerInv', Moves, FinalizerMoves, cr.finalizer => cr'.exists,
             \/ cr'.spec = cr.spec \/ ~cr'.exists \/ cr'.uid # cr.uid
             \/ \E s \in Edits : EditCR(s)
      PROVE  Done
  BY <1>m
<1> HIDE DEF Done
<1>2. ASSUME NEW s \in Specs, CreateCR(s) PROVE Done
  <2> DEFINE c == [NoCR EXCEPT !.exists = TRUE, !.uid = cr.uid + 1, !.spec = s]
  <2>1. cr.uid < MaxUid /\ ~cr.exists /\ Store(c)
    BY <1>2 DEF CreateCR
  <2>2. cr.uid + 1 \in 0 .. MaxUid /\ cr.uid + 1 > cr.uid /\ cr.uid + 1 # cr.uid /\ s \in Contents
    BY <2>1, <1>t, HelmAssumption
  <2>3. c \in Versions /\ c.exists /\ c.uid = cr.uid + 1 /\ ~c.finalizer
    BY <2>2, NoCRType DEF Versions, CRs
  <2> HIDE DEF c
  <2>4. ServerInv' /\ cr' = c /\ ((UNCHANGED server) \/ watch' = Append(watch, cr'))
    BY <1>0, <1>t, <2>1, <2>3, Storing
  <2>5. Moves
    BY <1>t, <2>1, <2>2, <2>3, <2>4 DEF Moves
  <2>6. FinalizerMoves
    BY <2>3, <2>4 DEF FinalizerMoves
  <2> QED BY <2>1, <1>t, <2>2, <2>3, <2>4, <2>5, <2>6, <1>m
<1>3. ASSUME NEW s \in Edits, EditCR(s) PROVE Done
  <2> DEFINE c == [cr EXCEPT !.spec = s]
  <2>1. Store(c) /\ s \in Contents /\ cr.exists
    BY <1>3, EditsAre DEF EditCR
  <2>2. /\ c \in Versions /\ c.exists = cr.exists /\ c.uid = cr.uid
        /\ c.finalizer = cr.finalizer /\ c.deleting = cr.deleting
    BY <1>t, <2>1, VersionsMade DEF CRs
  <2> HIDE DEF c
  <2>3. ServerInv' /\ cr' = c /\ ((UNCHANGED server) \/ watch' = Append(watch, cr'))
    BY <1>0, <1>t, <2>1, <2>2, Storing
  <2>4. Moves
    BY <1>t, <2>2, <2>3 DEF Moves
  <2>5. FinalizerMoves
    BY <1>t, <2>2, <2>3 DEF FinalizerMoves
  <2>6. \E t \in Edits : EditCR(t)
    BY <1>3
  <2>7. cr'.exists
    BY <2>1, <2>2, <2>3
  <2> QED BY <2>3, <2>4, <2>5, <2>6, <2>7, <1>m
<1>4. ASSUME DeleteCR PROVE Done
  <2> DEFINE c == [cr EXCEPT !.deleting = TRUE]
  <2>1. /\ c \in Versions /\ c.exists = cr.exists /\ c.uid = cr.uid /\ c.spec = cr.spec
        /\ c.finalizer = cr.finalizer /\ c.deleting
    BY <1>t, VersionsMade DEF CRs
  <2>2. Store(IF cr.finalizer THEN c ELSE Removed(cr)) /\ cr.exists
    BY <1>4 DEF DeleteCR
  <2>3. /\ Removed(cr) \in Versions /\ ~Removed(cr).exists /\ ~Removed(cr).finalizer
        /\ Removed(cr).uid = cr.uid
    BY <1>t, VersionsMade
  <2> HIDE DEF c
  <2>4. CASE cr.finalizer
    <3>1. ServerInv' /\ cr' = c /\ ((UNCHANGED server) \/ watch' = Append(watch, cr'))
      BY <1>0, <1>t, <2>1, <2>2, <2>4, Storing
    <3>2. Moves
      BY <1>t, <2>1, <3>1 DEF Moves
    <3>3. FinalizerMoves
      BY <1>t, <2>1, <3>1 DEF FinalizerMoves
    <3>4. cr'.exists /\ cr'.spec = cr.spec
      BY <2>1, <2>2, <3>1
    <3> QED BY <3>1, <3>2, <3>3, <3>4, <1>m
  <2>5. CASE ~cr.finalizer
    <3>1. ServerInv' /\ cr' = Removed(cr) /\ ((UNCHANGED server) \/ watch' = Append(watch, cr'))
      BY <1>0, <1>t, <2>2, <2>3, <2>5, Storing
    <3>2. Moves
      BY <1>t, <2>3, <3>1 DEF Moves
    <3>3. FinalizerMoves
      BY <2>3, <3>1 DEF FinalizerMoves
    <3>4. ~cr'.exists
      BY <2>3, <3>1
    <3> QED BY <2>5, <3>1, <3>2, <3>3, <3>4, <1>m
  <2> QED BY <2>4, <2>5
<1>5. Done
  BY <1>2, <1>3, <1>4 DEF Users
<1> QED BY <1>0, <1>1, <1>5 DEF Done

\* FinalStatus is a status.
LEMMA FinalStatusType ==
  ASSUME LocalInv, o.spec \in Contents
  PROVE  FinalStatus \in Statuses
<1> DEFINE s == CASE need = "install" -> SetCondition(status, "Deployed", "InstallSuccessful")
                  [] need = "update"  -> SetCondition(status, "Deployed", "UpdateSuccessful")
                  [] OTHER            -> status
           r == IF need = "reconcile" THEN rel ELSE Manifest(o.spec)
<1>1. status \in Statuses /\ rel \in Reported
  BY DEF LocalInv
<1>2. s \in Statuses
  BY <1>1, ConditionNames, SetConditionType
<1>3. r \in Reported
  BY <1>1, ManifestType
<1>4. FinalStatus = [s EXCEPT !.release = r]
  BY DEF FinalStatus
<1> HIDE DEF s, r
<1> QED BY <1>2, <1>3, <1>4 DEF Statuses

\* The server's answer with the environment put back.
Answer(c, e) == [c EXCEPT !.spec = RestoreIstioEnv(c.spec, e)]

\* x is version c, but for what its labels say of its values.
AnswerOf(x, c) ==
  /\ x \in Versions /\ x = [c EXCEPT !.spec = x.spec]
  /\ x.exists /\ x.uid = c.uid /\ x.deleting = c.deleting /\ x.finalizer = c.finalizer
  /\ SetupIstioEnv(x.spec) = SetupIstioEnv(c.spec)
  /\ WithoutIstioEnv(x.spec) = WithoutIstioEnv(c.spec)

\* The server's answer is what was written.
LEMMA AnswerIs ==
  ASSUME NEW c \in Versions, c.exists, NEW e \in Fields
  PROVE  AnswerOf(Answer(c, e), c)
<1> DEFINE r == RestoreIstioEnv(c.spec, e)
           x == [c EXCEPT !.spec = r]
<1>1. /\ c.spec \in Contents /\ c \in CRs /\ r \in Contents
      /\ SetupIstioEnv(r) = SetupIstioEnv(c.spec) /\ WithoutIstioEnv(r) = WithoutIstioEnv(c.spec)
  BY VersionType, Restored
<1>2. Answer(c, e) = x
  BY DEF Answer
<1> HIDE DEF r
<1>3. x \in Versions
  BY <1>1 DEF Versions, CRs
<1>4. /\ x.spec = r /\ x.exists = c.exists /\ x.uid = c.uid /\ x.deleting = c.deleting
      /\ x.finalizer = c.finalizer
  BY <1>1 DEF CRs
<1> HIDE DEF x
<1>5. x = [c EXCEPT !.spec = x.spec]
  BY <1>4 DEF x
<1> QED BY <1>1, <1>2, <1>3, <1>4, <1>5 DEF AnswerOf

\* Reconcile's writes of the CR.
LEMMA WriteMoves ==
  ASSUME CopyInv, LocalInv, Writes
  PROVE  /\ CopyInv' /\ LocalInv' /\ Moves /\ FinalizerMoves /\ UNCHANGED <<cache, hist>>
         /\ cr.finalizer /\ ~cr'.exists => RemoveFinalizer
         /\ cr'.exists /\ cr'.spec # cr.spec =>
              cr'.spec = WithoutIstioEnv(SetupIstioEnv(cr.spec)) /\ cr.spec \in Contents
         /\ \/ pc' = "idle" /\ o' = NoCR
            \/ pc' = "wait" /\ o' = o /\ ~cr'.finalizer
            \/ /\ o'.uid = cr'.uid /\ o'.deleting = cr'.deleting
               /\ o.uid = cr.uid /\ cr'.uid = cr.uid /\ cr'.exists
<1> USE DEF Goto, local
<1>t. /\ ServerInv /\ cr \in Versions /\ cr \in CRs /\ cr.uid \in Nat
      /\ cr.exists \in BOOLEAN /\ cr.deleting \in BOOLEAN /\ cr.finalizer \in BOOLEAN
      /\ cr.finalizer => cr.exists
      /\ status \in Statuses /\ (status.release # None => o.finalizer)
  BY VersionType DEF CopyInv, ServerInv, LocalInv
<1>0. UNCHANGED <<cache, hist>> /\ pc \notin {"idle", "wait"}
  BY DEF Writes, AddFinalizer, UpdateStatus, UpdateFailStatus, UpdateDeletedStatus, RemoveFinalizer,
     cluster
<1>x. o.exists /\ o.spec \in Contents
  BY <1>0, VersionType DEF CopyInv, Path
<1>s. ASSUME UNCHANGED server
      PROVE  ServerInv' /\ Moves /\ FinalizerMoves /\ (cr.finalizer => cr'.exists) /\ cr'.spec = cr.spec
  BY <1>s, <1>0, <1>t DEF server, ServerInv, Moves, FinalizerMoves
<1>w. ASSUME NEW st \in Statuses, st.release # None => cr.finalizer,
             Store([cr EXCEPT !.status = st])
      PROVE  /\ ServerInv' /\ Moves /\ FinalizerMoves /\ cr' \in Versions
             /\ cr'.uid = cr.uid /\ cr'.exists = cr.exists /\ cr'.deleting = cr.deleting
             /\ cr'.finalizer = cr.finalizer /\ cr'.spec = cr.spec
  <2> DEFINE c == [cr EXCEPT !.status = st]
  <2>1. /\ c \in Versions /\ c.exists = cr.exists /\ c.uid = cr.uid /\ c.spec = cr.spec
        /\ c.finalizer = cr.finalizer /\ c.deleting = cr.deleting
    <3>1. cr \in Versions
      BY <1>t
    <3> QED BY <3>1, <1>w, WithStatus
  <2>2. Store(c)
    BY <1>w
  <2> HIDE DEF c
  <2>3. ServerInv' /\ cr' = c /\ ((UNCHANGED server) \/ watch' = Append(watch, cr'))
    BY <1>0, <1>t, <2>1, <2>2, Storing
  <2>4. Moves
    BY <1>t, <2>1, <2>3 DEF Moves
  <2>5. FinalizerMoves
    BY <1>t, <2>1, <2>3 DEF FinalizerMoves
  <2> QED BY <2>1, <2>3, <2>4, <2>5
<1>r. ASSUME NEW b, Return(b), ServerInv'
      PROVE  CopyInv' /\ LocalInv' /\ pc' = "idle" /\ o' = NoCR
  BY <1>r, ReturnStep, StaleCopy
<1>1. CASE AddFinalizer
  <2>1. CASE ~Current
    <3>1. Return(TRUE) /\ UNCHANGED server
      BY <2>1, <1>1 DEF AddFinalizer
    <3> QED BY <3>1, <1>0, <1>s, <1>r
  <2>2. CASE Current
    <3> DEFINE spec == WithoutIstioEnv(o.spec)
               c    == [cr EXCEPT !.spec = spec, !.finalizer = TRUE]
    <3>0. /\ cr.exists /\ o.uid = cr.uid /\ o.deleting = cr.deleting /\ cr.spec \in Contents
          /\ SetupIstioEnv(o.spec) = SetupIstioEnv(cr.spec) /\ fresh
      BY <2>2, CurrentIsServer DEF Current
    <3>1. /\ spec \in Contents /\ o.spec.istioEnv \in Fields
          /\ spec = WithoutIstioEnv(SetupIstioEnv(o.spec))
          /\ SetupIstioEnv(spec) = SetupIstioEnv(o.spec)
      <4>1. pc = "addfinalizer"
        BY <1>1 DEF AddFinalizer
      <4>2. spec = WithoutIstioEnv(SetupIstioEnv(o.spec))
        BY <4>1 DEF CopyInv, Completed
      <4>3. o.spec.istioEnv \in Fields
        BY <1>x DEF Contents
      <4> QED BY <1>x, <4>2, <4>3, WithoutIs, SetupTwice
    <3>2. /\ Store(c) /\ Answered /\ UNCHANGED <<fresh, status, need, rel>>
          /\ pc' = IF need = "install" THEN "status" ELSE need
      BY <1>1, <2>2 DEF AddFinalizer
    <3>3. need \in {"install", "update", "reconcile"}
      BY <1>1 DEF AddFinalizer, LocalInv
    <3>a. spec = WithoutIstioEnv(SetupIstioEnv(cr.spec))
      BY <3>0, <3>1
    <3> HIDE DEF spec
    <3>4. /\ c \in Versions /\ c.exists = cr.exists /\ c.uid = cr.uid /\ c.finalizer
          /\ c.deleting = cr.deleting /\ c.spec = spec
      BY <1>t, <3>0, <3>1, VersionsMade DEF CRs
    <3> HIDE DEF c
    <3>5. ServerInv' /\ cr' = c /\ ((UNCHANGED server) \/ watch' = Append(watch, cr'))
      BY <1>0, <1>t, <3>2, <3>4, Storing
    <3>6. Moves
      BY <1>t, <3>4, <3>5 DEF Moves
    <3>7. FinalizerMoves
      BY <1>1, <2>2, <1>t, <3>0, <3>4, <3>5 DEF FinalizerMoves
    <3>8. /\ o' \in Versions /\ o' = [c EXCEPT !.spec = o'.spec]
          /\ o'.exists /\ o'.uid = c.uid /\ o'.deleting = c.deleting /\ o'.finalizer = c.finalizer
          /\ SetupIstioEnv(o'.spec) = SetupIstioEnv(c.spec)
          /\ WithoutIstioEnv(o'.spec) = WithoutIstioEnv(c.spec)
      <4>1. o' = Answer(c, o.spec.istioEnv)
        BY <3>2, <3>5 DEF Answered, Answer
      <4>2. c.exists
        BY <3>0, <3>4
      <4>3. AnswerOf(o', c)
        BY <4>1, <4>2, <3>1, <3>4, AnswerIs
      <4> QED BY <4>3 DEF AnswerOf
    <3>9. Based'
      BY <3>5, <3>8 DEF Based
    <3>10. WithoutIstioEnv(o'.spec) = WithoutIstioEnv(SetupIstioEnv(o'.spec))
      <4>1. WithoutIstioEnv(spec) = spec
        <5>1. PICK p : p = o.spec
          OBVIOUS
        <5>2. spec = WithoutIstioEnv(p) /\ p \in Contents
          BY <5>1, <1>x DEF spec
        <5> QED BY <5>2, WithoutIs
      <4>2. WithoutIstioEnv(o'.spec) = spec /\ SetupIstioEnv(o'.spec) = SetupIstioEnv(o.spec)
        BY <3>1, <3>4, <3>8, <4>1
      <4> QED BY <4>2, <3>1
    <3>11. LocalInv'
      BY <3>2, <3>3, <3>4, <3>8 DEF LocalInv, Labels
    <3>12. Completed' /\ Path'
      BY <3>2, <3>3, <3>8, <3>10 DEF Completed, Path
    <3>13. CopyInv'
      BY <3>0, <3>2, <3>5, <3>8, <3>9, <3>12 DEF CopyInv
    <3>14. /\ cr'.exists /\ cr'.spec = WithoutIstioEnv(SetupIstioEnv(cr.spec))
           /\ o'.uid = cr'.uid /\ o'.deleting = cr'.deleting /\ cr'.uid = cr.uid
      BY <3>0, <3>a, <3>4, <3>5, <3>8
    <3> QED BY <1>0, <3>0, <3>6, <3>7, <3>11, <3>13, <3>14
  <2> QED BY <2>1, <2>2
<1>2. CASE UpdateStatus
  <2>1. Return(TRUE) /\ pc = "status"
    BY <1>2 DEF UpdateStatus
  <2>2. CASE ~Current
    <3>1. UNCHANGED server
      BY <2>2, <1>2 DEF UpdateStatus
    <3> QED BY <2>1, <3>1, <1>0, <1>s, <1>r
  <2>3. CASE Current
    <3>1. Store([cr EXCEPT !.status = FinalStatus]) /\ cr.finalizer /\ FinalStatus \in Statuses
      BY <2>1, <2>3, <1>2, <1>x, CurrentIsServer, FinalStatusType DEF UpdateStatus, LocalInv
    <3>2. /\ ServerInv' /\ Moves /\ FinalizerMoves /\ cr'.exists = cr.exists /\ cr'.spec = cr.spec
      BY <3>1, <1>w
    <3> QED BY <2>1, <3>2, <1>0, <1>t, <1>r
  <2> QED BY <2>2, <2>3
<1>3. CASE UpdateFailStatus
  <2>1. Return(TRUE) /\ (UNCHANGED server \/ (Current /\ Store([cr EXCEPT !.status = status])))
    BY <1>3 DEF UpdateFailStatus
  <2>2. CASE UNCHANGED server
    BY <2>1, <2>2, <1>0, <1>s, <1>r
  <2>3. CASE Current /\ Store([cr EXCEPT !.status = status])
    <3>0. status.release # None => cr.finalizer
      BY <2>3, <1>t, CurrentIsServer
    <3>1. /\ ServerInv' /\ Moves /\ FinalizerMoves /\ cr'.exists = cr.exists /\ cr'.spec = cr.spec
      BY <2>3, <3>0, <1>t, <1>w
    <3> QED BY <2>1, <3>1, <1>0, <1>t, <1>r
  <2> QED BY <2>1, <2>2, <2>3
<1>4. CASE UpdateDeletedStatus
  <2>1. CASE ~Current
    <3>1. Return(TRUE) /\ UNCHANGED server
      BY <2>1, <1>4 DEF UpdateDeletedStatus
    <3> QED BY <3>1, <1>0, <1>s, <1>r
  <2>2. CASE Current
    <3>0. /\ cr.exists /\ o.uid = cr.uid /\ o.deleting = cr.deleting /\ o.finalizer = cr.finalizer
          /\ fresh /\ pc = "delstatus"
      BY <2>2, <1>4, CurrentIsServer DEF Current, UpdateDeletedStatus
    <3>1. /\ Store([cr EXCEPT !.status = status]) /\ Answered /\ pc' = "delfinalizer"
          /\ UNCHANGED <<fresh, status, need, rel>>
      BY <2>2, <1>4 DEF UpdateDeletedStatus
    <3>2. /\ ServerInv' /\ Moves /\ FinalizerMoves /\ cr' \in Versions
          /\ cr'.uid = cr.uid /\ cr'.exists = cr.exists /\ cr'.deleting = cr.deleting
          /\ cr'.finalizer = cr.finalizer /\ cr'.spec = cr.spec
      <4>1. status \in Statuses /\ (status.release # None => cr.finalizer)
        BY <3>0, <1>t
      <4> QED BY <3>1, <4>1, <1>w
    <3>3. /\ o' \in Versions /\ o' = [cr' EXCEPT !.spec = o'.spec]
          /\ o'.exists /\ o'.uid = cr'.uid /\ o'.deleting = cr'.deleting
          /\ o'.finalizer = cr'.finalizer
          /\ SetupIstioEnv(o'.spec) = SetupIstioEnv(cr'.spec)
      <4>1. o.spec.istioEnv \in Fields
        BY <1>x DEF Contents
      <4>2. PICK new : new = cr'
        OBVIOUS
      <4>3. o' = Answer(new, o.spec.istioEnv)
        BY <3>1, <4>2 DEF Answered, Answer
      <4>4. new \in Versions /\ new.exists
        BY <3>0, <3>2, <4>2
      <4>5. AnswerOf(o', new)
        BY <4>1, <4>3, <4>4, AnswerIs
      <4> QED BY <4>2, <4>5 DEF AnswerOf
    <3>4. Based'
      BY <3>3 DEF Based
    <3>5. o.deleting
      BY <3>0 DEF CopyInv, Path
    <3>6. LocalInv'
      BY <3>0, <3>1, <3>2, <3>3 DEF LocalInv, Labels
    <3>7. Completed' /\ Path'
      BY <3>0, <3>1, <3>2, <3>3, <3>5 DEF Completed, Path
    <3>8. CopyInv'
      BY <3>0, <3>1, <3>2, <3>3, <3>4, <3>7 DEF CopyInv
    <3> QED BY <1>0, <3>0, <3>2, <3>3, <3>6, <3>8
  <2> QED BY <2>1, <2>2
<1>5. CASE RemoveFinalizer
  <2>1. CASE ~Current
    <3>1. Return(TRUE) /\ UNCHANGED server
      BY <2>1, <1>5 DEF RemoveFinalizer
    <3> QED BY <3>1, <1>0, <1>s, <1>r
  <2>2. CASE Current
    <3>1. /\ Store(Removed(cr)) /\ pc' = "wait" /\ fresh' = FALSE /\ UNCHANGED <<o, status, need, rel>>
      BY <1>5, <2>2 DEF RemoveFinalizer
    <3>2. /\ Removed(cr) \in Versions /\ ~Removed(cr).exists /\ ~Removed(cr).finalizer
          /\ Removed(cr).uid = cr.uid
      BY <1>t, VersionsMade
    <3>3. ServerInv' /\ cr' = Removed(cr) /\ ((UNCHANGED server) \/ watch' = Append(watch, cr'))
      BY <1>0, <1>t, <3>1, <3>2, Storing
    <3>4. Moves
      BY <1>t, <3>2, <3>3 DEF Moves
    <3>5. FinalizerMoves
      BY <3>2, <3>3 DEF FinalizerMoves
    <3>6. Path'
      BY <3>1, <1>x DEF Path
    <3>7. CopyInv'
      BY <3>1, <3>3, <3>6, StaleCopy
    <3>8. LocalInv'
      BY <3>1 DEF LocalInv, Labels
    <3> QED BY <1>0, <1>5, <3>1, <3>2, <3>3, <3>4, <3>5, <3>7, <3>8
  <2> QED BY <2>1, <2>2
<1> QED BY <1>1, <1>2, <1>3, <1>4, <1>5 DEF Writes

-----------------------------------------------------------------------------
(* The CRs of one name, one after the other *)

\* c is an earlier version of s, or of a CR before it.
OlderThan(c, s) ==
  /\ c.uid <= s.uid
  /\ c.exists /\ c.deleting /\ c.uid = s.uid => s.deleting \/ ~s.exists

\* The versions on their way to the cache are of later and later CRs.
WatchAge ==
  /\ \A i \in 1 .. Len(watch) : OlderThan(watch[i], cr) /\ cache.uid <= watch[i].uid
  /\ \A i, j \in 1 .. Len(watch) : i <= j => watch[i].uid <= watch[j].uid

\* Reconcile's copy is of no later CR than the cache's, and when the server's has a
\* finalizer, both are of that one.
AgeInv ==
  /\ WatchAge
  /\ OlderThan(cache, cr) /\ OlderThan(o, cr)
  /\ o.uid <= cache.uid
  /\ cr.finalizer => cache.uid = cr.uid /\ (pc = "idle" \/ o.uid = cr.uid)

\* The types of the copies.
LEMMA CopyTypes ==
  ASSUME CopyInv
  PROVE  /\ cr \in Versions /\ cache \in Versions /\ o \in Versions /\ watch \in Seq(Versions)
         /\ cr.uid \in Nat /\ cache.uid \in Nat /\ o.uid \in Nat
         /\ cr.exists \in BOOLEAN /\ cr.deleting \in BOOLEAN /\ cr.finalizer \in BOOLEAN
         /\ cache.exists \in BOOLEAN
         /\ cr.finalizer => cr.exists
         /\ Len(watch) \in Nat
         /\ \A i \in 1 .. Len(watch) : watch[i] \in Versions /\ watch[i].uid \in Nat
<1>1. cr \in Versions /\ cache \in Versions /\ o \in Versions /\ watch \in Seq(Versions)
  BY DEF CopyInv, ServerInv
<1>2. Len(watch) \in Nat /\ \A i \in 1 .. Len(watch) : watch[i] \in Versions
  BY <1>1, LenProperties, ElementOfSeq
<1>3. \A x \in Versions : x.uid \in Nat
  BY VersionType
<1> QED BY <1>1, <1>2, <1>3, VersionType

\* What was older stays older.
LEMMA OlderStays ==
  ASSUME CopyInv, Moves, cr'.uid \in Nat
  PROVE  \A x \in Versions : OlderThan(x, cr) => OlderThan(x, cr')
<1> SUFFICES ASSUME NEW x \in Versions, OlderThan(x, cr) PROVE OlderThan(x, cr')
  OBVIOUS
<1>1. x.uid \in Nat /\ cr.uid \in Nat
  BY CopyTypes, VersionType
<1> QED BY <1>1 DEF OlderThan, Moves

\* A new version is of the latest CR.
LEMMA WatchKept ==
  ASSUME CopyInv, AgeInv, Moves, cr'.uid \in Nat, cache' = cache
  PROVE  WatchAge'
<1>1. /\ watch \in Seq(Versions) /\ Len(watch) \in Nat
      /\ \A i \in 1 .. Len(watch) : watch[i] \in Versions /\ watch[i].uid \in Nat
  BY CopyTypes
<1>2. \A x \in Versions : OlderThan(x, cr) => OlderThan(x, cr')
  BY OlderStays
<1>3. CASE UNCHANGED server
  BY <1>3 DEF server, AgeInv, WatchAge
<1>4. CASE watch' = Append(watch, cr')
  <2>1. /\ Len(watch') = Len(watch) + 1 /\ watch'[Len(watch) + 1] = cr'
        /\ \A i \in 1 .. Len(watch) : watch'[i] = watch[i]
    <3>1. watch \in Seq(Versions \cup {cr'}) /\ cr' \in Versions \cup {cr'}
      BY <1>1, SeqMonotonic
    <3> QED BY <1>4, <3>1, AppendProperties
  <2>2. ASSUME NEW i \in 1 .. Len(watch')
        PROVE  OlderThan(watch'[i], cr') /\ cache'.uid <= watch'[i].uid /\ watch'[i].uid <= cr'.uid
    <3>1. CASE i = Len(watch) + 1
      <4>1. cache.uid <= cr.uid /\ cache.uid \in Nat /\ cr.uid \in Nat /\ cr.uid <= cr'.uid
        BY CopyTypes DEF AgeInv, OlderThan, Moves
      <4> QED BY <2>1, <3>1, <4>1 DEF OlderThan
    <3>2. CASE i \in 1 .. Len(watch)
      <4>1. watch'[i] = watch[i] /\ watch[i] \in Versions /\ OlderThan(watch[i], cr)
            /\ cache.uid <= watch[i].uid
        BY <1>1, <2>1, <3>2 DEF AgeInv, WatchAge
      <4>2. OlderThan(watch[i], cr')
        BY <4>1, <1>2
      <4> QED BY <4>1, <4>2 DEF OlderThan
    <3> QED BY <1>1, <2>1, <3>1, <3>2
  <2>3. ASSUME NEW i \in 1 .. Len(watch'), NEW j \in 1 .. Len(watch'), i <= j
        PROVE  watch'[i].uid <= watch'[j].uid
    <3>1. CASE j = Len(watch) + 1
      BY <2>1, <2>2, <3>1
    <3>2. CASE j \in 1 .. Len(watch)
      <4>1. i \in 1 .. Len(watch)
        BY <1>1, <2>3, <3>2
      <4> QED BY <2>1, <2>3, <3>2, <4>1 DEF AgeInv, WatchAge
    <3> QED BY <1>1, <2>1, <3>1, <3>2
  <2> QED BY <2>2, <2>3 DEF WatchAge
<1> QED BY <1>3, <1>4 DEF Moves

\* The cache takes the next version.
LEMMA DeliverKeeps ==
  ASSUME CopyInv, LocalInv, AgeInv, Deliver
  PROVE  CopyInv' /\ LocalInv' /\ AgeInv'
<1>1. /\ watch \in Seq(Versions) /\ watch # <<>> /\ cr' = cr
      /\ UNCHANGED <<o, pc, fresh, status, need, rel>>
      /\ cache' = Head(watch) /\ watch' = Tail(watch)
  BY CopyTypes DEF Deliver, local
<1>2. /\ Head(watch) = watch[1] /\ Len(watch) \in Nat \ {0} /\ Len(Tail(watch)) = Len(watch) - 1
      /\ \A i \in 1 .. Len(Tail(watch)) : Tail(watch)[i] = watch[i + 1]
      /\ watch[1] \in Versions
  BY <1>1, HeadTailProperties, EmptySeq, LenProperties
<1>3. \A i \in 1 .. Len(watch') : i + 1 \in 1 .. Len(watch) /\ 1 <= i + 1 /\ watch'[i] = watch[i + 1]
  BY <1>1, <1>2
<1>4. 1 \in 1 .. Len(watch)
  BY <1>2
<1>5. WatchAge'
  <2>1. \A i \in 1 .. Len(watch') : OlderThan(watch'[i], cr') /\ cache'.uid <= watch'[i].uid
    BY <1>1, <1>2, <1>3, <1>4 DEF AgeInv, WatchAge
  <2>2. ASSUME NEW i \in 1 .. Len(watch'), NEW j \in 1 .. Len(watch'), i <= j
        PROVE  watch'[i].uid <= watch'[j].uid
    <3>1. i + 1 <= j + 1
      BY <2>2
    <3> QED BY <1>3, <3>1 DEF AgeInv, WatchAge
  <2> QED BY <2>1, <2>2 DEF WatchAge
<1>6. OlderThan(watch[1], cr) /\ cache.uid <= watch[1].uid
  BY <1>4 DEF AgeInv, WatchAge
<1>7. watch[1].uid \in Nat /\ cache.uid \in Nat /\ cr.uid \in Nat /\ o.uid \in Nat
  BY <1>2, CopyTypes, VersionType
<1>8. OlderThan(cache', cr') /\ o'.uid <= cache'.uid
  BY <1>1, <1>2, <1>6, <1>7 DEF AgeInv
<1>9. cr.finalizer => cache'.uid = cr.uid
  BY <1>1, <1>2, <1>6, <1>7 DEF AgeInv, OlderThan
<1>10. AgeInv'
  BY <1>1, <1>5, <1>8, <1>9 DEF AgeInv, OlderThan
<1>11. CopyInv'
  <2>1. ServerInv'
    BY Delivering DEF CopyInv
  <2>2. Based => Based'
    BY <1>1 DEF Based
  <2> QED BY <1>1, <2>1, <2>2 DEF CopyInv, Completed, Path
<1> QED BY <1>1, <1>10, <1>11 DEF LocalInv

\* A restarted operator reads the server's CR and forgets the rest.
LEMMA CrashKeeps ==
  ASSUME CopyInv, LocalInv, AgeInv, Crash
  PROVE  CopyInv' /\ LocalInv' /\ AgeInv'
<1>1. /\ cr' = cr /\ cache' = cr /\ watch' = <<>> /\ o' = NoCR /\ fresh' = FALSE
      /\ status' = NoStatus /\ pc' = "idle" /\ need' = "none" /\ rel' = None
  BY DEF Crash, Goto
<1>2. watch' \in Seq(Versions) /\ Len(watch') = 0
  BY <1>1, EmptySeq
<1>3. CopyInv'
  BY <1>1, <1>2, CopyTypes, NoCRType DEF CopyInv, ServerInv, Completed, Path
<1>4. LocalInv'
  BY <1>1, EmptyStatusType DEF LocalInv, Labels, Needs, Reported
<1>5. AgeInv'
  BY <1>1, <1>2, CopyTypes, NoCRType DEF AgeInv, WatchAge, OlderThan
<1> QED BY <1>3, <1>4, <1>5

\* Every step keeps the order of the CRs, and the copies are copies.
LEMMA CopiesKept ==
  ASSUME CopyInv, LocalInv, AgeInv, hist \in Seq(Records), [Next]_vars
  PROVE  CopyInv' /\ LocalInv' /\ AgeInv'
<1>m. ASSUME CopyInv', Moves, FinalizerMoves, cache' = cache,
             \/ pc' = "idle" /\ o' = NoCR
             \/ pc' = "wait" /\ o' = o /\ ~cr'.finalizer
             \/ pc' = pc /\ o' = o /\ (cr'.finalizer => cr.finalizer)
             \/ /\ o'.uid = cr'.uid /\ o'.deleting = cr'.deleting
                /\ o.uid = cr.uid /\ cr'.uid = cr.uid /\ cr'.exists
      PROVE  AgeInv'
  <2>0. /\ cr'.uid \in Nat /\ cr.uid \in Nat /\ cache.uid \in Nat /\ o.uid \in Nat
        /\ cache \in Versions /\ o \in Versions
    <3>1. cr' \in Versions
      BY <1>m DEF CopyInv, ServerInv
    <3> QED BY <3>1, CopyTypes, VersionType
  <2>1. WatchAge'
    BY <1>m, <2>0, WatchKept
  <2>2. \A x \in Versions : OlderThan(x, cr) => OlderThan(x, cr')
    BY <1>m, <2>0, OlderStays
  <2>3. OlderThan(cache', cr')
    BY <1>m, <2>0, <2>2 DEF AgeInv
  <2>4. OlderThan(o', cr')
    <3>1. CASE o' = NoCR
      BY <3>1, <2>0, NoCRType DEF OlderThan
    <3>2. CASE o' = o
      BY <3>2, <2>0, <2>2 DEF AgeInv
    <3>3. CASE o'.uid = cr'.uid /\ o'.deleting = cr'.deleting
      BY <3>3, <2>0 DEF OlderThan
    <3> QED BY <1>m, <3>1, <3>2, <3>3
  <2>5. o'.uid <= cache'.uid
    BY <1>m, <2>0, NoCRType DEF AgeInv
  <2>6. ASSUME cr'.finalizer
        PROVE  cache'.uid = cr'.uid /\ (pc' = "idle" \/ o'.uid = cr'.uid)
    <3>1. cr'.uid = cr.uid /\ (cr.finalizer \/ (AddFinalizer /\ Current))
      BY <1>m, <2>6 DEF FinalizerMoves
    <3>2. Current => o.uid = cr.uid
      BY CurrentIsServer
    <3>3. cache.uid = cr.uid
      BY <3>1, <3>2, <2>0 DEF AgeInv, OlderThan
    <3>4. pc' = "idle" \/ o'.uid = cr'.uid
      BY <1>m, <2>6, <3>1 DEF AgeInv
    <3> QED BY <1>m, <3>1, <3>3, <3>4
  <2> QED BY <2>1, <2>3, <2>4, <2>5, <2>6 DEF AgeInv
<1>1. CASE Internal
  <2>1. LocalInv' /\ Path' /\ Calm
    BY <1>1, InternalKeeps
  <2>2. CopyInv'
    BY <2>1, SameServer DEF Calm
  <2>3. UNCHANGED <<cr, watch, cache>> /\ ((o' = NoCR /\ pc' = "idle") \/ (o' = o /\ pc # "idle"))
    BY <2>1 DEF Calm, server
  <2>4. AgeInv'
    BY <2>3, CopyTypes, NoCRType DEF AgeInv, WatchAge, OlderThan
  <2> QED BY <2>1, <2>2, <2>4
<1>2. CASE Reconcile
  <2>1. /\ CopyInv' /\ LocalInv' /\ UNCHANGED <<cr, watch, cache>>
        /\ \/ UNCHANGED <<o, pc>>
           \/ /\ pc' = "manager" /\ o'.exists = cache.exists /\ o'.uid = cache.uid
              /\ o'.deleting = cache.deleting
    BY <1>2, ReconcileKeeps DEF server
  <2>2. AgeInv'
    BY <2>1, CopyTypes DEF AgeInv, WatchAge, OlderThan
  <2> QED BY <2>1, <2>2
<1>3. CASE Writes
  BY <1>3, <1>m, WriteMoves
<1>4. CASE Users
  <2>1. /\ CopyInv' /\ LocalInv' /\ Moves /\ FinalizerMoves /\ UNCHANGED <<cache, pc, o>>
    BY <1>4, UserMoves
  <2>2. ~AddFinalizer \/ ~Current
    <3>1. ASSUME AddFinalizer, Current, UNCHANGED pc PROVE FALSE
      BY <3>1 DEF AddFinalizer, Goto, LocalInv
    <3> QED BY <2>1, <3>1
  <2>3. cr'.finalizer => cr.finalizer
    BY <2>1, <2>2 DEF FinalizerMoves
  <2> QED BY <2>1, <2>3, <1>m
<1>5. CASE Drift \/ CollectGarbage \/ UNCHANGED vars
  <2>1. UNCHANGED <<cr, watch, cache, pc, o, fresh, status, need, rel>>
    BY <1>5 DEF Drift, CollectGarbage, vars, local, server
  <2>2. CopyInv'
    BY <2>1 DEF CopyInv, ServerInv, Based, Completed, Path
  <2> QED BY <2>1, <2>2 DEF LocalInv, AgeInv, WatchAge
<1>6. CASE Deliver
  BY <1>6, DeliverKeeps
<1>7. CASE Crash
  BY <1>7, CrashKeeps
<1> QED BY <1>1, <1>2, <1>3, <1>4, <1>5, <1>6, <1>7
        DEF Next, ReconcileStep, FaultStep, UserStep, Internal, Writes, Users

-----------------------------------------------------------------------------
(* What is counted *)

\* Counting what is bounded.
LEMMA Counting ==
  ASSUME bounds \in Bounds
  PROVE  /\ Edited \/ Fault \/ UNCHANGED bounds =>
              /\ bounds' \in Bounds /\ bounds'.records = bounds.records
              /\ bounds'.crashes = bounds.crashes
         /\ RecordLost =>
              /\ bounds' \in Bounds /\ bounds'.records # 0 /\ bounds'.crashes = bounds.crashes
         /\ Trouble("crashes") =>
              /\ bounds' \in Bounds /\ bounds'.records = bounds.records /\ bounds'.crashes # 0
<1>1. /\ bounds = [edits |-> bounds.edits, faults |-> bounds.faults, records |-> bounds.records,
                   crashes |-> bounds.crashes]
      /\ bounds.edits \in Nat /\ bounds.edits <= MaxEdits
      /\ bounds.faults \in Nat /\ bounds.faults <= MaxTroubles
      /\ bounds.records \in Nat /\ bounds.records <= MaxTroubles
      /\ bounds.crashes \in Nat /\ bounds.crashes <= MaxTroubles
      /\ MaxEdits \in Nat /\ MaxTroubles \in Nat
  BY HelmAssumption DEF Bounds
<1>2. ASSUME Edited
      PROVE  /\ bounds' \in Bounds /\ bounds'.records = bounds.records
             /\ bounds'.crashes = bounds.crashes
  <2>1. /\ bounds.edits < MaxEdits
        /\ bounds' = [edits |-> bounds.edits + 1, faults |-> bounds.faults,
                      records |-> bounds.records, crashes |-> bounds.crashes]
    BY <1>1, <1>2 DEF Edited
  <2> QED BY <1>1, <2>1 DEF Bounds
<1>3. ASSUME Fault
      PROVE  /\ bounds' \in Bounds /\ bounds'.records = bounds.records
             /\ bounds'.crashes = bounds.crashes
  <2>0. /\ bounds.faults + bounds.records + bounds.crashes < MaxTroubles
        /\ bounds' = [bounds EXCEPT !.faults = bounds.faults + 1]
    BY <1>3 DEF Fault, Trouble
  <2>1. /\ bounds.faults < MaxTroubles
        /\ bounds' = [edits |-> bounds.edits, faults |-> bounds.faults + 1,
                      records |-> bounds.records, crashes |-> bounds.crashes]
    BY <1>1, <2>0
  <2> QED BY <1>1, <2>1 DEF Bounds
<1>4. ASSUME RecordLost
      PROVE  bounds' \in Bounds /\ bounds'.records # 0 /\ bounds'.crashes = bounds.crashes
  <2>0. /\ bounds.faults + bounds.records + bounds.crashes < MaxTroubles
        /\ bounds' = [bounds EXCEPT !.records = bounds.records + 1]
    BY <1>4 DEF RecordLost, Trouble
  <2>1. /\ bounds.records < MaxTroubles
        /\ bounds' = [edits |-> bounds.edits, faults |-> bounds.faults,
                      records |-> bounds.records + 1, crashes |-> bounds.crashes]
    BY <1>1, <2>0
  <2> QED BY <1>1, <2>1 DEF Bounds
<1>5. ASSUME Trouble("crashes")
      PROVE  bounds' \in Bounds /\ bounds'.records = bounds.records /\ bounds'.crashes # 0
  <2>0. /\ bounds.faults + bounds.records + bounds.crashes < MaxTroubles
        /\ bounds' = [bounds EXCEPT !.crashes = bounds.crashes + 1]
    BY <1>5 DEF Trouble
  <2>1. /\ bounds.crashes < MaxTroubles
        /\ bounds' = [edits |-> bounds.edits, faults |-> bounds.faults,
                      records |-> bounds.records, crashes |-> bounds.crashes + 1]
    BY <1>1, <2>0
  <2> QED BY <1>1, <2>1 DEF Bounds
<1>6. CASE UNCHANGED bounds
  BY <1>2, <1>3, <1>4, <1>5, <1>6
<1> QED BY <1>2, <1>3, <1>4, <1>5, <1>6

\* What the steps count.
LEMMA Counted ==
  ASSUME [Next]_vars
  PROVE  \/ Edited \/ Fault \/ UNCHANGED bounds
         \/ RecordLost
         \/ Crash /\ Trouble("crashes")
<1>1. CASE ReconcileStep
  BY <1>1 DEF ReconcileStep, Reconcile, NewManager, RemoveStale, Sync, SyncRefused, InstallRefused,
     InstallRelease, UpdateRelease, Apply, ApplyFails, UninstallFailed, PurgeFailed, Rollback,
     SupersedeOld, Promote, ReconcileRelease, AddFinalizer, UpdateStatus, UpdateFailStatus,
     UninstallRelease, Purge, UpdateDeletedStatus, RemoveFinalizer, WaitForDeletion
<1>2. CASE FaultStep
  BY <1>2 DEF FaultStep, FailPlain, SyncFails, ReleaseFailsEarly, UninstallFailedFails, RollbackFails,
     SupersedeFails, PromoteFails, ReconcileReleaseFails, UninstallFails, Crash
<1>3. CASE UserStep \/ Deliver \/ CollectGarbage \/ UNCHANGED vars
  BY <1>3 DEF UserStep, CreateCR, EditCR, DeleteCR, Drift, Deliver, CollectGarbage, vars
<1> QED BY <1>1, <1>2, <1>3 DEF Next

-----------------------------------------------------------------------------
(* Helm's storage *)

Deploys(h) == \E i \in DOMAIN h : h[i].deployed

\* Facts about a sequence of records.
LEMMA RecordsAre ==
  ASSUME NEW h \in Seq(Records)
  PROVE  /\ Len(h) \in Nat /\ DOMAIN h = 1 .. Len(h) /\ (h # <<>> <=> Len(h) > 0)
         /\ \A i \in 1 .. Len(h) : /\ h[i] \in Records /\ h[i].manifest \in Manifests
                                   /\ h[i].deployed \in BOOLEAN
<1>1. Len(h) \in Nat /\ DOMAIN h = 1 .. Len(h) /\ \A i \in 1 .. Len(h) : h[i] \in Records
  BY LenProperties, ElementOfSeq
<1>2. h # <<>> <=> Len(h) > 0
  BY <1>1, EmptySeq
<1> QED BY <1>1, <1>2 DEF Records

\* A new record that is not deployed yet.
LEMMA Appending ==
  ASSUME hist \in Seq(Records), NEW man \in Manifests
  PROVE  /\ Created(man) \in Seq(Records) /\ Len(Created(man)) = Len(hist) + 1
         /\ Created(man) # <<>>
         /\ \A i \in 1 .. Len(hist) : Created(man)[i] = hist[i]
         /\ ~Created(man)[Len(hist) + 1].deployed
         /\ Deploys(Created(man)) <=> Released
<1> DEFINE r == [deployed |-> FALSE, manifest |-> man]
           g == Append(hist, r)
<1>1. r \in Records /\ ~r.deployed
  BY DEF Records
<1> HIDE DEF r
<1>2. /\ g \in Seq(Records) /\ Len(g) = Len(hist) + 1 /\ g[Len(hist) + 1] = r
      /\ \A i \in 1 .. Len(hist) : g[i] = hist[i]
  BY <1>1, AppendProperties
<1>3. /\ DOMAIN g = 1 .. (Len(hist) + 1) /\ DOMAIN hist = 1 .. Len(hist) /\ Len(hist) \in Nat
      /\ g # <<>>
  BY <1>2, RecordsAre
<1> HIDE DEF g
<1>4. Deploys(g) <=> Released
  <2>1. ASSUME NEW i \in DOMAIN g, g[i].deployed PROVE Released
    <3>1. i \in 1 .. Len(hist)
      BY <2>1, <1>1, <1>2, <1>3
    <3> QED BY <2>1, <3>1, <1>2, <1>3 DEF Released
  <2>2. ASSUME NEW i \in DOMAIN hist, hist[i].deployed PROVE Deploys(g)
    BY <2>2, <1>2, <1>3 DEF Deploys
  <2> QED BY <2>1, <2>2 DEF Deploys, Released
<1>5. Created(man) = g
  BY DEF Created, g, r
<1> QED BY <1>1, <1>2, <1>3, <1>4, <1>5

\* A record is marked.
LEMMA Marking ==
  ASSUME NEW h \in Seq(Records), NEW i \in 1 .. Len(h), NEW d \in BOOLEAN
  PROVE  /\ Mark(h, i, d) \in Seq(Records) /\ Len(Mark(h, i, d)) = Len(h)
         /\ d => Deploys(Mark(h, i, d))
         /\ Deploys(Mark(h, i, FALSE)) => Deploys(h)
         /\ ~h[i].deployed /\ Deploys(h) => Deploys(Mark(h, i, d))
<1> DEFINE r == [h[i] EXCEPT !.deployed = d]
<1>1. Len(h) \in Nat /\ DOMAIN h = 1 .. Len(h) /\ h[i] \in Records
  BY RecordsAre
<1>2. r \in Records /\ r.deployed = d
  BY <1>1 DEF Records
<1>3. Mark(h, i, d) = [h EXCEPT ![i] = r]
  BY DEF Mark
<1> HIDE DEF r
<1>4. /\ Mark(h, i, d) \in Seq(Records) /\ DOMAIN Mark(h, i, d) = DOMAIN h
      /\ Mark(h, i, d)[i] = r /\ \A j \in DOMAIN h \ {i} : Mark(h, i, d)[j] = h[j]
  BY <1>1, <1>2, <1>3, ExceptSeq
<1>5. Len(Mark(h, i, d)) = Len(h)
  BY <1>1, <1>4, RecordsAre, LenProperties
<1>6. ~d /\ Deploys(Mark(h, i, d)) => Deploys(h)
  BY <1>2, <1>4 DEF Deploys
<1>7. d => Deploys(Mark(h, i, d))
  BY <1>1, <1>2, <1>4 DEF Deploys
<1>8. ~h[i].deployed /\ Deploys(h) => Deploys(Mark(h, i, d))
  BY <1>4 DEF Deploys
<1>9. ASSUME Deploys(Mark(h, i, FALSE)) PROVE Deploys(h)
  <2>1. CASE d
    <3>1. /\ DOMAIN Mark(h, i, FALSE) = DOMAIN h
          /\ \A j \in DOMAIN h \ {i} : Mark(h, i, FALSE)[j] = h[j]
          /\ ~Mark(h, i, FALSE)[i].deployed
      BY <1>1 DEF Mark, Records
    <3> QED BY <1>9, <3>1 DEF Deploys
  <2>2. CASE ~d
    BY <2>2, <1>6, <1>9
  <2> QED BY <2>1, <2>2
<1> QED BY <1>4, <1>5, <1>7, <1>8, <1>9

\* Several records are marked.
LEMMA MarkingAll ==
  ASSUME NEW h \in Seq(Records), NEW g, DOMAIN g = DOMAIN h, g = [i \in DOMAIN h |-> g[i]],
         \A i \in DOMAIN h : \E d \in BOOLEAN : g[i] = [h[i] EXCEPT !.deployed = d]
  PROVE  g \in Seq(Records) /\ Len(g) = Len(h)
<1>1. /\ Len(h) \in Nat /\ DOMAIN h = 1 .. Len(h)
      /\ \A i \in 1 .. Len(h) : h[i] \in Records
  BY RecordsAre
<1>2. \A i \in 1 .. Len(h) : g[i] \in Records
  BY <1>1 DEF Records
<1>3. g \in [1 .. Len(h) -> Records]
  BY <1>1, <1>2
<1> QED BY <1>1, <1>3, IsASeq, LenProperties

\* A record that is not deployed is deleted.
LEMMA Removing ==
  ASSUME NEW h \in Seq(Records), NEW i \in 1 .. Len(h), ~h[i].deployed
  PROVE  RemoveAt(h, i) \in Seq(Records) /\ (Deploys(h) => Deploys(RemoveAt(h, i)))
<1> DEFINE a == SubSeq(h, 1, i - 1)
           b == SubSeq(h, i + 1, Len(h))
<1>0. Len(h) \in Nat /\ i \in Nat /\ 1 <= i /\ i <= Len(h) /\ DOMAIN h = 1 .. Len(h)
  BY LenProperties
<1>1. a \in Seq(Records) /\ Len(a) = i - 1 /\ \A k \in 1 .. i - 1 : a[k] = h[k]
  BY <1>0, SubSeqProperties
<1>2. b \in Seq(Records) /\ Len(b) = Len(h) - i /\ \A k \in 1 .. Len(h) - i : b[k] = h[i + k]
  <2>1. /\ i + 1 \in Int /\ Len(h) \in Int
        /\ \A k \in (i + 1) .. Len(h) : h[k] \in Records
    BY <1>0, RecordsAre
  <2>2. PICK m \in Int : m = i + 1
    BY <2>1
  <2>3. /\ SubSeq(h, m, Len(h)) \in Seq(Records)
        /\ Len(SubSeq(h, m, Len(h))) = IF m <= Len(h) THEN Len(h) - m + 1 ELSE 0
        /\ \A k \in 1 .. Len(h) - m + 1 : SubSeq(h, m, Len(h))[k] = h[m + k - 1]
    BY <2>1, <2>2, SubSeqProperties
  <2>4. ASSUME NEW n \in Nat, NEW j \in Nat, j <= n, NEW k \in Int, k = j + 1
        PROVE  /\ k <= n => n - k + 1 = n - j
               /\ ~(k <= n) => 0 = n - j
               /\ n - k + 1 = n - j
               /\ \A x \in Nat : k + x - 1 = j + x
    BY <2>4
  <2>5. /\ (IF m <= Len(h) THEN Len(h) - m + 1 ELSE 0) = Len(h) - i
        /\ Len(h) - m + 1 = Len(h) - i
        /\ \A k \in 1 .. Len(h) - i : k \in Nat /\ m + k - 1 = i + k
    <3>1. /\ m <= Len(h) => Len(h) - m + 1 = Len(h) - i
          /\ ~(m <= Len(h)) => 0 = Len(h) - i
          /\ Len(h) - m + 1 = Len(h) - i
          /\ \A x \in Nat : m + x - 1 = i + x
      <4>1. Len(h) \in Nat /\ i \in Nat /\ i <= Len(h) /\ m \in Int /\ m = i + 1
        BY <1>0, <2>2
      <4> QED BY <4>1, <2>4, ZenonT(60)
    <3>2. \A k \in 1 .. Len(h) - i : k \in Nat
      OBVIOUS
    <3>3. CASE m <= Len(h)
      BY <3>1, <3>2, <3>3
    <3>4. CASE ~(m <= Len(h))
      BY <3>1, <3>2, <3>4
    <3> QED BY <3>3, <3>4
  <2>6. b = SubSeq(h, m, Len(h))
    BY <2>2
  <2> HIDE DEF b
  <2>7. b \in Seq(Records) /\ Len(b) = Len(h) - i
    BY <2>3, <2>5, <2>6
  <2>8. \A k \in 1 .. Len(h) - i : b[k] = h[i + k]
    BY <2>3, <2>5, <2>6
  <2> QED BY <2>7, <2>8
<1>3. RemoveAt(h, i) = a \o b
  BY DEF RemoveAt
<1> HIDE DEF a, b
<1>4. /\ a \o b \in Seq(Records) /\ Len(a \o b) = Len(a) + Len(b)
      /\ \A k \in 1 .. Len(a) + Len(b) : (a \o b)[k] = IF k <= Len(a) THEN a[k] ELSE b[k - Len(a)]
  BY <1>1, <1>2, ConcatProperties
<1>5. DOMAIN (a \o b) = 1 .. Len(h) - 1
  <2>1. Len(a \o b) = Len(h) - 1
    BY <1>0, <1>1, <1>2, <1>4
  <2> QED BY <1>4, <2>1, LenProperties
<1>6. ASSUME NEW j \in DOMAIN h, h[j].deployed PROVE Deploys(a \o b)
  <2>1. CASE j < i
    <3>0. Len(a) = i - 1 /\ Len(a) + Len(b) = Len(h) - 1 /\ j \in 1 .. Len(h)
      BY <1>0, <1>1, <1>2
    <3>1. j \in 1 .. Len(a) + Len(b) /\ j <= Len(a) /\ j \in 1 .. i - 1 /\ j \in 1 .. Len(h) - 1
      BY <3>0, <2>1, <1>0
    <3>2. (a \o b)[j] = h[j]
      BY <3>1, <1>1, <1>4
    <3> QED BY <3>1, <3>2, <1>5, <1>6 DEF Deploys
  <2>2. CASE j > i
    <3> DEFINE k == j - 1
    <3>0. Len(a) = i - 1 /\ Len(a) + Len(b) = Len(h) - 1 /\ j \in 1 .. Len(h)
      BY <1>0, <1>1, <1>2
    <3>1. k \in 1 .. Len(a) + Len(b) /\ ~(k <= Len(a)) /\ k - Len(a) \in 1 .. Len(h) - i
          /\ i + (k - Len(a)) = j /\ k \in 1 .. Len(h) - 1
      BY <3>0, <2>2, <1>0
    <3> HIDE DEF k
    <3>2. (a \o b)[k] = b[k - Len(a)]
      BY <3>1, <1>4
    <3>3. b[k - Len(a)] = h[j]
      BY <3>1, <1>2
    <3> QED BY <3>1, <3>2, <3>3, <1>5, <1>6 DEF Deploys
  <2>3. j # i
    BY <1>6
  <2> QED BY <2>1, <2>2, <2>3, <1>0
<1> QED BY <1>3, <1>4, <1>6 DEF Deploys

-----------------------------------------------------------------------------
(* What each step of Reconcile knows of helm's storage *)

\* What is known as long as no record was lost.
Recorded ==
  /\ pc = "addfinalizer" => Released
  /\ pc = "rollback" => ~hist[Len(hist)].deployed
  /\ pc = "apply" /\ need = "undo" => ~hist[Len(hist) - 1].deployed

\* An installation begins with an empty storage; an update and its rollback follow a
\* record; nothing is left when a finalizer is to be removed.
Flow ==
  /\ pc = "install" => hist = <<>>
  /\ pc \in {"uninstallfailed", "purgefailed"} \/ (pc = "apply" /\ need = "install") => ~Released
  /\ pc = "update" \/ (pc = "addfinalizer" /\ need # "install") => hist # <<>>
  /\ pc \in {"apply", "supersede", "promote"} => hist # <<>>
  /\ pc = "rollback" \/ (pc \in {"apply", "supersede", "promote"} /\ need # "install")
       => Len(hist) >= 2
  /\ pc = "apply" => ~hist[Len(hist)].deployed
  /\ pc \in {"delstatus", "delfinalizer"} => hist = <<>>
  /\ bounds.records = 0 => Recorded

HistInv == hist \in Seq(Records) /\ Flow

\* The CR has the finalizer, nobody deletes it, and no crash and no lost record has
\* cut the bookkeeping off.
Sheltered ==
  cr.finalizer /\ ~cr.deleting /\ bounds.crashes = 0 /\ bounds.records = 0

\* Its release stays deployed but for the moment between two records.
KeptInv == Sheltered => Released \/ pc = "promote"

\* Nothing is known of the storage at these steps.
LEMMA HistAnywhere ==
  ASSUME hist' \in Seq(Records),
         pc' \in {"idle", "manager", "sync", "reconcile", "status", "failstatus", "uninstall",
                  "purge", "wait"}
  PROVE  HistInv'
  BY DEF HistInv, Flow, Recorded

\* What is known at a step that stays where it is.
LEMMA HistSame ==
  ASSUME HistInv, UNCHANGED <<pc, need, hist>>, bounds'.records = 0 => bounds.records = 0
  PROVE  HistInv'
  BY DEF HistInv, Flow, Recorded, Released

\* A release is begun.
LEMMA Beginning ==
  ASSUME hist \in Seq(Records), NEW man \in Manifests, hist' = Created(man), pc' = "apply",
         need' = "install" => hist = <<>>,
         need' # "install" => hist # <<>>,
         need' = "undo" /\ bounds'.records = 0 => ~hist[Len(hist)].deployed
  PROVE  HistInv'
<1>1. /\ hist' \in Seq(Records) /\ Len(hist') = Len(hist) + 1 /\ hist' # <<>>
      /\ \A i \in 1 .. Len(hist) : hist'[i] = hist[i]
      /\ ~hist'[Len(hist) + 1].deployed
      /\ Deploys(hist') <=> Released
  BY Appending
<1>2. Len(hist) \in Nat /\ (hist # <<>> <=> Len(hist) > 0) /\ DOMAIN hist = 1 .. Len(hist)
  BY RecordsAre
<1>3. need' = "install" => ~Released'
  <2>1. hist = <<>> => ~Released
    BY <1>2 DEF Released
  <2>2. Released' => Released
    BY <1>1 DEF Deploys, Released
  <2> QED BY <2>1, <2>2
<1>4. ~hist'[Len(hist')].deployed
  BY <1>1
<1>5. need' # "install" => Len(hist') >= 2
  BY <1>1, <1>2
<1>6. need' = "undo" /\ bounds'.records = 0 => ~hist'[Len(hist') - 1].deployed
  <2>1. ASSUME need' = "undo", bounds'.records = 0 PROVE ~hist'[Len(hist') - 1].deployed
    <3>1. Len(hist) \in 1 .. Len(hist) /\ Len(hist') - 1 = Len(hist)
      BY <1>1, <1>2, <2>1
    <3> QED BY <1>1, <2>1, <3>1
  <2> QED BY <2>1
<1>7. Recorded' \/ bounds'.records # 0
  BY <1>6 DEF Recorded
<1>8. Flow'
  BY <1>1, <1>3, <1>4, <1>5, <1>7 DEF Flow
<1> QED BY <1>1, <1>8 DEF HistInv

\* The release that Reconcile makes.
LEMMA AskedManifest ==
  ASSUME CopyInv, pc # "idle"
  PROVE  Manifest(o.spec) \in Manifests
<1>1. o.spec \in Contents
  BY DEF CopyInv, Path, Versions
<1> QED BY <1>1, ManifestType

\* Records that are deleted, the oldest first.
LEMMA DeletedRecords ==
  ASSUME hist \in Seq(Records), NEW k \in 0 .. Len(hist)
  PROVE  SubSeq(hist, k + 1, Len(hist)) \in Seq(Records)
<1>1. PICK m \in Int : m = k + 1
  OBVIOUS
<1>2. Len(hist) \in Nat /\ \A i \in 1 .. Len(hist) : hist[i] \in Records
  BY RecordsAre
<1>3. \A i \in m .. Len(hist) : hist[i] \in Records
  BY <1>1, <1>2
<1>4. SubSeq(hist, m, Len(hist)) \in Seq(Records)
  BY <1>2, <1>3, SubSeqProperties
<1> QED BY <1>1, <1>4

\* Sync knows whether there is a release.
LEMMA SyncKnows ==
  ASSUME CopyInv, LocalInv, HistInv, Sync
  PROVE  HistInv'
<1>1. /\ hist' = hist /\ hist \in Seq(Records) /\ Stale = {} /\ bounds' = bounds
      /\ rel' \in IF hist = <<>> THEN {None} ELSE {hist[i].manifest : i \in DOMAIN hist}
      /\ need' = IF rel' = None THEN "install"
                 ELSE IF rel' # Manifest(o.spec) THEN "update" ELSE "reconcile"
      /\ pc' = IF need' = "install" \/ o.finalizer THEN need' ELSE "addfinalizer"
  BY DEF Sync, HistInv, Goto, cluster
<1>2. /\ DOMAIN hist = 1 .. Len(hist) /\ Len(hist) \in Nat /\ (hist # <<>> <=> Len(hist) > 0)
      /\ \A i \in 1 .. Len(hist) : hist[i].manifest \in Manifests
  BY <1>1, RecordsAre
<1>3. need' = "install" <=> hist = <<>>
  BY <1>1, <1>2, HelmAssumption
<1>4. hist # <<>> => Released
  <2>1. ASSUME hist # <<>> PROVE Released
    <3>1. 1 \in DOMAIN hist
      BY <1>2, <2>1
    <3>2. hist[1].deployed
      BY <1>1, <3>1 DEF Stale
    <3> QED BY <3>1, <3>2 DEF Released
  <2> QED BY <2>1
<1>5. pc' = "addfinalizer" => Released'
  BY <1>1, <1>3, <1>4 DEF Released
<1>6. /\ pc' \in {"install", "update", "reconcile", "addfinalizer"}
      /\ pc' = "install" => hist = <<>>
      /\ pc' = "update" \/ pc' = "addfinalizer" => hist # <<>>
  BY <1>1, <1>3
<1> QED BY <1>1, <1>5, <1>6 DEF HistInv, Flow, Recorded

\* The last step of a release; the records are those of before.
LEMMA Finishing ==
  ASSUME hist' \in Seq(Records), Succeed, bounds'.records = 0 => Released'
  PROVE  HistInv'
  BY DEF Succeed, Goto, HistInv, Flow, Recorded

\* The actions on Reconcile's own state keep what is known of the storage.
LEMMA HistKept ==
  ASSUME CopyInv, LocalInv, HistInv, bounds \in Bounds, Internal
  PROVE  HistInv'
<1> USE DEF Goto, Return, ReturnError
<1>h. /\ hist \in Seq(Records) /\ Len(hist) \in Nat /\ (hist # <<>> <=> Len(hist) > 0)
      /\ DOMAIN hist = 1 .. Len(hist) /\ <<>> \in Seq(Records)
      /\ \A i \in 1 .. Len(hist) : hist[i].manifest \in Manifests
  BY RecordsAre, EmptySeq DEF HistInv
<1>l. pc = "install" => need = "install"
  BY DEF LocalInv
<1>n. /\ pc = "update" => need = "update"
      /\ pc \in {"rollback", "supersede"} => need # "install"
  BY DEF LocalInv
<1>f. Fault => bounds'.records = bounds.records
  BY Counting
<1>r. RecordLost => bounds'.records # 0
  BY Counting
<1>u. hist' = hist => hist' \in Seq(Records)
  BY <1>h
<1>m. pc # "idle" => Manifest(o.spec) \in Manifests
  BY AskedManifest
<1>c. \A man \in Manifests : Created(man) \in Seq(Records)
  BY <1>h, Appending
<1>s. ASSUME NEW i \in 1 .. Len(hist)
      PROVE  Superseded(i) \in Seq(Records) /\ Len(Superseded(i)) = Len(hist)
  BY <1>h, Marking DEF Superseded
<1>1. CASE NewManager
  BY <1>1, <1>u, HistAnywhere DEF NewManager, cluster
<1>2. CASE FailPlain
  BY <1>2, <1>u, HistAnywhere DEF FailPlain, cluster
<1>3. CASE RemoveStale
  <2>1. PICK i \in Stale : hist' = RemoveAt(hist, i)
    BY <1>3 DEF RemoveStale
  <2>2. hist' \in Seq(Records)
    BY <2>1, <1>h, Removing DEF Stale
  <2>3. pc' = "sync"
    BY <1>3 DEF RemoveStale
  <2> QED BY <2>2, <2>3, HistAnywhere
<1>4. CASE Sync
  BY <1>4, SyncKnows
<1>5. CASE SyncFails \/ SyncRefused \/ InstallRefused
  BY <1>5, <1>u, HistAnywhere DEF SyncFails, SyncRefused, InstallRefused, cluster
<1>6. CASE InstallRelease \/ UpdateRelease
  <2>1. hist' = Created(Manifest(o.spec)) /\ pc' = "apply" /\ need' = need
    BY <1>6 DEF InstallRelease, UpdateRelease, local
  <2>2. CASE InstallRelease
    <3>1. pc = "install" /\ need = "install" /\ hist = <<>>
      BY <2>2, <1>l DEF InstallRelease, HistInv, Flow
    <3> QED BY <2>1, <3>1, <1>h, <1>m, Beginning
  <2>3. CASE UpdateRelease
    <3>1. pc = "update" /\ need = "update" /\ hist # <<>>
      BY <2>3, <1>n DEF UpdateRelease, HistInv, Flow
    <3> QED BY <2>1, <3>1, <1>h, <1>m, Beginning
  <2> QED BY <1>6, <2>2, <2>3
<1>7. CASE ReleaseFailsEarly
  <2>1. CASE hist' \in {hist} \cup (IF pc = "update" THEN {Created(Manifest(o.spec))} ELSE {})
             /\ pc' = "failstatus"
    <3>1. hist' \in Seq(Records)
      BY <2>1, <1>7, <1>h, <1>m, <1>c DEF ReleaseFailsEarly
    <3> QED BY <2>1, <3>1, HistAnywhere
  <2>2. CASE pc = "install" /\ hist' = Created(Manifest(o.spec)) /\ pc' = "uninstallfailed"
    <3>1. hist = <<>>
      BY <2>2 DEF HistInv, Flow
    <3>2. ~Released
      BY <3>1, <1>h DEF Released
    <3>3. ~Deploys(hist') /\ hist' \in Seq(Records)
      BY <2>2, <3>2, <1>h, <1>m, Appending
    <3> QED BY <2>2, <3>3 DEF HistInv, Flow, Recorded, Released, Deploys
  <2> QED BY <1>7, <2>1, <2>2 DEF ReleaseFailsEarly
<1>8. CASE Apply
  <2>1. /\ hist' = hist /\ need' = need /\ pc = "apply"
        /\ pc' = IF need = "install" THEN "promote" ELSE "supersede"
    BY <1>8 DEF Apply, local
  <2> QED BY <2>1 DEF HistInv, Flow, Recorded
<1>9. CASE ApplyFails
  <2>1. CASE need = "undo"
    <3>1. pc = "apply" /\ pc' = "failstatus" /\ hist' \in {hist, Superseded(Len(hist) - 1)}
      BY <2>1, <1>9 DEF ApplyFails
    <3>2. Len(hist) >= 2
      BY <2>1, <3>1 DEF HistInv, Flow
    <3>3. Len(hist) - 1 \in 1 .. Len(hist)
      BY <3>2, <1>h
    <3>4. Superseded(Len(hist) - 1) \in Seq(Records)
      BY <3>3, <1>s
    <3> QED BY <3>1, <3>4, <1>h, HistAnywhere
  <2>2. CASE need # "undo"
    <3>1. /\ pc = "apply" /\ hist' = hist /\ need' = need
          /\ pc' = IF need = "install" THEN "uninstallfailed" ELSE "rollback"
      BY <2>2, <1>9 DEF ApplyFails, local
    <3> QED BY <3>1 DEF HistInv, Flow, Recorded, Released
  <2> QED BY <2>1, <2>2
<1>10. CASE UninstallFailed
  <2>1. pc = "uninstallfailed" /\ pc' = "purgefailed" /\ hist' = hist
    BY <1>10 DEF UninstallFailed
  <2> QED BY <2>1 DEF HistInv, Flow, Recorded, Released
<1>11. CASE PurgeFailed \/ UninstallFailedFails
  BY <1>11, <1>h, HistAnywhere DEF PurgeFailed, UninstallFailedFails
<1>12. CASE Rollback
  <2>1. /\ pc = "rollback" /\ hist' = Created(hist[Len(hist) - 1].manifest) /\ pc' = "apply"
        /\ need' = "undo" /\ bounds' = bounds
    BY <1>12 DEF Rollback
  <2>2. Len(hist) >= 2 /\ (bounds.records = 0 => ~hist[Len(hist)].deployed)
    BY <2>1 DEF HistInv, Flow, Recorded
  <2>3. hist[Len(hist) - 1].manifest \in Manifests
    BY <2>2, <1>h
  <2> QED BY <2>1, <2>2, <2>3, <1>h, Beginning
<1>13. CASE RollbackFails
  <2>1. /\ pc = "rollback" /\ pc' = "failstatus"
        /\ hist' \in {hist, Created(hist[Len(hist) - 1].manifest)}
    BY <1>13 DEF RollbackFails
  <2>2. hist[Len(hist) - 1].manifest \in Manifests
    BY <2>1, <1>h DEF HistInv, Flow
  <2> QED BY <2>1, <2>2, <1>h, <1>c, HistAnywhere
<1>14. CASE SupersedeOld \/ SupersedeFails
  <2>1. /\ pc = "supersede"
        /\ (pc' = "failstatus" /\ hist' = hist) \/ (pc' = "promote" /\ need' = need)
    BY <1>14 DEF SupersedeOld, SupersedeFails, local
  <2>2. Len(hist) >= 2 /\ need # "install"
    BY <2>1, <1>n DEF HistInv, Flow
  <2>3. hist' \in Seq(Records) /\ Len(hist') = Len(hist)
    <3>1. CASE hist' = hist
      BY <3>1, <1>h
    <3>2. CASE \E i \in DOMAIN hist : hist' = Superseded(i)
      BY <3>2, <1>h, <1>s
    <3>3. CASE hist' = AllSuperseded
      BY <3>3, <1>h, MarkingAll DEF AllSuperseded
    <3>4. ASSUME NEW kept, hist' = [i \in DOMAIN hist |->
                   [hist[i] EXCEPT !.deployed = @ /\ (need = "update" \/ i \in kept)]]
          PROVE  hist' \in Seq(Records) /\ Len(hist') = Len(hist)
      <4>1. \A i \in DOMAIN hist : \E d \in BOOLEAN :
              hist'[i] = [hist[i] EXCEPT !.deployed = d]
        <5>1. \A i \in DOMAIN hist : (hist[i].deployed /\ (need = "update" \/ i \in kept)) \in BOOLEAN
          OBVIOUS
        <5> QED BY <3>4, <5>1
      <4> QED BY <3>4, <4>1, <1>h, MarkingAll
    <3> QED BY <1>14, <3>1, <3>2, <3>3, <3>4 DEF SupersedeOld, SupersedeFails
  <2>4. hist' # <<>>
    BY <2>2, <2>3, RecordsAre
  <2> QED BY <2>1, <2>2, <2>3, <2>4 DEF HistInv, Flow, Recorded
<1>15. CASE Promote \/ PromoteFails
  <2>1. pc = "promote" /\ hist' \in {hist, Mark(hist, Len(hist), TRUE)} /\ hist # <<>>
    BY <1>15 DEF Promote, PromoteFails, HistInv, Flow
  <2>2. hist' \in Seq(Records) /\ Len(hist') = Len(hist)
    <3>1. Len(hist) \in 1 .. Len(hist)
      BY <2>1, <1>h
    <3>2. Mark(hist, Len(hist), TRUE) \in Seq(Records) /\ Len(Mark(hist, Len(hist), TRUE)) = Len(hist)
      BY <3>1, <1>h, Marking
    <3> QED BY <2>1, <3>2, <1>h
  <2>3. bounds'.records = 0 => Released'
    <3>1. bounds'.records = 0 => Promote
      BY <1>15, <1>r DEF PromoteFails
    <3>2. Promote => Deploys(hist')
      <4>1. Promote => hist' = Mark(hist, Len(hist), TRUE)
        BY DEF Promote
      <4>2. Len(hist) \in 1 .. Len(hist)
        BY <2>1, <1>h
      <4>3. Deploys(Mark(hist, Len(hist), TRUE))
        BY <4>2, <1>h, Marking
      <4> QED BY <4>1, <4>3
    <3> QED BY <3>1, <3>2 DEF Released, Deploys
  <2>4. CASE Succeed
    BY <2>2, <2>3, <2>4, Finishing
  <2>5. CASE pc' = "failstatus"
    BY <2>2, <2>5, HistAnywhere
  <2>6. CASE PromoteFails /\ need = "update" /\ pc' = "rollback"
    <3>1. Len(hist) >= 2
      BY <2>1, <2>6 DEF HistInv, Flow
    <3>2. bounds'.records # 0
      BY <2>6, <1>r DEF PromoteFails
    <3> QED BY <2>2, <2>6, <3>1, <3>2 DEF HistInv, Flow
  <2> QED BY <1>15, <2>4, <2>5, <2>6 DEF Promote, PromoteFails
<1>16. CASE ReconcileRelease \/ ReconcileReleaseFails
  BY <1>16, <1>u, HistAnywhere DEF ReconcileRelease, ReconcileReleaseFails
<1>17. CASE UninstallRelease
  <2>1. CASE hist = <<>>
    <3>1. pc' = "delstatus" /\ hist' = <<>>
      BY <2>1, <1>17 DEF UninstallRelease
    <3> QED BY <3>1, <1>h DEF HistInv, Flow, Recorded
  <2>2. CASE hist # <<>>
    <3>1. hist' \in {hist, Superseded(Len(hist))} /\ pc' = "purge"
      BY <2>2, <1>17 DEF UninstallRelease, Uninstalling
    <3>2. hist' \in Seq(Records)
      <4>1. Len(hist) \in 1 .. Len(hist)
        BY <2>2, <1>h
      <4> QED BY <3>1, <4>1, <1>h, <1>s
    <3> QED BY <3>1, <3>2, HistAnywhere
  <2> QED BY <2>1, <2>2
<1>18. CASE Purge
  <2>1. pc' = "delstatus" /\ hist' = <<>>
    BY <1>18 DEF Purge
  <2> QED BY <2>1, <1>h DEF HistInv, Flow, Recorded
<1>19. CASE UninstallFails
  <2>1. Uninstalling \in Seq(Records)
    <3>1. hist # <<>> => Len(hist) \in 1 .. Len(hist)
      BY <1>h
    <3>2. hist # <<>> => Superseded(Len(hist)) \in Seq(Records)
      BY <3>1, <1>s
    <3> QED BY <3>2, <1>h DEF Uninstalling
  <2>2. \A k \in 0 .. Len(hist) : SubSeq(hist, k + 1, Len(hist)) \in Seq(Records)
    BY <1>h, DeletedRecords
  <2>3. hist' \in Seq(Records) /\ pc' = "failstatus"
    BY <2>1, <2>2, <1>19 DEF UninstallFails
  <2> QED BY <2>3, HistAnywhere
<1>20. CASE WaitForDeletion
  BY <1>20, <1>u, HistAnywhere DEF WaitForDeletion, cluster
<1> QED BY <1>1, <1>2, <1>3, <1>4, <1>5, <1>6, <1>7, <1>8, <1>9, <1>10, <1>11, <1>12, <1>13,
           <1>14, <1>15, <1>16, <1>17, <1>18, <1>19, <1>20 DEF Internal

\* Every step keeps what is known of helm's storage.
LEMMA HistInvKept ==
  ASSUME CopyInv, LocalInv, HistInv, bounds \in Bounds, [Next]_vars
  PROVE  HistInv'
<1>1. CASE Internal
  BY <1>1, HistKept
<1>f. Fault => bounds'.records = bounds.records
  BY Counting
<1>2. CASE Reconcile
  <2>1. hist' = hist /\ (pc' = "manager" \/ UNCHANGED <<pc, need>>)
        /\ (bounds' = bounds \/ bounds'.records = bounds.records)
    BY <1>2, <1>f DEF Reconcile, Goto
  <2> QED BY <2>1, HistSame, HistAnywhere DEF HistInv
<1>3. CASE Writes
  <2>1. hist' = hist
    BY <1>3, WriteMoves
  <2>2. CASE pc' \in {"idle", "status", "reconcile", "wait"}
    BY <2>1, <2>2, HistAnywhere DEF HistInv
  <2>3. CASE /\ pc = "addfinalizer" /\ need # "install" /\ pc' = "update"
    BY <2>1, <2>3 DEF HistInv, Flow, Recorded
  <2>4. CASE pc = "delstatus" /\ pc' = "delfinalizer"
    BY <2>1, <2>4 DEF HistInv, Flow, Recorded
  <2>5. \/ pc' \in {"idle", "status", "reconcile", "wait"}
        \/ pc = "addfinalizer" /\ need # "install" /\ pc' = "update"
        \/ pc = "delstatus" /\ pc' = "delfinalizer"
    BY <1>3 DEF Writes, AddFinalizer, UpdateStatus, UpdateFailStatus, UpdateDeletedStatus,
       RemoveFinalizer, Return, Goto, LocalInv
  <2> QED BY <2>2, <2>3, <2>4, <2>5
<1>4. CASE UserStep \/ Deliver \/ CollectGarbage \/ UNCHANGED vars
  <2>1. UNCHANGED <<pc, need, hist>> /\ (Edited \/ UNCHANGED bounds)
    BY <1>4 DEF UserStep, CreateCR, EditCR, DeleteCR, Drift, Deliver, CollectGarbage, vars, local,
       cluster
  <2>2. bounds'.records = 0 => bounds.records = 0
    BY <2>1, Counting
  <2> QED BY <2>1, <2>2, HistSame
<1>5. CASE Crash
  <2>1. hist' = hist /\ pc' = "idle"
    BY <1>5 DEF Crash, Goto
  <2> QED BY <2>1, HistAnywhere DEF HistInv
<1> QED BY <1>1, <1>2, <1>3, <1>4, <1>5 DEF Next, ReconcileStep, FaultStep, Internal, Writes

-----------------------------------------------------------------------------
(* The release under the finalizer *)

\* While nobody deletes the CR, Reconcile keeps the release deployed.
LEMMA ReleasedKept ==
  ASSUME CopyInv, LocalInv, AgeInv, HistInv, KeptInv, bounds \in Bounds, Internal, Sheltered'
  PROVE  Released' \/ pc' = "promote"
<1> USE DEF Goto, Return, ReturnError
<1>h. /\ hist \in Seq(Records) /\ Len(hist) \in Nat /\ (hist # <<>> <=> Len(hist) > 0)
      /\ DOMAIN hist = 1 .. Len(hist)
      /\ \A i \in 1 .. Len(hist) : hist[i].manifest \in Manifests
  BY RecordsAre DEF HistInv
<1>b. bounds.records = 0 /\ bounds.crashes = 0 /\ ~RecordLost
  <2>1. [Next]_vars
    BY DEF Internal, Next, ReconcileStep, FaultStep
  <2>2. bounds'.records = 0 /\ bounds'.crashes = 0
    BY DEF Sheltered
  <2>3. ~RecordLost /\ ~Trouble("crashes")
    BY <2>2, Counting
  <2> QED BY <2>1, <2>2, <2>3, Counted, Counting
<1>c. cr' = cr /\ cr.finalizer /\ ~cr.deleting
  BY InternalKeeps DEF Calm, server, Sheltered, HistInv
<1>k. Released \/ pc = "promote"
  BY <1>b, <1>c DEF Sheltered, KeptInv
<1>r. Recorded
  BY <1>b DEF HistInv, Flow
<1>o. pc \notin {"uninstall", "purge"}
  <2>1. ASSUME pc \in {"uninstall", "purge"} PROVE FALSE
    <3>1. o.exists /\ o.deleting
      BY <2>1 DEF CopyInv, Path
    <3>2. o.uid = cr.uid /\ cr.exists
      BY <2>1, <1>c, CopyTypes DEF AgeInv
    <3> QED BY <3>1, <3>2, <1>c DEF AgeInv, OlderThan
  <2> QED BY <2>1
<1>u. pc \notin {"uninstallfailed", "purgefailed"} /\ ~(pc = "apply" /\ need = "install")
  BY <1>k DEF HistInv, Flow
<1>s. pc # "promote" /\ hist' = hist => Released'
  BY <1>k DEF Released
<1>a. \A man \in Manifests : Deploys(Created(man)) <=> Released
  BY <1>h, Appending
<1>d. Released <=> Deploys(hist)
  BY DEF Released, Deploys
<1>e. Released' <=> Deploys(hist')
  BY DEF Released, Deploys
<1>m. pc # "idle" => Manifest(o.spec) \in Manifests
  BY AskedManifest
<1>1. CASE NewManager \/ FailPlain \/ SyncFails \/ SyncRefused \/ Sync \/ InstallRefused
           \/ ReconcileRelease \/ ReconcileReleaseFails \/ WaitForDeletion
  BY <1>1, <1>s DEF NewManager, FailPlain, SyncFails, SyncRefused, Sync, InstallRefused,
     ReconcileRelease, ReconcileReleaseFails, WaitForDeletion, cluster
<1>2. CASE RemoveStale
  <2>1. PICK i \in Stale : hist' = RemoveAt(hist, i)
    BY <1>2 DEF RemoveStale
  <2>2. pc # "promote" /\ i \in 1 .. Len(hist) /\ ~hist[i].deployed
    BY <1>2, <1>h DEF RemoveStale, Stale
  <2>3. Deploys(hist')
    BY <2>1, <2>2, <1>h, <1>k, <1>d, Removing
  <2> QED BY <2>3, <1>e
<1>3. CASE InstallRelease \/ UpdateRelease \/ ReleaseFailsEarly
  <2>1. pc \in {"install", "update"} /\ hist' \in {hist, Created(Manifest(o.spec))}
    BY <1>3 DEF InstallRelease, UpdateRelease, ReleaseFailsEarly
  <2> QED BY <2>1, <1>a, <1>d, <1>e, <1>k, <1>m
<1>4. CASE Apply
  BY <1>4, <1>s DEF Apply
<1>5. CASE ApplyFails
  <2>1. CASE need = "undo"
    <3>1. pc = "apply" /\ hist' \in {hist, Superseded(Len(hist) - 1)}
      BY <2>1, <1>5 DEF ApplyFails
    <3>2. Len(hist) >= 2
      BY <2>1, <3>1 DEF HistInv, Flow
    <3>3. Len(hist) - 1 \in 1 .. Len(hist)
      BY <3>2, <1>h
    <3>4. ~hist[Len(hist) - 1].deployed
      BY <2>1, <3>1, <1>r DEF Recorded
    <3>5. Deploys(Superseded(Len(hist) - 1))
      BY <3>1, <3>3, <3>4, <1>d, <1>h, <1>k, Marking DEF Superseded
    <3> QED BY <3>1, <3>5, <1>d, <1>e, <1>k
  <2>2. CASE need # "undo"
    BY <2>2, <1>5, <1>s DEF ApplyFails, local
  <2> QED BY <2>1, <2>2
<1>6. CASE UninstallFailed \/ PurgeFailed \/ UninstallFailedFails
  BY <1>6, <1>u DEF UninstallFailed, PurgeFailed, UninstallFailedFails
<1>7. CASE Rollback \/ RollbackFails
  <2>1. pc = "rollback" /\ hist' \in {hist, Created(hist[Len(hist) - 1].manifest)}
    BY <1>7 DEF Rollback, RollbackFails
  <2>2. hist[Len(hist) - 1].manifest \in Manifests
    BY <2>1, <1>h DEF HistInv, Flow
  <2> QED BY <2>1, <2>2, <1>a, <1>d, <1>e, <1>k
<1>8. CASE SupersedeOld \/ SupersedeFails
  BY <1>8, <1>b, <1>s DEF SupersedeOld, SupersedeFails
<1>9. CASE Promote \/ PromoteFails
  <2>1. pc = "promote" /\ hist' = Mark(hist, Len(hist), TRUE)
    BY <1>9, <1>b DEF Promote, PromoteFails
  <2>2. Len(hist) \in 1 .. Len(hist)
    BY <2>1, <1>h DEF HistInv, Flow
  <2>3. Deploys(Mark(hist, Len(hist), TRUE))
    BY <2>2, <1>h, Marking
  <2> QED BY <2>1, <2>3, <1>e
<1>10. CASE UninstallRelease \/ Purge \/ UninstallFails
  BY <1>10, <1>o DEF UninstallRelease, Purge, UninstallFails
<1> QED BY <1>1, <1>2, <1>3, <1>4, <1>5, <1>6, <1>7, <1>8, <1>9, <1>10 DEF Internal

\* Every step does: only a step that finds a release applies the finalizer.
LEMMA ShelterKept ==
  ASSUME CopyInv, LocalInv, AgeInv, HistInv, KeptInv, bounds \in Bounds, [Next]_vars
  PROVE  KeptInv'
<1> SUFFICES ASSUME Sheltered' PROVE Released' \/ pc' = "promote"
  BY DEF KeptInv
<1>b. bounds'.records = 0 /\ bounds'.crashes = 0
  BY DEF Sheltered
<1>1. bounds.records = 0 /\ bounds.crashes = 0 /\ ~Crash
  <2>1. ~RecordLost /\ ~Trouble("crashes")
    BY <1>b, Counting
  <2> QED BY <1>b, <2>1, Counted, Counting DEF Crash
<1>2. CASE Internal
  BY <1>2, ReleasedKept
<1>3. CASE ~Internal
  <2>1. hist' = hist /\ (pc' = pc \/ pc # "promote")
    BY <1>1, <1>3 DEF Internal, Next, ReconcileStep, FaultStep, UserStep, Reconcile, AddFinalizer,
       UpdateStatus, UpdateFailStatus, UpdateDeletedStatus, RemoveFinalizer, CreateCR, EditCR,
       DeleteCR, Drift, Deliver, CollectGarbage, vars, cluster
  <2>2. Released' <=> Released
    BY <2>1 DEF Released
  <2>3. CASE cr.finalizer /\ ~cr.deleting
    BY <2>1, <2>2, <2>3, <1>1 DEF KeptInv, Sheltered
  <2>4. CASE AddFinalizer
    <3>1. pc = "addfinalizer" /\ Recorded
      BY <2>4, <1>1 DEF AddFinalizer, HistInv, Flow
    <3> QED BY <3>1, <2>2 DEF Recorded
  <2>5. ASSUME ~AddFinalizer, ~(cr.finalizer /\ ~cr.deleting) PROVE FALSE
    <3>1. FinalizerMoves \/ cr' = cr
      <4>1. CASE Writes
        BY <4>1, WriteMoves
      <4>2. CASE Users
        BY <4>2, UserMoves
      <4>3. CASE ~Writes /\ ~Users
        BY <4>3, <1>1, <1>3 DEF Internal, Writes, Users, Next, ReconcileStep, FaultStep, UserStep,
           Reconcile, Drift, Deliver, CollectGarbage, vars, server
      <4> QED BY <4>1, <4>2, <4>3
    <3> QED BY <2>5, <3>1 DEF FinalizerMoves, Sheltered
  <2> QED BY <2>3, <2>4, <2>5
<1> QED BY <1>2, <1>3

-----------------------------------------------------------------------------
(* The rest of the state *)

LiveInv == queued \in BOOLEAN /\ live \in Lives /\ ns \in NamespaceLabels /\ bounds \in Bounds

\* The resources and the labels of the namespace keep their types.
LEMMA LiveKept ==
  ASSUME CopyInv, LocalInv, HistInv, LiveInv, [Next]_vars
  PROVE  LiveInv'
<1>l. /\ live \in Lives /\ live.is \in Manifests \cup {None, Mixed} /\ live.stray \in BOOLEAN
      /\ live.uid \in 0 .. MaxUid
  BY DEF LiveInv, Lives
<1>o. o.uid \in 0 .. MaxUid
  BY DEF CopyInv, Versions, CRs
<1>r. \A man \in Manifests \cup {None, Mixed} : Resources(man) \in Lives
  BY <1>l, <1>o DEF Resources, Lives
<1>s. \A l \in Lives : Strayed(l) \in Lives
  BY DEF Strayed, Lives
<1>g. Gone \in Lives /\ Half \in Lives /\ Deleted \in Lives
  BY <1>l, HelmAssumption DEF Gone, Half, Deleted, Lives
<1>m. rel \in Manifests \cup {None, Mixed}
  BY DEF LocalInv, Reported
<1>b. bounds' \in Bounds
  BY Counted, Counting DEF LiveInv, Crash
<1>q. queued' \in BOOLEAN
  <2>1. cr.exists \in BOOLEAN /\ cache.exists \in BOOLEAN /\ queued \in BOOLEAN
    BY CopyTypes DEF LiveInv
  <2> QED BY <2>1 DEF Next, ReconcileStep, FaultStep, UserStep, Return, ReturnError, Succeed,
     Reconcile, NewManager, RemoveStale, Sync, SyncRefused, InstallRefused, InstallRelease,
     UpdateRelease, Apply, ApplyFails, UninstallFailed, PurgeFailed, Rollback, SupersedeOld,
     Promote, ReconcileRelease, AddFinalizer, UpdateStatus, UpdateFailStatus, UninstallRelease,
     Purge, UpdateDeletedStatus, RemoveFinalizer, WaitForDeletion, FailPlain, SyncFails,
     ReleaseFailsEarly, UninstallFailedFails, RollbackFails, SupersedeFails, PromoteFails,
     ReconcileReleaseFails, UninstallFails, Crash, CreateCR, EditCR, DeleteCR, Drift, Deliver,
     CollectGarbage, vars
<1>n. ns' \in NamespaceLabels
  <2>1. CASE Reconcile
    <3>1. cache.exists => cache.spec \in Contents
      BY DEF CopyInv, ServerInv, Versions
    <3>2. cache.exists => [istioEnv |-> SetupIstioEnv(cache.spec).istioEnv,
                           revision |-> SetupIstioEnv(cache.spec).revision] \in NamespaceLabels
      BY <3>1, ManifestType
    <3> QED BY <2>1, <3>2 DEF Reconcile, LiveInv
  <2>2. CASE ~Reconcile
    <3>1. ns' = ns
      BY <2>2 DEF Next, ReconcileStep, FaultStep, UserStep, cluster,
         NewManager, RemoveStale, Sync, SyncRefused, InstallRefused, InstallRelease,
         UpdateRelease, Apply, ApplyFails, UninstallFailed, PurgeFailed, Rollback, SupersedeOld,
         Promote, ReconcileRelease, AddFinalizer, UpdateStatus, UpdateFailStatus, UninstallRelease,
         Purge, UpdateDeletedStatus, RemoveFinalizer, WaitForDeletion, FailPlain, SyncFails,
         ReleaseFailsEarly, UninstallFailedFails, RollbackFails, SupersedeFails, PromoteFails,
         ReconcileReleaseFails, UninstallFails, Crash, CreateCR, EditCR, DeleteCR, Drift, Deliver,
         CollectGarbage, vars
    <3> QED BY <3>1 DEF LiveInv
  <2> QED BY <2>1, <2>2
<1>1. live' \in Lives
  <2>1. CASE Apply
    <3>1. hist \in Seq(Records) /\ hist # <<>>
      BY <2>1 DEF Apply, HistInv, Flow
    <3>2. Len(hist) \in 1 .. Len(hist)
      BY <3>1, RecordsAre
    <3>3. hist[Len(hist)].manifest \in Manifests
      BY <3>1, <3>2, RecordsAre
    <3> QED BY <2>1, <3>3, <1>r DEF Apply
  <2>2. CASE ReconcileRelease \/ ReconcileReleaseFails
    BY <2>2, <1>l, <1>r, <1>m DEF ReconcileRelease, ReconcileReleaseFails
  <2>3. CASE ApplyFails
    <3>1. live' \in {Resources(Mixed), Strayed(Resources(Mixed))}
      BY <2>3 DEF ApplyFails
    <3>2. Resources(Mixed) \in Lives /\ Strayed(Resources(Mixed)) \in Lives
      BY <1>r, <1>s
    <3> QED BY <3>1, <3>2
  <2>4. CASE Crash
    <3>1. live' \in {live, Resources(Mixed), Strayed(Resources(Mixed)), Strayed(live), Half}
      BY <2>4 DEF Crash, CutOff
    <3>2. Resources(Mixed) \in Lives /\ Strayed(Resources(Mixed)) \in Lives /\ Strayed(live) \in Lives
      BY <1>l, <1>r, <1>s
    <3> QED BY <3>1, <3>2, <1>l, <1>g
  <2>5. CASE Drift \/ CollectGarbage
    BY <2>5, <1>l, <1>g DEF Drift, CollectGarbage, Lives
  <2>6. CASE ~(Apply \/ ReconcileRelease \/ ReconcileReleaseFails \/ ApplyFails \/ Crash
               \/ Drift \/ CollectGarbage)
    <3>1. live' \in {live, Half, Deleted, Strayed(live)}
      BY <2>6 DEF Next, ReconcileStep, FaultStep, UserStep, cluster,
         Reconcile, NewManager, RemoveStale, Sync, SyncRefused, InstallRefused, InstallRelease,
         UpdateRelease, UninstallFailed, PurgeFailed, Rollback, SupersedeOld,
         Promote, AddFinalizer, UpdateStatus, UpdateFailStatus, UninstallRelease,
         Purge, UpdateDeletedStatus, RemoveFinalizer, WaitForDeletion, FailPlain, SyncFails,
         ReleaseFailsEarly, UninstallFailedFails, RollbackFails, SupersedeFails, PromoteFails,
         UninstallFails, CreateCR, EditCR, DeleteCR, Deliver, vars
    <3> QED BY <3>1, <1>l, <1>g, <1>s
  <2> QED BY <2>1, <2>2, <2>3, <2>4, <2>5, <2>6
<1> QED BY <1>b, <1>q, <1>n, <1>1 DEF LiveInv

-----------------------------------------------------------------------------
(* Theorems *)

OperatorInv == CopyInv /\ LocalInv /\ AgeInv /\ HistInv /\ KeptInv /\ LiveInv

\* Every state of the operator has its invariant.
THEOREM OperatorInvariant == Spec => []OperatorInv
<1>1. Init => OperatorInv
  <2> SUFFICES ASSUME Init PROVE OperatorInv
    OBVIOUS
  <2>0. 0 \in 0 .. MaxUid /\ 0 \in 0 .. MaxEdits /\ 0 \in 0 .. MaxTroubles
    BY HelmAssumption
  <2>1. /\ watch = <<>> /\ watch \in Seq(Versions) /\ Len(watch) = 0 /\ hist = <<>>
        /\ hist \in Seq(Records)
    BY EmptySeq DEF Init
  <2>2. CopyInv
    BY <2>1, NoCRType DEF Init, CopyInv, ServerInv, Completed, Path
  <2>3. LocalInv
    BY EmptyStatusType DEF Init, LocalInv, Labels, Needs, Reported
  <2>4. AgeInv
    <3>1. 1 .. Len(watch) = {}
      BY <2>1
    <3>2. WatchAge
      BY <3>1 DEF WatchAge
    <3>3. cr = NoCR /\ cache = NoCR /\ o = NoCR
      BY DEF Init
    <3>4. NoCR.uid = 0 /\ NoCR.finalizer = FALSE /\ NoCR.exists = FALSE
      BY DEF NoCR
    <3> QED BY <3>2, <3>3, <3>4 DEF AgeInv, OlderThan
  <2>5. HistInv
    BY <2>1 DEF Init, HistInv, Flow, Recorded
  <2>6. KeptInv
    BY DEF Init, KeptInv, Sheltered, NoCR
  <2>7. LiveInv
    BY <2>0 DEF Init, LiveInv, Lives, Gone, NamespaceLabels, Texts, Bounds
  <2> QED BY <2>2, <2>3, <2>4, <2>5, <2>6, <2>7 DEF OperatorInv
<1>2. OperatorInv /\ [Next]_vars => OperatorInv'
  BY CopiesKept, HistInvKept, ShelterKept, LiveKept DEF OperatorInv, HistInv, LiveInv
<1> QED BY <1>1, <1>2, PTL DEF Spec

\* The variables have their types; every record in helm's storage has a manifest that
\* was rendered from complete values (manager.go Sync, InstallRelease).
THEOREM TypeCorrect == Spec => []TypeOK
<1>1. OperatorInv => TypeOK
  <2> SUFFICES ASSUME OperatorInv PROVE TypeOK
    OBVIOUS
  <2>1. Seq(Versions) \subseteq Seq(CRs)
    BY SeqMonotonic DEF Versions
  <2> QED BY <2>1 DEF OperatorInv, CopyInv, ServerInv, LocalInv, HistInv, LiveInv, Versions, TypeOK
<1> QED BY <1>1, OperatorInvariant, PTL

\* A CR whose status names a release has the finalizer (reconcile.go writes the
\* finalizer before that status, and removes the release from it first).
THEOREM ReportsAreGuarded == Spec => []ReportedIsGuarded
<1>1. OperatorInv => ReportedIsGuarded
  BY DEF OperatorInv, CopyInv, ServerInv, Versions, ReportedIsGuarded
<1> QED BY <1>1, OperatorInvariant, PTL

\* The finalizer is removed only when helm's storage is empty (reconcile.go's deletion
\* branch), through crashes, failures and copies of a lagging cache.
THEOREM FinalizerIsHonoured == Spec => FinalizerHonoured
<1>1. OperatorInv /\ [Next]_vars => [cr.finalizer /\ ~cr'.exists => hist = <<>>]_vars
  <2> SUFFICES ASSUME OperatorInv, [Next]_vars, cr.finalizer, ~cr'.exists PROVE hist = <<>>
    OBVIOUS
  <2> USE DEF OperatorInv
  <2>0. cr.exists
    BY CopyTypes
  <2>1. CASE Writes
    <3>1. RemoveFinalizer
      BY <2>1, WriteMoves
    <3> QED BY <3>1 DEF RemoveFinalizer, HistInv, Flow
  <2>2. CASE Users
    BY <2>2, UserMoves
  <2>3. CASE Internal
    BY <2>0, <2>3, InternalKeeps DEF Calm, server, HistInv
  <2>4. CASE ~Writes /\ ~Users /\ ~Internal
    <3>1. cr' = cr
      BY <2>4 DEF Internal, Writes, Users, Next, ReconcileStep, FaultStep, UserStep,
         Reconcile, Drift, Deliver, CollectGarbage, Crash, vars, server
    <3> QED BY <2>0, <3>1
  <2> QED BY <2>1, <2>2, <2>3, <2>4
<1> QED BY <1>1, OperatorInvariant, PTL DEF Spec, FinalizerHonoured

\* The operator's writes complete the labels and the revision of the spec they are
\* based on and take out the environment, but never undo an edit, and what the spec
\* asks for is the same release (reconcile.go updateResource, qz_ext.go).
THEOREM EditsAreKept == Spec => NoLostEdit
<1>1. OperatorInv /\ [Next]_vars =>
        [cr.exists /\ cr'.exists /\ cr'.uid = cr.uid /\ cr'.spec # cr.spec
           => \/ \E s \in Edits : EditCR(s)
              \/ /\ cr'.spec = WithoutIstioEnv(SetupIstioEnv(cr.spec))
                 /\ Manifest(cr'.spec) = Manifest(cr.spec)]_vars
  <2> SUFFICES ASSUME OperatorInv, [Next]_vars, cr.exists, cr'.exists, cr'.uid = cr.uid,
                      cr'.spec # cr.spec, ~(\E s \in Edits : EditCR(s))
               PROVE  /\ cr'.spec = WithoutIstioEnv(SetupIstioEnv(cr.spec))
                      /\ Manifest(cr'.spec) = Manifest(cr.spec)
    OBVIOUS
  <2> USE DEF OperatorInv
  <2>1. CASE Writes
    <3>1. cr'.spec = WithoutIstioEnv(SetupIstioEnv(cr.spec)) /\ cr.spec \in Contents
      BY <2>1, WriteMoves
    <3> QED BY <3>1, WrittenManifest
  <2>2. CASE Users
    BY <2>2, UserMoves
  <2>3. CASE Internal
    BY <2>3, InternalKeeps DEF Calm, server, HistInv
  <2>4. CASE ~Writes /\ ~Users /\ ~Internal
    BY <2>4 DEF Internal, Writes, Users, Next, ReconcileStep, FaultStep, UserStep,
       Reconcile, Drift, Deliver, CollectGarbage, Crash, vars, server
  <2> QED BY <2>1, <2>2, <2>3, <2>4
<1> QED BY <1>1, OperatorInvariant, PTL DEF Spec, NoLostEdit

\* The operator applies its finalizer only over a deployed release, and keeps one
\* deployed through failing updates and rollbacks (reconcile.go, manager.go and helm's
\* records), unless a record is lost or the operator crashes between two of them.
THEOREM FinalizerMeansDeployed == Spec => []FinalizerOnlyWhenDeployed
<1>1. OperatorInv => FinalizerOnlyWhenDeployed
  BY DEF OperatorInv, KeptInv, Sheltered, FinalizerOnlyWhenDeployed
<1> QED BY <1>1, OperatorInvariant, PTL
=============================================================================
