------------------------- MODULE ServiceWorkerProofs -------------------------
(* Proofs about ServiceWorker, for any number of tabs and releases. *)
EXTENDS ServiceWorker, TLAPS

\* What a navigation shows is a release or one of the browser's pages, and the
\* worker that answers it is one of a release.
LEMMA AnswerType ==
  ASSUME TypeOK, NEW what \in {"app", "other"}
  PROVE  Answer(what) \in 0 .. ErrorPage
<1>1. ErrorPage \in Nat /\ ServerPage \in 0 .. ErrorPage /\ Release \cup {None} \subseteq 0 .. ErrorPage
  BY ServiceWorkerAssumption DEF Release, None, ServerPage, ErrorPage
<1>2. active \in Release \cup {None} /\ deployed \in Release
  BY ServiceWorkerAssumption DEF TypeOK, Release
<1> QED
  BY <1>1, <1>2 DEF Answer

\* A tab that shows another page keeps the types: only a release has a script.
LEMMA ShowType ==
  ASSUME TypeOK, NEW t \in Tabs, NEW shown \in 0 .. ErrorPage, Show(t, shown)
  PROVE  /\ page' \in [Tabs -> 0 .. ErrorPage]
         /\ controlled' \in [Tabs -> BOOLEAN]
         /\ pc' \in [Tabs -> {"done", "load", "check", "register", "unregister", "remove", "reload"}]
         /\ look' \in BOOLEAN
         /\ \A s \in Tabs : page'[s] \notin Release => pc'[s] = "done"
BY DEF TypeOK, Show

\* A step of a script goes on in the page of a release.
LEMMA GotoType ==
  ASSUME TypeOK, NEW t \in Tabs, pc[t] # "done", UNCHANGED <<page, controlled>>,
         NEW label \in {"done", "check", "register", "remove", "reload"}, Goto(t, label)
  PROVE  /\ page' \in [Tabs -> 0 .. ErrorPage]
         /\ controlled' \in [Tabs -> BOOLEAN]
         /\ pc' \in [Tabs -> {"done", "load", "check", "register", "unregister", "remove", "reload"}]
         /\ \A s \in Tabs : page'[s] \notin Release => pc'[s] = "done"
BY DEF TypeOK, Goto

\* The registration holds releases that came with a worker, tabs show releases and
\* the browser's pages, and only the page of a release runs a script.
THEOREM TypeCorrect == Spec => []TypeOK
<1>1. Init => TypeOK
  <2> SUFFICES ASSUME Init PROVE TypeOK
    OBVIOUS
  <2>1. 1 \in Release /\ 0 \in 0 .. MaxOutages /\ 0 \in 0 .. MaxHurries /\ None \in 0 .. ErrorPage
    BY ServiceWorkerAssumption DEF Release, None, ErrorPage
  <2> QED
    BY <2>1 DEF Init, TypeOK
<1>2. TypeOK /\ [Next]_vars => TypeOK'
  <2> SUFFICES ASSUME TypeOK, [Next]_vars PROVE TypeOK'
    OBVIOUS
  <2> USE DEF net, workers, tab
  <2>1. CASE Deploy
    BY <2>1, ServiceWorkerAssumption DEF Deploy, TypeOK, Release
  <2>2. CASE GoOffline \/ GoOnline
    <3>1. (outages' = outages + 1 /\ outages < MaxOutages) \/ outages' = outages
      BY <2>2 DEF GoOffline, GoOnline
    <3>2. outages' \in 0 .. MaxOutages
      BY <3>1, ServiceWorkerAssumption DEF TypeOK
    <3>3. online' \in BOOLEAN
      BY <2>2 DEF GoOffline, GoOnline
    <3> QED
      BY <2>2, <3>2, <3>3 DEF GoOffline, GoOnline, TypeOK
  <2>3. ASSUME NEW t \in Tabs, NEW what \in {"app", "other"}, Navigate(t, what) PROVE TypeOK'
    <3>1. hurries' \in 0 .. MaxHurries
      BY <2>3, ServiceWorkerAssumption DEF Navigate, Patience, TypeOK
    <3> QED
      BY <2>3, <3>1, AnswerType, ShowType DEF Navigate, TypeOK
  <2>4. ASSUME NEW t \in Tabs, Close(t) PROVE TypeOK'
    <3>1. hurries' \in 0 .. MaxHurries
      BY <2>4, ServiceWorkerAssumption DEF Close, Patience, TypeOK
    <3>2. page' \in [Tabs -> 0 .. ErrorPage]
      BY <2>4, ServiceWorkerAssumption DEF Close, TypeOK, None, ErrorPage
    <3> QED
      BY <2>4, <3>1, <3>2 DEF Close, TypeOK
  <2>5. ASSUME NEW t \in Tabs, Load(t) \/ CheckValidServiceWorker(t) PROVE TypeOK'
    <3>1. PICK label \in {"check", "register", "done", "remove"} : Goto(t, label)
      BY <2>5 DEF Load, CheckValidServiceWorker
    <3> QED
      BY <2>5, <3>1, GotoType DEF Load, CheckValidServiceWorker, TypeOK
  <2>6. ASSUME NEW t \in Tabs, RegisterValidSW(t) PROVE TypeOK'
    <3>1. {installing', waiting', active'} \subseteq WithWorker \cup {None}
      BY <2>6 DEF RegisterValidSW, TypeOK
    <3> QED
      BY <2>6, <3>1, GotoType DEF RegisterValidSW, TypeOK
  <2>7. ASSUME NEW t \in Tabs, Unregister(t) PROVE TypeOK'
    <3>1. PICK label \in {"done", "reload"} : Goto(t, label)
      BY <2>7 DEF Unregister
    <3>2. {installing', waiting', active'} \subseteq WithWorker \cup {None}
      BY <2>7 DEF Unregister
    <3> QED
      BY <2>7, <3>1, <3>2, GotoType DEF Unregister, TypeOK
  <2>8. ASSUME NEW t \in Tabs, Reload(t) PROVE TypeOK'
    BY <2>8, AnswerType, ShowType DEF Reload, TypeOK
  <2>9. CASE LookForUpdate \/ Install
    BY <2>9 DEF LookForUpdate, Install, TypeOK
  <2>10. CASE Activate
    BY <2>10 DEF Activate, TypeOK
  <2>11. CASE UNCHANGED vars
    BY <2>11 DEF vars, TypeOK
  <2> QED
    BY <2>1, <2>2, <2>3, <2>4, <2>5, <2>6, <2>7, <2>8, <2>9, <2>10, <2>11 DEF Next, Script
<1> QED
  BY <1>1, <1>2, PTL DEF Spec
=============================================================================
