---------------------------- MODULE ServiceWorker ----------------------------
(***************************************************************************)
(* How a new release of the web front end reaches its users:               *)
(* registerServiceWorker.js, the call in index.tsx, and the generated      *)
(* service-worker.js, which answers navigations from its precache.         *)
(*                                                                         *)
(* The browser is external (Service Workers, W3C, and Workbox 4.3): one    *)
(* registration for the site with a worker being installed, one that waits *)
(* and one that is active.  A worker that waits becomes active when no     *)
(* page is controlled; a navigation to a site with an active worker is     *)
(* answered from its precache, and the browser then looks for a newer      *)
(* worker.  The model is of a production build, in a browser with service  *)
(* workers, with PUBLIC_URL on the same origin; otherwise nothing happens. *)
(***************************************************************************)
EXTENDS Naturals

CONSTANTS
  Tabs,         \* the tabs of one browser
  Releases,     \* how many releases there are
  Registering,  \* the releases whose index.tsx calls registerServiceWorker
  WithWorker,   \* the releases with a service-worker.js
  MaxOutages,   \* bound on the times the network fails
  MaxHurries    \* bound on the times a user does not wait

ASSUME ServiceWorkerAssumption ==
  /\ Releases \in Nat \ {0}
  /\ Registering \subseteq 1 .. Releases
  /\ WithWorker \subseteq 1 .. Releases
  /\ MaxOutages \in Nat /\ MaxHurries \in Nat

Release == 1 .. Releases

\* What a tab shows besides a release of the front end.
None == 0
ServerPage == Releases + 1
ErrorPage == Releases + 2

VARIABLES
  isLocalhost,  \* the site is on localhost
  deployed,     \* the release the server has
  online, outages,
  installing, waiting, active,   \* the workers of the registration, by release
  look,         \* the browser is about to look for a newer worker
  page,         \* page[t]: what tab t shows: a release or one of the above
  controlled,   \* controlled[t]: a worker answers for the page in t
  pc,           \* pc[t]: what the page's script does next
  hurries       \* times a user has not waited

vars == <<isLocalhost, deployed, online, outages, installing, waiting, active,
          look, page, controlled, pc, hurries>>

workers == <<installing, waiting, active>>
net == <<isLocalhost, deployed, online, outages>>
tab == <<page, controlled, pc, hurries>>

\* The newest worker of the registration; None when nothing is registered.
Newest == IF installing # None THEN installing
          ELSE IF waiting # None THEN waiting ELSE active

Open == {t \in Tabs : page[t] # None}

Goto(t, label) == pc' = [pc EXCEPT ![t] = label]

Init ==
  /\ isLocalhost \in BOOLEAN
  /\ deployed = 1
  /\ online = TRUE /\ outages = 0
  /\ installing = None /\ waiting = None /\ active = None
  /\ look = FALSE
  /\ page = [t \in Tabs |-> None]
  /\ controlled = [t \in Tabs |-> FALSE]
  /\ pc = [t \in Tabs |-> "done"]
  /\ hurries = 0

-----------------------------------------------------------------------------
(* Around the browser *)

Deploy ==
  /\ deployed < Releases
  /\ deployed' = deployed + 1
  /\ UNCHANGED <<isLocalhost, online, outages, workers, look, tab>>

GoOffline ==
  /\ online /\ outages < MaxOutages
  /\ online' = FALSE /\ outages' = outages + 1
  /\ UNCHANGED <<isLocalhost, deployed, workers, look, tab>>

GoOnline ==
  /\ ~online
  /\ online' = TRUE
  /\ UNCHANGED <<isLocalhost, deployed, outages, workers, look, tab>>

-----------------------------------------------------------------------------
(* Navigation, and the worker's answers *)

\* What a navigation to the front end, or to a resource of the server, gives.  The
\* navigation route of service-worker.js answers both from the precached index.html.
Answer(what) ==
  IF active # None THEN active
  ELSE IF ~online THEN ErrorPage
  ELSE IF what = "app" THEN deployed ELSE ServerPage

\* The page in t is replaced by a new one; index.tsx runs when it is a release.
Show(t, shown) ==
  /\ page' = [page EXCEPT ![t] = shown]
  /\ controlled' = [controlled EXCEPT ![t] = active # None]
  /\ pc' = [pc EXCEPT ![t] =
              IF shown \notin Release THEN "done"
              ELSE IF shown \in Registering THEN "load" ELSE "unregister"]
  /\ look' = (look \/ active # None)

\* The page's script in t has something to do now.
Busy(t) ==
  \/ pc[t] \in {"load", "check", "register", "reload"}
  \/ pc[t] \in {"unregister", "remove"} /\ active # None

\* Users do not always wait for a script, or for a worker to take over once they
\* have closed all tabs.
Patience(t) ==
  IF Busy(t) \/ (Open = {} /\ waiting # None)
  THEN hurries < MaxHurries /\ hurries' = hurries + 1
  ELSE UNCHANGED hurries

\* A tab is opened, refreshed or sent to another address.
Navigate(t, what) ==
  /\ Patience(t)
  /\ Show(t, Answer(what))
  /\ UNCHANGED <<net, workers>>

Close(t) ==
  /\ t \in Open
  /\ Patience(t)
  /\ page' = [page EXCEPT ![t] = None]
  /\ controlled' = [controlled EXCEPT ![t] = FALSE]
  /\ pc' = [pc EXCEPT ![t] = "done"]
  /\ UNCHANGED <<net, workers, look>>

-----------------------------------------------------------------------------
(* registerServiceWorker.js, in the page of tab t *)

\* register: on "load", on localhost the script is looked for first.
Load(t) ==
  /\ pc[t] = "load"
  /\ Goto(t, IF isLocalhost THEN "check" ELSE "register")
  /\ UNCHANGED <<net, workers, look, page, controlled, hurries>>

\* Mutant: the answer is not looked at.
CheckNothing(t) ==
  /\ pc[t] = "check"
  /\ Goto(t, IF online THEN "register" ELSE "done")
  /\ UNCHANGED <<net, workers, look, page, controlled, hurries>>

\* Mutant: the page loads again without waiting for the removal.
CheckAndReload(t) ==
  /\ pc[t] = "check"
  /\ Goto(t, IF ~online THEN "done"
             ELSE IF deployed \in WithWorker THEN "register" ELSE "reload")
  /\ UNCHANGED <<net, workers, look, page, controlled, hurries>>

\* checkValidServiceWorker: when there is no script, the page waits for the
\* registration, removes it and loads again; offline, it leaves it.
CheckValidServiceWorker(t) ==
  /\ pc[t] = "check"
  /\ Goto(t, IF ~online THEN "done"
             ELSE IF deployed \in WithWorker THEN "register" ELSE "remove")
  /\ UNCHANGED <<net, workers, look, page, controlled, hurries>>

\* Mutant: whatever the server has at the script's address is registered.
RegisterAnySW(t) ==
  /\ pc[t] = "register"
  /\ Goto(t, "done")
  /\ installing' = IF Newest = None /\ online THEN deployed ELSE installing
  /\ UNCHANGED <<net, waiting, active, look, page, controlled, hurries>>

\* registerValidSW: a site without a registration gets one and its first worker is
\* installed, if the script is there.  Whatever is registered stays as it is.
RegisterValidSW(t) ==
  /\ pc[t] = "register"
  /\ Goto(t, "done")
  /\ IF Newest = None /\ online /\ deployed \in WithWorker
     THEN installing' = deployed
     ELSE UNCHANGED installing
  /\ UNCHANGED <<net, waiting, active, look, page, controlled, hurries>>

\* Mutant: unregister does not reach the registration.
UnregisterInVain(t) ==
  /\ pc[t] \in {"unregister", "remove"}
  /\ active # None
  /\ IF pc[t] = "unregister" THEN UNCHANGED workers
     ELSE installing' = None /\ waiting' = None /\ active' = None
  /\ Goto(t, IF pc[t] = "remove" THEN "reload" ELSE "done")
  /\ UNCHANGED <<net, look, page, controlled, hurries>>

\* navigator.serviceWorker.ready.then(unregister): nothing happens as long as no
\* worker is active.  Pages under control stay so until they are replaced.
Unregister(t) ==
  /\ pc[t] \in {"unregister", "remove"}
  /\ active # None
  /\ installing' = None /\ waiting' = None /\ active' = None
  /\ Goto(t, IF pc[t] = "remove" THEN "reload" ELSE "done")
  /\ UNCHANGED <<net, look, page, controlled, hurries>>

\* window.location.reload()
Reload(t) ==
  /\ pc[t] = "reload"
  /\ Show(t, Answer("app"))
  /\ UNCHANGED <<net, workers, hurries>>

-----------------------------------------------------------------------------
(* The browser's registration *)

\* After a navigation the browser looks for a script that differs.
LookForUpdate ==
  /\ look /\ installing = None
  /\ look' = FALSE
  /\ IF online /\ Newest # None /\ deployed \in WithWorker /\ deployed # Newest
     THEN installing' = deployed
     ELSE UNCHANGED installing
  /\ UNCHANGED <<net, waiting, active, tab>>

\* precacheAndRoute: the worker is installed when it has fetched its release, and
\* dropped when it cannot.  What onupdatefound logs then is left out.
Install ==
  /\ installing # None
  /\ installing' = None
  /\ \/ /\ online /\ installing = deployed
        /\ waiting' = installing
     \/ /\ ~(online /\ installing = deployed)
        /\ UNCHANGED waiting
  /\ UNCHANGED <<net, active, look, tab>>

\* clientsClaim: a worker that becomes active controls the open pages.
Activate ==
  /\ waiting # None
  /\ active = None \/ \A t \in Tabs : ~controlled[t]
  /\ active' = waiting /\ waiting' = None
  /\ controlled' = [t \in Tabs |-> t \in Open]
  /\ UNCHANGED <<net, installing, look, page, pc, hurries>>

-----------------------------------------------------------------------------
Script(t) ==
  Load(t) \/ CheckValidServiceWorker(t) \/ RegisterValidSW(t) \/ Unregister(t) \/ Reload(t)

Next ==
  \/ Deploy \/ GoOffline \/ GoOnline
  \/ \E t \in Tabs : (\E what \in {"app", "other"} : Navigate(t, what)) \/ Close(t) \/ Script(t)
  \/ LookForUpdate \/ Install \/ Activate

Spec == Init /\ [][Next]_vars

\* Users come back, scripts run, the browser does its part, and outages end.
\* Nobody has to close a tab.
FairSpec ==
  /\ Spec
  /\ WF_vars(GoOnline) /\ WF_vars(LookForUpdate) /\ WF_vars(Install) /\ WF_vars(Activate)
  /\ \A t \in Tabs : WF_vars(Navigate(t, "app")) /\ WF_vars(Script(t))

-----------------------------------------------------------------------------
(* Properties *)

\* The variables have their types: the registration holds releases that came with
\* a worker, and only the page of a release runs a script.
TypeOK ==
  /\ isLocalhost \in BOOLEAN /\ online \in BOOLEAN /\ look \in BOOLEAN
  /\ deployed \in Release
  /\ outages \in 0 .. MaxOutages
  /\ {installing, waiting, active} \subseteq WithWorker \cup {None}
  /\ page \in [Tabs -> 0 .. ErrorPage]
  /\ controlled \in [Tabs -> BOOLEAN]
  /\ pc \in [Tabs -> {"done", "load", "check", "register", "unregister", "remove", "reload"}]
  /\ hurries \in 0 .. MaxHurries
  /\ \A t \in Tabs : page[t] \notin Release => pc[t] = "done"

\* Release r is the last one, users close all their tabs now and then, and the
\* registration can get rid of its old worker.
Settles(r) ==
  /\ <>[](deployed = r)
  /\ []<>(Open = {})
  /\ r \in WithWorker \/ isLocalhost

\* Users will only see deployed updates on the "N+1" visit to a page: yet they see
\* them, whichever of register, checkValidServiceWorker and unregister the releases
\* on the way there have run, and whatever of it was cut short.
NewReleaseIsSeen ==
  \A r \in Release :
    Settles(r) => <>[](\A t \in Tabs : page[t] \in Release => page[t] = r)

\* A release that calls unregister gets rid of the worker that an earlier one has
\* registered, so that the server answers every address again.  That release comes
\* from the worker's cache itself, and other tabs still run older ones.
UnregisteredForGood ==
  \A r \in Release \ Registering : Settles(r) => <>[](Newest = None)

\* The reload of checkValidServiceWorker does not go on for ever: it follows the
\* removal of the registration, and so it does not show the page it came from.
ReloadsEnd ==
  \A r \in Release : <>[](deployed = r) => <>[](\A t \in Tabs : pc[t] # "reload")
=============================================================================
