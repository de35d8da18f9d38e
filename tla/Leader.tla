-------------------------------- MODULE Leader --------------------------------
(***************************************************************************)
(* Leader election of the helm operator: leader.Become, run by every       *)
(* operator pod before its controllers start.                              *)
(*                                                                         *)
(* The lock is one ConfigMap, owned by a pod.  A pod stands for one pod    *)
(* object (one UID); NameOf gives its name, which later pods may bear      *)
(* again.  The API server, the kubelet and the garbage collector are       *)
(* external and modelled from how Become uses them: a create fails when    *)
(* the ConfigMap exists, the garbage collector removes it once no pod has  *)
(* its owner's UID, and a pod's object reads "evicted", or disappears, only *)
(* when its containers have been stopped.                                  *)
(***************************************************************************)
EXTENDS Naturals, FiniteSets

CONSTANTS
  Pods,        \* the pods ever created
  NameOf,      \* NameOf[p]: the name of pod p
  NoPod,       \* no owner
  MaxFaults    \* bound on failed API calls and container crashes

ASSUME LeaderAssumption ==
  /\ NoPod \notin Pods
  /\ DOMAIN NameOf = Pods
  /\ MaxFaults \in Nat

\* No name is used twice, as for the pods of a Deployment.
UniqueNames == \A p, q \in Pods : NameOf[p] = NameOf[q] => p = q

VARIABLES
  api,        \* api[p]: the pod object: not created, running, evicted, gone
  deleting,   \* the pods whose object has a deletion timestamp
  pc,         \* pc[p]: the step of Become in the pod's container
  lock,       \* the owner of the lock ConfigMap, NoPod when there is none
  existing,   \* existing[p]: owner of the ConfigMap p has read, NoPod if none
  target,     \* target[p]: the evicted pod p is about to delete
  faults      \* failed calls and crashes so far

vars == <<api, deleting, pc, lock, existing, target, faults>>

podVars == <<api, deleting>>

\* Pods that have an object in the API server.
Present == {p \in Pods : api[p] \in {"running", "evicted"}}

\* The pod objects with the name of p: at most one at any time.
Named(p) == {q \in Present : NameOf[q] = NameOf[p]}

Goto(p, label) == pc' = [pc EXCEPT ![p] = label]

Fault == faults < MaxFaults /\ faults' = faults + 1

-----------------------------------------------------------------------------
Init ==
  /\ api = [p \in Pods |-> "new"]
  /\ deleting = {}
  /\ pc = [p \in Pods |-> "off"]
  /\ lock = NoPod
  /\ existing = [p \in Pods |-> NoPod]
  /\ target = [p \in Pods |-> NoPod]
  /\ faults = 0

-----------------------------------------------------------------------------
(* Become *)

\* myOwnerRef: p reads its own pod object.
OwnerRef(p) ==
  /\ pc[p] = "start"
  /\ Goto(p, "get")
  /\ UNCHANGED <<podVars, lock, existing, target, faults>>

\* Mutant: any existing lock is taken for the pod's own.
GetLockAny(p) ==
  /\ pc[p] = "get"
  /\ Goto(p, IF lock # NoPod THEN "leader" ELSE "create")
  /\ existing' = [existing EXCEPT ![p] = lock]
  /\ UNCHANGED <<podVars, lock, target, faults>>

\* The one look at an existing lock: a lock with the pod's name makes it leader.
GetLock(p) ==
  /\ pc[p] = "get"
  /\ \/ /\ lock # NoPod /\ NameOf[lock] = NameOf[p]
        /\ Goto(p, "leader")
     \/ /\ ~(lock # NoPod /\ NameOf[lock] = NameOf[p])
        /\ Goto(p, "create")
  /\ existing' = [existing EXCEPT ![p] = lock]
  /\ UNCHANGED <<podVars, lock, target, faults>>

\* Mutant: AlreadyExists is taken for success.
CreateLockAnyway(p) ==
  /\ pc[p] = "create"
  /\ lock' = IF lock = NoPod THEN p ELSE lock
  /\ Goto(p, "leader")
  /\ UNCHANGED <<podVars, existing, target, faults>>

\* Mutant: the owner reference has the pod's name in place of its UID.
CreateLockByName(p) ==
  /\ pc[p] = "create" /\ lock = NoPod
  /\ lock' = NameOf[p]
  /\ Goto(p, "leader")
  /\ UNCHANGED <<podVars, existing, target, faults>>

\* Create succeeds: there was no lock.
CreateLock(p) ==
  /\ pc[p] = "create" /\ lock = NoPod
  /\ lock' = p
  /\ Goto(p, "leader")
  /\ UNCHANGED <<podVars, existing, target, faults>>

\* Mutant: the owner is never looked at again.
AlreadyExistsBlind(p) ==
  /\ pc[p] = "create" /\ lock # NoPod
  /\ Goto(p, "backoff")
  /\ UNCHANGED <<podVars, lock, existing, target, faults>>

\* Create fails with AlreadyExists: p looks at the owner it has read at its
\* start, if the lock it read then had one.
AlreadyExists(p) ==
  /\ pc[p] = "create" /\ lock # NoPod
  /\ Goto(p, IF existing[p] = NoPod THEN "backoff" ELSE "check")
  /\ UNCHANGED <<podVars, lock, existing, target, faults>>

\* p reads the pod with that owner's name: an evicted pod that nobody deletes
\* yet is to be deleted; otherwise p waits.
CheckLeader(p) ==
  LET Evicted == {q \in Named(existing[p]) : api[q] = "evicted" /\ q \notin deleting}
  IN
  /\ pc[p] = "check"
  /\ IF Evicted = {}
     THEN Goto(p, "backoff") /\ UNCHANGED target
     ELSE /\ \E q \in Evicted : target' = [target EXCEPT ![p] = q]
          /\ Goto(p, "delete")
  /\ UNCHANGED <<podVars, lock, existing, faults>>

\* client.Delete names the pod and no UID: whatever pod has that name by now is
\* deleted.
DeleteLeader(p) ==
  /\ pc[p] = "delete"
  /\ deleting' = deleting \cup Named(target[p])
  /\ Goto(p, "backoff")
  /\ UNCHANGED <<api, lock, existing, target, faults>>

\* A Delete that fails is logged.
DeleteFails(p) ==
  /\ pc[p] = "delete"
  /\ Fault
  /\ Goto(p, "backoff")
  /\ UNCHANGED <<podVars, lock, existing, target>>

\* Mutant: a pod that found a lock looks at its owner only, never at the lock.
RetryCheck(p) ==
  /\ pc[p] = "backoff"
  /\ Goto(p, IF existing[p] = NoPod THEN "create" ELSE "check")
  /\ UNCHANGED <<podVars, lock, existing, target, faults>>

\* The backoff is over: the next attempt.
Retry(p) ==
  /\ pc[p] = "backoff"
  /\ Goto(p, "create")
  /\ UNCHANGED <<podVars, lock, existing, target, faults>>

\* Any other error ends Become and the process, and a crash ends it at any
\* point; the container is started again in the same pod, with no memory.
Restart(p) ==
  /\ pc[p] # "off"
  /\ Fault
  /\ Goto(p, "start")
  /\ existing' = [existing EXCEPT ![p] = NoPod]
  /\ target' = [target EXCEPT ![p] = NoPod]
  /\ UNCHANGED <<podVars, lock>>

\* Create takes effect but its answer is lost: Become fails.
CreateUnanswered(p) ==
  /\ pc[p] = "create" /\ lock = NoPod
  /\ Fault
  /\ lock' = p
  /\ Goto(p, "start")
  /\ existing' = [existing EXCEPT ![p] = NoPod]
  /\ UNCHANGED <<podVars, target>>

BecomeStep(p) ==
  \/ OwnerRef(p) \/ GetLock(p) \/ CreateLock(p) \/ AlreadyExists(p)
  \/ CheckLeader(p) \/ DeleteLeader(p) \/ Retry(p)

FaultStep(p) == DeleteFails(p) \/ Restart(p) \/ CreateUnanswered(p)

-----------------------------------------------------------------------------
(* The cluster *)

\* A pod is created and its container started.
CreatePod(p) ==
  /\ api[p] = "new" /\ Named(p) = {}
  /\ api' = [api EXCEPT ![p] = "running"]
  /\ Goto(p, "start")
  /\ UNCHANGED <<deleting, lock, existing, target, faults>>

\* The kubelet evicts a pod: its containers are stopped, its object stays.
Evict(p) ==
  /\ api[p] = "running"
  /\ api' = [api EXCEPT ![p] = "evicted"]
  /\ Goto(p, "off")
  /\ UNCHANGED <<deleting, lock, existing, target, faults>>

\* A user or a controller deletes a pod: its containers get time to stop.
DeletePod(p) ==
  /\ p \in Present \ deleting
  /\ deleting' = deleting \cup {p}
  /\ UNCHANGED <<api, pc, lock, existing, target, faults>>

\* The containers of a deleted pod have stopped and its object is removed.
RemovePod(p) ==
  /\ p \in Present \cap deleting
  /\ api' = [api EXCEPT ![p] = "gone"]
  /\ Goto(p, "off")
  /\ UNCHANGED <<deleting, lock, existing, target, faults>>

\* The garbage collector removes a lock whose owner's UID no longer exists.
CollectGarbage ==
  /\ lock # NoPod /\ lock \notin Present
  /\ lock' = NoPod
  /\ UNCHANGED <<podVars, pc, existing, target, faults>>

Next ==
  \/ \E p \in Pods : BecomeStep(p) \/ FaultStep(p)
  \/ \E p \in Pods : CreatePod(p) \/ Evict(p) \/ DeletePod(p) \/ RemovePod(p)
  \/ CollectGarbage

Spec == Init /\ [][Next]_vars

\* Become has no deadline and its backoff is bounded, deleted pods are removed
\* and garbage is collected.  Nothing creates, evicts or deletes pods for sure.
FairSpec ==
  /\ Spec
  /\ \A p \in Pods : WF_vars(BecomeStep(p)) /\ WF_vars(RemovePod(p))
  /\ WF_vars(CollectGarbage)

-----------------------------------------------------------------------------
(* Properties *)

Steps == {"off", "start", "get", "create", "check", "delete", "backoff", "leader"}

\* The variables have their types: a lock, and what a pod remembers of one, names a
\* pod by its UID or nobody.
TypeOK ==
  /\ api \in [Pods -> {"new", "running", "evicted", "gone"}]
  /\ deleting \subseteq Pods
  /\ pc \in [Pods -> Steps]
  /\ lock \in Pods \cup {NoPod}
  /\ existing \in [Pods -> Pods \cup {NoPod}]
  /\ target \in [Pods -> Pods \cup {NoPod}]
  /\ faults \in 0 .. MaxFaults

\* A pod whose Become has returned nil acts as the leader.
Leads(p) == pc[p] = "leader"

\* There is no possibility for multiple pods to think they are the leader at the
\* same time: at most one pod has returned from Become and still runs.
AtMostOneLeader == \A p, q \in Pods : Leads(p) /\ Leads(q) => p = q

\* What makes it so: a pod that leads owns the lock, also after a restart or a lost
\* answer, and as long as its container runs its object is there, so that the
\* garbage collector leaves the lock alone.
LeaderHoldsLock ==
  \A p \in Pods :
    /\ pc[p] # "off" => api[p] = "running"
    /\ Leads(p) => lock = p

\* A pod in the middle of Become.
Waits(p) == pc[p] \notin {"off", "leader"}

\* The owner of the lock is evicted and its object is still there.
LockEvicted == lock \in Present /\ api[lock] = "evicted"

\* Leader for life ends with the pod: when the lock's owner is gone, a pod in
\* Become does not wait in vain.  The garbage collector frees the lock, and some
\* pod leads again, unless the pod goes away itself or the next owner of the lock
\* is evicted before it leads.
SuccessorElected ==
  \A p \in Pods :
    (Waits(p) /\ lock \notin Present)
      ~> ((\E q \in Pods : Leads(q)) \/ LockEvicted \/ ~Waits(p))

\* A pod that read the lock of a leader that is evicted gets rid of that leader
\* and of its lock, whatever fails on the way.
SeenEvictedReplaced ==
  \A p, q \in Pods :
    (pc[p] \in {"create", "check", "delete", "backoff"} /\ existing[p] = q
       /\ lock = q /\ api[q] = "evicted")
      ~> (lock # q \/ pc[p] = "off" \/ existing[p] # q)

\* When the leader pod has been evicted but not deleted, another pod is able to
\* delete it, which allows leader election to continue.
EvictedReplaced ==
  \A p, q \in Pods :
    (Waits(p) /\ lock = q /\ api[q] = "evicted") ~> (lock # q \/ ~Waits(p))

Life == INSTANCE LeaderForLife WITH
  Nobody <- NoPod,
  alive <- Present,
  holder <- lock,
  acting <- {p \in Pods : Leads(p)}

\* Become implements leader for life: whoever returns from it holds the lead or
\* takes a free one, keeps it through crashes, lost answers and eviction, and the
\* lead passes on only when the holder's pod is gone.
LeadsForLife == Life!Spec
=============================================================================
