----------------------------- MODULE LeaderProofs -----------------------------
(***************************************************************************)
(* Leader for life, for any number of pods and faults: at most one pod     *)
(* leads, and it owns the lock, provided that no name is used twice.       *)
(***************************************************************************)
EXTENDS Leader, TLAPS

\* The steps of Become, the faults and the cluster keep the variables' types,
\* whatever the names are.
THEOREM TypeCorrect == Spec => []TypeOK
<1>1. Init => TypeOK
  BY LeaderAssumption DEF Init, TypeOK, Steps
<1>2. TypeOK /\ [Next]_vars => TypeOK'
  <2> SUFFICES ASSUME TypeOK, [Next]_vars PROVE TypeOK'
    OBVIOUS
  <2> USE DEF TypeOK, Steps, Goto, Fault, podVars
  <2>1. ASSUME NEW p \in Pods, BecomeStep(p) PROVE TypeOK'
    <3>1. CASE OwnerRef(p) \/ GetLock(p) \/ CreateLock(p) \/ AlreadyExists(p) \/ Retry(p)
      BY <3>1 DEF OwnerRef, GetLock, CreateLock, AlreadyExists, Retry
    <3>2. CASE CheckLeader(p)
      BY <3>2 DEF CheckLeader, Named, Present
    <3>3. CASE DeleteLeader(p)
      BY <3>3 DEF DeleteLeader, Named, Present
    <3> QED BY <2>1, <3>1, <3>2, <3>3 DEF BecomeStep
  <2>2. ASSUME NEW p \in Pods, FaultStep(p) PROVE TypeOK'
    BY <2>2, LeaderAssumption DEF FaultStep, DeleteFails, Restart, CreateUnanswered
  <2>3. ASSUME NEW p \in Pods, CreatePod(p) \/ Evict(p) \/ DeletePod(p) \/ RemovePod(p)
        PROVE TypeOK'
    BY <2>3 DEF CreatePod, Evict, DeletePod, RemovePod
  <2>4. CASE CollectGarbage
    BY <2>4 DEF CollectGarbage
  <2>5. CASE UNCHANGED vars
    BY <2>5 DEF vars
  <2> QED BY <2>1, <2>2, <2>3, <2>4, <2>5 DEF Next
<1> QED BY <1>1, <1>2, PTL DEF Spec

\* A pod that leads owns the lock and its object is there: with unique names, no step
\* of a pod or of the cluster gives a pod the lead without the lock, or takes the lock
\* from a pod that runs.
THEOREM LeadsWithLock == UniqueNames /\ Spec => []LeaderHoldsLock
<1> SUFFICES ASSUME UniqueNames PROVE Spec => []LeaderHoldsLock
  OBVIOUS
<1>1. Init => LeaderHoldsLock
  BY DEF Init, LeaderHoldsLock, Leads
<1>2. TypeOK /\ LeaderHoldsLock /\ [Next]_vars => LeaderHoldsLock'
  <2> SUFFICES ASSUME TypeOK, LeaderHoldsLock, [Next]_vars PROVE LeaderHoldsLock'
    OBVIOUS
  <2> USE DEF TypeOK, Steps, Goto, podVars, LeaderHoldsLock, Leads
  <2>1. ASSUME NEW p \in Pods, BecomeStep(p) PROVE LeaderHoldsLock'
    <3>1. CASE OwnerRef(p) \/ AlreadyExists(p) \/ Retry(p) \/ DeleteLeader(p)
      BY <3>1 DEF OwnerRef, AlreadyExists, Retry, DeleteLeader
    <3>2. CASE GetLock(p)
      BY <3>2 DEF GetLock, UniqueNames
    <3>3. CASE CreateLock(p)
      BY <3>3, LeaderAssumption DEF CreateLock
    <3>4. CASE CheckLeader(p)
      BY <3>4 DEF CheckLeader, Named, Present
    <3> QED BY <2>1, <3>1, <3>2, <3>3, <3>4 DEF BecomeStep
  <2>2. ASSUME NEW p \in Pods, FaultStep(p) PROVE LeaderHoldsLock'
    BY <2>2, LeaderAssumption DEF FaultStep, DeleteFails, Restart, CreateUnanswered
  <2>3. ASSUME NEW p \in Pods, CreatePod(p) \/ DeletePod(p) PROVE LeaderHoldsLock'
    BY <2>3 DEF CreatePod, DeletePod
  <2>4. ASSUME NEW p \in Pods, Evict(p) \/ RemovePod(p) PROVE LeaderHoldsLock'
    BY <2>4 DEF Evict, RemovePod, Present
  <2>5. CASE CollectGarbage
    BY <2>5 DEF CollectGarbage, Present
  <2>6. CASE UNCHANGED vars
    BY <2>6 DEF vars
  <2> QED BY <2>1, <2>2, <2>3, <2>4, <2>5, <2>6 DEF Next
<1> QED BY <1>1, <1>2, TypeCorrect, PTL DEF Spec

\* Leader for life: with unique pod names, no two pods ever think that they are the
\* leader, through restarts, lost answers, evictions and deletions.
THEOREM OneLeader == UniqueNames /\ Spec => []AtMostOneLeader
<1> SUFFICES ASSUME UniqueNames PROVE Spec => []AtMostOneLeader
  OBVIOUS
<1>1. LeaderHoldsLock => AtMostOneLeader
  BY DEF LeaderHoldsLock, AtMostOneLeader, Leads
<1> QED BY <1>1, LeadsWithLock, PTL

\* With unique names, every step of a pod, a fault or the cluster is a step of leader
\* for life, or none: nobody acts without the lead, and the lead passes on only
\* when its holder is gone.
THEOREM ImplementsLeaderForLife == UniqueNames /\ Spec => LeadsForLife
<1> SUFFICES ASSUME UniqueNames PROVE Spec => LeadsForLife
  OBVIOUS
<1> DEFINE acting == {p \in Pods : Leads(p)}
           Still == Present' = Present /\ lock' = lock /\ acting' = acting
<1>1. Init => Life!Init
  BY DEF Init, Life!Init, Present, Leads
<1>2. TypeOK /\ LeaderHoldsLock /\ [Next]_vars => [Life!Next]_<<Present, lock, acting>>
  <2> SUFFICES ASSUME TypeOK, LeaderHoldsLock, [Next]_vars
               PROVE  Life!Next \/ Still
    OBVIOUS
  <2> USE DEF TypeOK, Steps, Goto, podVars, Leads, Present
  <2>1. ASSUME NEW p \in Pods, BecomeStep(p) PROVE Life!Next \/ Still
    <3>1. CASE OwnerRef(p) \/ AlreadyExists(p) \/ CheckLeader(p) \/ DeleteLeader(p) \/ Retry(p)
      BY <3>1 DEF OwnerRef, AlreadyExists, CheckLeader, DeleteLeader, Retry
    <3>2. CASE GetLock(p)
      <4>1. p \in Present
        BY <3>2 DEF GetLock, LeaderHoldsLock
      <4>2. CASE lock # NoPod /\ NameOf[lock] = NameOf[p]
        <5>1. lock = p
          BY <4>2 DEF UniqueNames
        <5>2. Life!Act(p)
          BY <3>2, <4>1, <4>2, <5>1 DEF GetLock, Life!Act
        <5> QED BY <5>2 DEF Life!Next
      <4>3. CASE ~(lock # NoPod /\ NameOf[lock] = NameOf[p])
        BY <3>2, <4>3 DEF GetLock
      <4> QED BY <4>2, <4>3
    <3>3. CASE CreateLock(p)
      <4>1. Life!Elect(p)
        BY <3>3 DEF CreateLock, Life!Elect, LeaderHoldsLock
      <4> QED BY <4>1 DEF Life!Next
    <3> QED BY <2>1, <3>1, <3>2, <3>3 DEF BecomeStep
  <2>2. ASSUME NEW p \in Pods, FaultStep(p) PROVE Life!Next \/ Still
    <3>1. CASE DeleteFails(p)
      BY <3>1 DEF DeleteFails
    <3>2. CASE Restart(p)
      <4>1. Life!StopActing(p)
        BY <3>2 DEF Restart, Life!StopActing
      <4> QED BY <4>1 DEF Life!Next
    <3>3. CASE CreateUnanswered(p)
      <4>1. Life!Elect(p)
        BY <3>3 DEF CreateUnanswered, Life!Elect, LeaderHoldsLock
      <4> QED BY <4>1 DEF Life!Next
    <3> QED BY <2>2, <3>1, <3>2, <3>3 DEF FaultStep
  <2>3. ASSUME NEW p \in Pods, CreatePod(p) PROVE Life!Next \/ Still
    <3>1. Life!Born(p)
      BY <2>3 DEF CreatePod, Life!Born, LeaderHoldsLock
    <3> QED BY <3>1 DEF Life!Next
  <2>4. ASSUME NEW p \in Pods, Evict(p) PROVE Life!Next \/ Still
    <3>1. Life!StopActing(p)
      BY <2>4 DEF Evict, Life!StopActing
    <3> QED BY <3>1 DEF Life!Next
  <2>5. ASSUME NEW p \in Pods, RemovePod(p) PROVE Life!Next \/ Still
    <3>1. Life!Die(p)
      BY <2>5 DEF RemovePod, Life!Die
    <3> QED BY <3>1 DEF Life!Next
  <2>6. ASSUME NEW p \in Pods, DeletePod(p) PROVE Still
    BY <2>6 DEF DeletePod
  <2>7. CASE CollectGarbage
    BY <2>7 DEF CollectGarbage, Life!Next, Life!Free
  <2>8. CASE UNCHANGED vars
    BY <2>8 DEF vars
  <2> QED BY <2>1, <2>2, <2>3, <2>4, <2>5, <2>6, <2>7, <2>8 DEF Next
<1> QED BY <1>1, <1>2, TypeCorrect, LeadsWithLock, PTL DEF Spec, LeadsForLife, Life!Spec
=============================================================================
