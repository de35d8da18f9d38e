---------------------------- MODULE LeaderForLife ----------------------------
(***************************************************************************)
(* What leader election promises (doc.go): a pod that holds the lead holds *)
(* it for its life.  It may stop acting, when its container restarts or it *)
(* is evicted, and act again; but nobody else acts as long as its pod is   *)
(* there, and the lead is free for another pod only when it is gone.       *)
(***************************************************************************)
CONSTANTS Pods, Nobody

VARIABLES
  alive,    \* the pods that are there
  holder,   \* the pod that holds the lead, or Nobody
  acting    \* the pods that act as the leader

Init == alive = {} /\ holder = Nobody /\ acting = {}

Born(p) ==
  /\ alive' = alive \cup {p}
  /\ UNCHANGED <<holder, acting>>

Die(p) ==
  /\ alive' = alive \ {p}
  /\ acting' = acting \ {p}
  /\ UNCHANGED holder

\* A free lead is taken, at first perhaps without knowing it.
Elect(p) ==
  /\ p \in alive
  /\ holder = Nobody /\ holder' = p
  /\ acting' \in {acting, acting \cup {p}}
  /\ UNCHANGED alive

\* The holder begins to act, or acts again.
Act(p) ==
  /\ p \in alive /\ holder = p
  /\ acting' = acting \cup {p}
  /\ UNCHANGED <<alive, holder>>

StopActing(p) ==
  /\ acting' = acting \ {p}
  /\ UNCHANGED <<alive, holder>>

Free ==
  /\ holder \notin alive
  /\ holder' = Nobody
  /\ UNCHANGED <<alive, acting>>

Next ==
  \/ \E p \in Pods : Born(p) \/ Die(p) \/ Elect(p) \/ Act(p) \/ StopActing(p)
  \/ Free

Spec == Init /\ [][Next]_<<alive, holder, acting>>
=============================================================================
