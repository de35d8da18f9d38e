------------------------------- MODULE MCLeader -------------------------------
(* Instances of Leader for TLC. *)
EXTENDS Leader, TLC

CONSTANTS p1, p2, p3

\* Every pod has a name of its own.
OwnNames == [p \in Pods |-> <<p>>]

\* p2 is created with the name of p1, as the pods of a StatefulSet are.
ReusedNames == [p \in Pods |-> <<IF p = p2 THEN p1 ELSE p>>]

\* The pods of the cluster, and those of a cluster with no replacement pod.
ThreePods == {p1, p2, p3}
TwoPods == {p1, p2}

=============================================================================
