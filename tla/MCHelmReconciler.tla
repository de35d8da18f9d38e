--------------------------- MODULE MCHelmReconciler ---------------------------
(* Instances of HelmReconciler for TLC. *)
EXTENDS HelmReconciler, TLC

CONSTANTS good, bad, env, rev

MCCharts == {good, bad}
MCNames  == {env, rev}
OneBad   == {bad}
NoBad    == {}

\* No labels, but a value that the operator overwrites; labels, of which the revision
\* overrides the environment; values that the cluster refuses.
plain    == [chart |-> good, istioEnv |-> env, revision |-> Absent, envLabel |-> Absent,
             revLabel |-> Absent]
labelled == [chart |-> good, istioEnv |-> Absent, revision |-> Absent, envLabel |-> env,
             revLabel |-> rev]
refused  == [chart |-> bad, istioEnv |-> Absent, revision |-> Absent, envLabel |-> env,
             revLabel |-> Absent]

GoodOnly       == {labelled}
OneGoodOneBad  == {labelled, refused}
PlainOrRefused == {plain, refused}
=============================================================================
