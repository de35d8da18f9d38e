------------------------------- MODULE IstioEnv -------------------------------
(***************************************************************************)
(* What of a custom resource its release is made of: the values of the     *)
(* chart, which are its spec, and the two labels that name an Istio        *)
(* environment or revision.  The reconciler copies the labels into the     *)
(* values whenever it reads the resource, and takes the environment out    *)
(* again around each write of it; the revision and the labels, as it       *)
(* has completed them, are written.                                        *)
(***************************************************************************)

CONSTANTS
  Charts,   \* what the values say but for the Istio environment and revision
  Names,    \* names of Istio environments and revisions
  Absent    \* a field or label that is not there

ASSUME IstioAssumption == "" \notin Names /\ Absent \notin Names \cup {""}

Texts  == Names \cup {""}
Fields == Texts \cup {Absent}

Contents ==
  [chart : Charts, istioEnv : Fields, revision : Fields, envLabel : Fields, revLabel : Fields]

\* A field as text: NestedString gives "" for a field that is not there.
Text(field) == IF field = Absent THEN "" ELSE field

\* Mutant: fields are taken as they are.
SetupIstioEnvKeep(c) ==
  [c EXCEPT !.istioEnv = c.envLabel, !.revision = c.revLabel]

\* The labels become values; a revision overrides an environment.
SetupIstioEnv(c) ==
  LET revision == Text(c.revLabel)
      istioEnv == IF revision # "" THEN "" ELSE Text(c.envLabel)
  IN  [c EXCEPT !.istioEnv = istioEnv, !.envLabel = istioEnv,
                !.revision = revision, !.revLabel = revision]

\* What is written to the server, and what becomes of the server's answer.
WithoutIstioEnv(c) == [c EXCEPT !.istioEnv = Absent]

RestoreIstioEnv(c, istioEnv) ==
  IF Text(istioEnv) = "" THEN c ELSE [c EXCEPT !.istioEnv = istioEnv]

\* The manifest of the release that the chart renders from these values.
Manifests == [chart : Charts, istioEnv : Texts, revision : Texts]

Manifest(c) ==
  LET s == SetupIstioEnv(c)
  IN  [chart |-> s.chart, istioEnv |-> s.istioEnv, revision |-> s.revision]

\* The labels of the release's namespace; "" is a label that is not there.
NamespaceLabels == [istioEnv : Texts, revision : Texts]
=============================================================================
