---------------------------- MODULE HelmAppStatus ----------------------------
(***************************************************************************)
(* The status block of a custom resource: its conditions, the summary that *)
(* updateStatusString derives from them, and the release it names.         *)
(*                                                                         *)
(* A condition is its reason; "none" is an absent condition, "" one that   *)
(* has no reason.  The summary is the set of the error reasons it lists;   *)
(* the empty set stands for "Success".                                     *)
(***************************************************************************)

ConditionTypes == {"Initialized", "Deployed", "ReleaseFailed", "Irreconcilable"}

ErrorReasons == {"InstallError", "UpdateError", "UninstallError", "ReconcileError"}

Reasons ==
  ErrorReasons \cup {"", "InstallSuccessful", "UpdateSuccessful", "UninstallSuccessful"}

\* A status that StatusFor makes of a CR that has none.
EmptyStatus(noRelease) ==
  [conditions |-> [t \in ConditionTypes |-> "none"], string |-> {}, release |-> noRelease]

\* updateStatusString: the error reasons among the conditions.
UpdateStatusString(s) ==
  [s EXCEPT !.string = {s.conditions[t] : t \in ConditionTypes} \cap ErrorReasons]

\* SetCondition: the summary is refreshed only when the condition is new.
SetCondition(s, type, reason) ==
  LET t == [s EXCEPT !.conditions[type] = reason]
  IN  IF s.conditions[type] = "none" THEN UpdateStatusString(t) ELSE t

\* Mutant: the summary is never refreshed.
RemoveConditionOnly(s, type) == [s EXCEPT !.conditions[type] = "none"]

\* RemoveCondition: the summary is refreshed only when there is nothing to remove.
RemoveCondition(s, type) ==
  IF s.conditions[type] = "none" THEN UpdateStatusString(s)
  ELSE [s EXCEPT !.conditions[type] = "none"]
=============================================================================
