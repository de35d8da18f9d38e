------------------------------ MODULE CaseStore ------------------------------
(***************************************************************************)
(* What the web front end promises about saved cases, whichever tab saves  *)
(* them: a map from names to cases.  A save stores the case being edited   *)
(* under the name.  It takes a while, and what another tab changes in that *)
(* time it may undo; but it touches nothing else, and only "clear" removes *)
(* cases.                                                                  *)
(***************************************************************************)
CONSTANTS
  Names, Cases, Absent,
  Tabs,    \* the tabs of the browser
  Here     \* the tab whose case is doc

VARIABLES
  doc,     \* the case being edited in this tab
  saved,   \* saved[n]: the case saved under n, or Absent
  begun    \* begun[t]: what was saved when the save of tab t began, if it is saving

Init ==
  /\ doc \in Cases
  /\ saved = [n \in Names |-> Absent]
  /\ begun = [t \in Tabs |-> {}]

\* The case changes, by an edit or because another one is loaded, but not while it is
\* being saved.
Edit ==
  /\ begun[Here] = {}
  /\ doc' \in Cases
  /\ UNCHANGED <<saved, begun>>

Begin(t) ==
  /\ begun[t] = {}
  /\ begun' = [begun EXCEPT ![t] = {saved}]
  /\ UNCHANGED <<doc, saved>>

\* This tab saves its case, another one its own; every other name keeps its case, or
\* gets the one it had when the save began.
Save(t, n) ==
  /\ \E before \in begun[t] :
       \A m \in Names \ {n} : saved'[m] \in {saved[m], before[m]}
  /\ DOMAIN saved' = Names
  /\ saved'[n] \in Cases
  /\ t = Here => saved'[n] = doc
  /\ begun' = [begun EXCEPT ![t] = {}]
  /\ UNCHANGED doc

Clear ==
  /\ saved' = [n \in Names |-> Absent]
  /\ UNCHANGED <<doc, begun>>

Next ==
  \/ Edit \/ Clear
  \/ \E t \in Tabs : Begin(t) \/ \E n \in Names : Save(t, n)

Spec == Init /\ [][Next]_<<doc, saved, begun>>
=============================================================================
