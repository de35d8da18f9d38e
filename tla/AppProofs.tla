------------------------------ MODULE AppProofs ------------------------------
(* Proofs about App, for any names, cases, forms, addresses and bounds.        *)
EXTENDS App, CaseDataProofs, SequenceTheorems

\* The bounds, and the cases of other sources, as the assumptions have them.
LEMMA Bounds == MaxPending \in Nat /\ MaxExecs \in Nat /\ MaxSteps \in Nat
BY AppAssumption

\* What is typed, filled in, saved elsewhere or on the server is a case.
LEMMA Sources ==
  /\ Typed \subseteq Post /\ Saved \subseteq Post /\ Filled \subseteq View
  /\ \A n \in CaseNames : CaseOf[n] \in Post
BY AppAssumption

\* An edit of the form leaves a form, with or without an empty template.
LEMMA EditedView ==
  ASSUME NEW view \in View, NEW e \in BOOLEAN, NEW v \in BOOLEAN
  PROVE  /\ DropEmptyTmpl(view) \in View
         /\ [view EXCEPT !.expect = e, !.validate = v] \in View
BY DEF View, Case, DropEmptyTmpl

\* The form of a page that has just been loaded is a form.
LEMMA FirstViewType == FirstView \in View
<1> DEFINE h == [headers |-> Undefined, queries |-> Undefined]
           Hop == [headers : Rows \cup {Undefined}, queries : Rows \cup {Undefined}]
<1>1. h \in Hop
  OBVIOUS
<1> HIDE DEF h, Hop
<1>2. <<h>> \in Seq(Hop)
  BY <1>1
<1> QED
  BY <1>2 DEF FirstView, View, Case, h, Hop

\* What setDisplayData leaves in form and text, when it is given a form.
LEMMA SetDisplayDataType ==
  ASSUME TypeOK, NEW view \in View, SetDisplayData(view)
  PROVE  displayData' \in View /\ yamlStr' \in Text
<1>1. DropEmptyTmpl(view) \in View
  BY EditedView DEF View, Case
<1>2. ToYaml(ViewToPost(view)) \in Text
  BY ViewToPostType DEF ToYaml, Text
<1> QED
  BY <1>1, <1>2 DEF SetDisplayData, TypeOK

\* What is stored is a store again, and holds the case under its name.
LEMMA StoredIs ==
  ASSUME NEW read, read = Undefined \/ IsStore(read), NEW name \in SaveNames, NEW post \in Post
  PROVE  /\ IsStore(Stored(read, name, post)) /\ Stored(read, name, post) # Undefined
         /\ \A n \in SaveNames :
              /\ n \in DOMAIN Stored(read, name, post) <=>
                   n = name \/ (read # Undefined /\ n \in DOMAIN read)
              /\ n \in DOMAIN Stored(read, name, post) =>
                   Stored(read, name, post)[n] = IF n = name THEN post ELSE read[n]
<1> DEFINE names == IF read = Undefined THEN {} ELSE DOMAIN read
<1>1. names \in SUBSET SaveNames /\ \A n \in names : read[n] \in Post
  BY DEF IsStore
<1>2. Stored(read, name, post) = [n \in names \cup {name} |-> IF n = name THEN post ELSE read[n]]
  BY DEF Stored
<1>3. \A n : n \in names <=> (read # Undefined /\ n \in DOMAIN read)
  OBVIOUS
<1> HIDE DEF names
<1>4. /\ Stored(read, name, post) \in [names \cup {name} -> Post]
      /\ names \cup {name} \in SUBSET SaveNames
  BY <1>1, <1>2
<1>5. IsStore(Stored(read, name, post))
  BY <1>4 DEF IsStore
<1>6. Stored(read, name, post) # Undefined
  BY <1>5, AppAssumption
<1> QED
  BY <1>2, <1>3, <1>5, <1>6

SavingOK == DOMAIN saving = Tabs /\ \A tab \in Tabs : MaySave(saving[tab])

\* A tab that reads the store knows a store, or that there is none.
LEMMA BeginSaveType ==
  ASSUME TypeOK, NEW tab \in Tabs, NEW name \in SaveNames, NEW post \in Post,
         BeginSave(tab, name, post)
  PROVE  SavingOK' /\ cache' = cache
<1> DEFINE s == [name |-> name, post |-> post, read |-> cache]
<1>1. saving' = [saving EXCEPT ![tab] = {s}] /\ cache' = cache
  BY DEF BeginSave
<1>2. s.name = name /\ s.post = post /\ s.read = cache
  OBVIOUS
<1> HIDE DEF s
<1>3. MaySave({s})
  BY <1>2 DEF TypeOK, IsSave, MaySave
<1> QED
  BY <1>1, <1>3 DEF TypeOK, SavingOK

\* A tab that writes writes a store.
LEMMA EndSaveType ==
  ASSUME TypeOK, NEW tab \in Tabs, EndSave(tab)
  PROVE  SavingOK' /\ IsStore(cache')
<1>1. PICK s \in saving[tab] : /\ cache' = Stored(s.read, s.name, s.post)
                               /\ saving' = [saving EXCEPT ![tab] = {}]
  BY DEF EndSave
<1>2. IsSave(s)
  BY DEF TypeOK, MaySave
<1>3. IsStore(cache')
  BY <1>1, <1>2, StoredIs DEF IsSave
<1>4. MaySave({})
  BY DEF MaySave
<1> QED
  BY <1>1, <1>3, <1>4 DEF TypeOK, SavingOK

\* The requests in flight, as TypeOK has them.
PendingOK(r, n) ==
  \/ r.kind = "caseList"
  \/ r.kind = "case" /\ r.id \in 1 .. MaxPending /\ r.name \in CaseNames \cup {Unknown}
  \/ r.kind = "exec" /\ r.id \in 1 .. n /\ r.json.expect \in BOOLEAN /\ r.validate \in BOOLEAN

\* Whatever is typed, loaded or answered, in whatever order, the form holds a case
\* with rows and what is saved are cases with objects.
THEOREM TypeCorrect == Spec => []TypeOK
<1>1. Init => TypeOK
  <2> SUFFICES ASSUME Init PROVE TypeOK
    OBVIOUS
  <2>1. displayData \in View
    BY FirstViewType DEF Init
  <2>2. yamlStr \in Text
    BY FirstViewType, ViewToPostType DEF Init, ToYaml, Text
  <2>3. consoleData \in Console
    BY DEF Init, Console, Shows
  <2>4. \A r \in pending : PendingOK(r, execs)
    BY DEF Init, CaseListRequest, PendingOK
  <2>5. execs \in 0 .. MaxExecs /\ steps \in 0 .. MaxSteps
    BY Bounds DEF Init
  <2>6. SavingOK
    BY DEF Init, SavingOK, MaySave
  <2> QED
    BY <2>1, <2>2, <2>3, <2>4, <2>5, <2>6 DEF Init, TypeOK, PendingOK, SavingOK
<1>2. TypeOK /\ [Next]_vars => TypeOK'
  <2> SUFFICES ASSUME TypeOK, [Next]_vars PROVE TypeOK'
    OBVIOUS
  <2> USE DEF edit, page, store
  <2>0. \A r \in pending : PendingOK(r, execs)
    BY DEF TypeOK, PendingOK
  <2>1. ASSUME steps < MaxSteps, steps' = steps + 1 PROVE steps' \in 0 .. MaxSteps
    BY <2>1, Bounds DEF TypeOK
  <2>2. ASSUME EditForm, steps' \in 0 .. MaxSteps PROVE TypeOK'
    <3>1. PICK view \in Filled :
            SetDisplayData(DropEmptyTmpl([view EXCEPT !.expect = displayData.expect,
                                                      !.validate = displayData.validate]))
      BY <2>2 DEF EditForm
    <3>2. displayData.expect \in BOOLEAN /\ displayData.validate \in BOOLEAN /\ view \in View
      BY Sources DEF TypeOK, View, Case
    <3>3. displayData' \in View /\ yamlStr' \in Text
      BY <3>1, <3>2, EditedView, SetDisplayDataType
    <3> QED
      BY <2>2, <3>3 DEF EditForm, TypeOK
  <2>3. ASSUME Focus, steps' \in 0 .. MaxSteps PROVE TypeOK'
    BY <2>3 DEF Focus, TypeOK
  <2>4. ASSUME EditYaml, steps' \in 0 .. MaxSteps PROVE TypeOK'
    <3>1. displayData' \in View /\ yamlStr' \in Text
      <4>1. CASE \E post \in Typed : /\ yamlStr' = ToYaml(post)
                                    /\ displayData' = DropEmptyTmpl(PostToView(post))
        <5>1. PICK post \in Post : /\ yamlStr' = ToYaml(post)
                                   /\ displayData' = DropEmptyTmpl(PostToView(post))
          BY <4>1, Sources
        <5>2. PostToView(post) \in View
          BY PostToViewType
        <5>3. displayData' \in View
          BY <5>1, <5>2, EditedView
        <5> QED
          BY <5>1, <5>3 DEF ToYaml, Text
      <4>2. CASE \E text \in OddText : yamlStr' = text /\ UNCHANGED displayData
        BY <4>2 DEF TypeOK, Text
      <4> QED
        BY <2>4, <4>1, <4>2 DEF EditYaml
    <3> QED
      BY <2>4, <3>1 DEF EditYaml, TypeOK
  <2>5. ASSUME GetCase, steps' \in 0 .. MaxSteps PROVE TypeOK'
    <3>1. PICK name \in cases, id \in FreeIds : pending' = pending \cup {CaseRequest(id, name)}
      BY <2>5 DEF GetCase
    <3>2. PendingOK(CaseRequest(id, name), execs)
      BY DEF CaseRequest, FreeIds, PendingOK, TypeOK
    <3>3. \A r \in pending' : PendingOK(r, execs)
      BY <2>0, <3>1, <3>2
    <3> QED
      BY <2>5, <3>3 DEF GetCase, TypeOK, PendingOK
  <2>6. ASSUME Submit, steps' \in 0 .. MaxSteps PROVE TypeOK'
    <3>1. consoleData' \in Console
      BY <2>6 DEF Submit, Console, Shows
    <3>2. CASE UNCHANGED <<pending, execs>>
      BY <2>6, <3>1, <3>2 DEF Submit, TypeOK
    <3>3. CASE /\ pending' = pending \cup {ExecRequest(execs + 1, yamlStr, displayData.expect)}
               /\ execs' = execs + 1
      <4>1. execs \in Nat /\ execs' \in 0 .. MaxExecs
        BY <2>6, <3>3, Bounds DEF Submit, TypeOK
      <4>2. displayData.expect \in BOOLEAN
        BY DEF TypeOK, View, Case
      <4>3. PendingOK(ExecRequest(execs + 1, yamlStr, displayData.expect), execs + 1)
        <5> DEFINE q == ExecRequest(execs + 1, yamlStr, displayData.expect)
        <5>1. q.kind = "exec" /\ q.id = execs + 1 /\ q.validate = displayData.expect
          BY DEF ExecRequest
        <5>2. q.json = Json(yamlStr)
          BY DEF ExecRequest
        <5>3. Json(yamlStr).expect \in BOOLEAN
          BY DEF Json
        <5> HIDE DEF q
        <5>4. q.id \in 1 .. execs + 1
          BY <4>1, <5>1
        <5>5. PendingOK(q, execs + 1)
          BY <4>2, <5>1, <5>2, <5>3, <5>4 DEF PendingOK
        <5> QED
          BY <5>5 DEF q
      <4>4. \A r \in pending : PendingOK(r, execs + 1)
        BY <2>0, <4>1 DEF PendingOK
      <4>5. \A r \in pending' : PendingOK(r, execs')
        BY <3>3, <4>3, <4>4
      <4> QED
        BY <2>6, <3>1, <4>1, <4>5 DEF Submit, TypeOK, PendingOK
    <3> QED
      BY <2>6, <3>2, <3>3 DEF Submit
  <2>7. ASSUME SaveToCache, steps' \in 0 .. MaxSteps PROVE TypeOK'
    <3>1. PICK name \in SaveNames : BeginSave(Here, name, ViewToPost(displayData))
      BY <2>7 DEF SaveToCache
    <3>2. ViewToPost(displayData) \in Post /\ Here \in Tabs
      BY ViewToPostType, AppAssumption DEF TypeOK
    <3>3. SavingOK' /\ cache' = cache
      BY <3>1, <3>2, BeginSaveType
    <3> QED
      BY <2>7, <3>3 DEF SaveToCache, TypeOK, SavingOK
  <2>8. ASSUME ShowCache \/ CopyToClipboard \/ ClearCache, steps' \in 0 .. MaxSteps PROVE TypeOK'
    <3>1. consoleData' \in Console
      BY <2>8 DEF ShowCache, CopyToClipboard, ClearCache, Console, Shows
    <3> QED
      BY <2>8, <3>1 DEF ShowCache, CopyToClipboard, ClearCache, TypeOK
  <2>9. ASSUME Reload, steps' \in 0 .. MaxSteps PROVE TypeOK'
    <3>1. displayData' \in View /\ yamlStr' \in Text
      BY <2>9, FirstViewType, ViewToPostType DEF Reload, ToYaml, Text
    <3>2. consoleData' \in Console
      BY <2>9 DEF Reload, Console, Shows
    <3>3. \A r \in pending' : PendingOK(r, execs)
      BY <2>9 DEF Reload, CaseListRequest, PendingOK
    <3> QED
      BY <2>9, <3>1, <3>2, <3>3 DEF Reload, TypeOK, PendingOK
  <2>10. ASSUME NEW tab \in Tabs, OtherTab(tab), steps' \in 0 .. MaxSteps PROVE TypeOK'
    <3>1. ASSUME NEW name \in SaveNames, NEW post \in Saved, BeginSave(tab, name, post)
          PROVE  SavingOK' /\ cache' = cache
      <4>1. post \in Post
        BY Sources
      <4> QED
        BY <3>1, <4>1, BeginSaveType
    <3>2. CASE cache' = Undefined /\ UNCHANGED saving
      BY <2>10, <3>2 DEF OtherTab, TypeOK
    <3>3. CASE \E name \in SaveNames, post \in Saved : BeginSave(tab, name, post)
      BY <2>10, <3>1, <3>3 DEF OtherTab, TypeOK, SavingOK
    <3> QED
      BY <2>10, <3>2, <3>3 DEF OtherTab
  <2>15. ASSUME FinishSave, UNCHANGED steps PROVE TypeOK'
    <3>1. SavingOK' /\ IsStore(cache')
      BY <2>15, EndSaveType, AppAssumption DEF FinishSave
    <3>2. consoleData' \in Console
      BY <2>15 DEF FinishSave, Console, Shows
    <3> QED
      BY <2>15, <3>1, <3>2 DEF FinishSave, TypeOK, SavingOK
  <2>16. ASSUME NEW tab \in Tabs, OtherTabFinishes(tab), UNCHANGED steps PROVE TypeOK'
    <3>1. SavingOK' /\ IsStore(cache')
      BY <2>16, EndSaveType DEF OtherTabFinishes
    <3> QED
      BY <2>16, <3>1 DEF OtherTabFinishes, TypeOK, SavingOK
  <2>11. ASSUME NEW r \in pending, AnswerCaseList(r), UNCHANGED steps PROVE TypeOK'
    BY <2>11 DEF AnswerCaseList, TypeOK, Pending
  <2>12. ASSUME NEW r \in pending, AnswerCase(r), UNCHANGED steps PROVE TypeOK'
    <3>1. displayData' \in View /\ yamlStr' \in Text
      <4>1. CASE \E name \in CaseNames : SetDisplayData(PostToView(CaseOf[name]))
        BY <4>1, Sources, PostToViewType, SetDisplayDataType
      <4> QED
        BY <2>12, <4>1 DEF AnswerCase, TypeOK
    <3> QED
      BY <2>12, <3>1 DEF AnswerCase, TypeOK, Pending
  <2>13. ASSUME NEW r \in pending, AnswerExec(r), UNCHANGED steps PROVE TypeOK'
    <3>1. r.id \in 1 .. MaxExecs
      BY <2>0, <2>13, Bounds DEF AnswerExec, Pending, PendingOK, TypeOK
    <3>2. consoleData' \in Console
      BY <2>13, <3>1 DEF AnswerExec, Console, Answers, ShowsAnswer
    <3> QED
      BY <2>13, <3>2 DEF AnswerExec, TypeOK, Pending
  <2>14. CASE UNCHANGED vars
    BY <2>14 DEF vars, TypeOK
  <2> QED
    BY <2>1, <2>2, <2>3, <2>4, <2>5, <2>6, <2>7, <2>8, <2>9, <2>10, <2>11, <2>12, <2>13, <2>14,
       <2>15, <2>16 DEF Next, User, Answer
<1> QED
  BY <1>1, <1>2, PTL DEF Spec

-----------------------------------------------------------------------------
(* Form and text *)

\* The conversions lose nothing that matters of the cases the module considers,
\* nor of the case that has got into the form, however it got there.
THEOREM ConversionsRoundTrip == Spec => []RoundTrip
<1>1. TypeOK => RoundTrip
  BY FormKeepsCases, TextKeepsForms, SampleAssumption DEF TypeOK, RoundTrip, ConversionsAgree
<1> QED
  BY <1>1, TypeCorrect, PTL

\* Deleting an empty template before or after the conversion is the same.
LEMMA DropOnce ==
  ASSUME NEW view \in View
  PROVE  SameCase(ViewToPost(view), ViewToPost(DropEmptyTmpl(view)))
<1> DEFINE d == DropEmptyTmpl(view)
           p == ViewToPost(view)
           q == ViewToPost(d)
           none(x) == IF x = "empty" THEN "none" ELSE x
<1>1. d \in View
  BY EditedView DEF View, Case
<1>2. /\ d.trace = view.trace /\ d.expect = view.expect /\ d.tmpl = none(view.tmpl)
  BY DEF DropEmptyTmpl, View, Case
<1>3. p = [trace |-> p.trace, expect |-> view.expect, validate |-> FALSE, tmpl |-> view.tmpl]
  BY ViewToPostIs
<1> HIDE DEF d
<1>4. q = [trace |-> p.trace, expect |-> view.expect, validate |-> FALSE, tmpl |-> none(view.tmpl)]
  <2> DEFINE h(w) == [i \in DOMAIN w.trace |-> [headers |-> ToObj(w.trace[i].headers),
                                                queries |-> ToObj(w.trace[i].queries)]]
  <2>1. h(d) = h(view)
    BY <1>2
  <2>2. /\ p = [trace |-> h(view), expect |-> view.expect, validate |-> FALSE, tmpl |-> view.tmpl]
        /\ q = [trace |-> h(d), expect |-> d.expect, validate |-> FALSE, tmpl |-> d.tmpl]
    BY <1>1, ViewToPostIs
  <2> HIDE DEF h, p, q, none
  <2>3. p.trace = h(view)
    BY <2>2
  <2> QED
    BY <1>2, <2>1, <2>2, <2>3
<1> HIDE DEF p, q
<1>5. DropEmptyTmpl(p) = DropEmptyTmpl(q)
  <2>2. none(none(view.tmpl)) = none(view.tmpl)
    OBVIOUS
  <2> HIDE DEF none
  <2>3. /\ p.trace = q.trace /\ p.expect = q.expect /\ p.validate = q.validate
        /\ none(p.tmpl) = none(q.tmpl)
    <3>1. p.expect = view.expect /\ p.validate = FALSE /\ p.tmpl = view.tmpl
      BY <1>3
    <3>2. /\ q.trace = p.trace /\ q.expect = view.expect /\ q.validate = FALSE
          /\ q.tmpl = none(view.tmpl)
      BY <1>4
    <3> QED
      BY <2>2, <3>1, <3>2
  <2>4. p \in Case(Object) /\ q \in Case(Object)
    BY <1>1, ViewToPostType DEF Post, p, q
  <2>5. ASSUME NEW c \in Case(Object)
        PROVE  DropEmptyTmpl(c) = [trace |-> c.trace, expect |-> c.expect,
                                   validate |-> c.validate, tmpl |-> none(c.tmpl)]
    <3>1. DropEmptyTmpl(c) = [c EXCEPT !.tmpl = none(c.tmpl)]
      BY DEF DropEmptyTmpl, none
    <3> QED
      BY <3>1 DEF Case
  <2> QED
    BY <2>3, <2>4, <2>5
<1> QED
  BY <1>5 DEF SameCase, p, q, d

\* The text and the form are the same case, as far as the text is one.
Agree == yamlStr.yields = "case" => SameCase(Normal(yamlStr.case), ViewToPost(displayData))

\* An answer or an edit of the form brings both to the same case.
LEMMA SetDisplayDataAgrees ==
  ASSUME TypeOK, NEW view \in View, SetDisplayData(view), ~yamlTextFocused
  PROVE  Agree'
<1>1. yamlStr' = ToYaml(ViewToPost(view)) /\ displayData' = DropEmptyTmpl(view)
  BY DEF SetDisplayData
<1>2. SameCase(Normal(ViewToPost(view)), ViewToPost(DropEmptyTmpl(view)))
  BY FormsAreNormal, DropOnce
<1> QED
  BY <1>1, <1>2 DEF Agree, ToYaml

\* So does what is typed.
LEMMA EditYamlAgrees ==
  ASSUME TypeOK, EditYaml
  PROVE  Agree'
<1>1. ASSUME NEW post \in Typed, yamlStr' = ToYaml(post),
             displayData' = DropEmptyTmpl(PostToView(post))
      PROVE  Agree'
  <2>1. post \in Post
    BY Sources
  <2>2. ViewToPost(PostToView(post)) = Normal(post)
    BY <2>1, FormKeepsCases DEF KeptByForm
  <2>3. SameCase(Normal(post), ViewToPost(DropEmptyTmpl(PostToView(post))))
    BY <2>1, <2>2, PostToViewType, DropOnce
  <2> QED
    BY <1>1, <2>3 DEF Agree, ToYaml
<1>2. ASSUME NEW text \in OddText, yamlStr' = text PROVE Agree'
  BY <1>2 DEF OddText, Agree
<1> QED
  BY <1>1, <1>2 DEF EditYaml

\* Every step keeps form and text the same, when no case arrives while the text
\* has the focus.
LEMMA AgreeStep ==
  ASSUME TypeOK, Unhurried, Agree, [Next]_vars
  PROVE  Agree'
<1> USE DEF edit
<1>1. ASSUME UNCHANGED <<displayData, yamlStr>> PROVE Agree'
  BY <1>1 DEF Agree
<1>2. CASE EditForm
  <2>1. PICK view \in Filled :
          SetDisplayData(DropEmptyTmpl([view EXCEPT !.expect = displayData.expect,
                                                    !.validate = displayData.validate]))
    BY <1>2 DEF EditForm
  <2>2. displayData.expect \in BOOLEAN /\ displayData.validate \in BOOLEAN /\ view \in View
    BY Sources DEF TypeOK, View, Case
  <2>3. ~yamlTextFocused
    BY <1>2 DEF EditForm
  <2> QED
    BY <2>1, <2>2, <2>3, EditedView, SetDisplayDataAgrees
<1>3. CASE Reload
  <2>1. /\ yamlStr' = ToYaml(ViewToPost(FirstView)) /\ displayData' = FirstView
    BY <1>3 DEF Reload
  <2>2. SameCase(Normal(ViewToPost(FirstView)), ViewToPost(FirstView))
    BY FirstViewType, FormsAreNormal DEF SameCase
  <2> QED
    BY <2>1, <2>2 DEF Agree, ToYaml
<1>4. ASSUME NEW r \in pending, AnswerCase(r) PROVE Agree'
  <2>1. ~yamlTextFocused
    BY <1>4 DEF AnswerCase, Unhurried
  <2>2. CASE \E name \in CaseNames : SetDisplayData(PostToView(CaseOf[name]))
    BY <2>1, <2>2, Sources, PostToViewType, SetDisplayDataAgrees
  <2> QED
    BY <1>1, <1>4, <2>2 DEF AnswerCase
<1>5. CASE \/ Focus \/ GetCase \/ Submit \/ SaveToCache \/ ShowCache \/ CopyToClipboard
           \/ ClearCache \/ FinishSave \/ \E tab \in Tabs : OtherTab(tab) \/ OtherTabFinishes(tab)
  BY <1>1, <1>5 DEF Focus, GetCase, Submit, SaveToCache, ShowCache, CopyToClipboard, ClearCache,
                    FinishSave, OtherTab, OtherTabFinishes
<1>6. ASSUME NEW r \in pending, AnswerCaseList(r) \/ AnswerExec(r) PROVE Agree'
  BY <1>1, <1>6 DEF AnswerCaseList, AnswerExec
<1>7. CASE UNCHANGED vars
  BY <1>1, <1>7 DEF vars
<1> QED
  BY <1>2, <1>3, <1>4, <1>5, <1>6, <1>7, EditYamlAgrees DEF Next, User, Answer

\* Form and text of a page that has just been loaded agree.
LEMMA AgreeInit == Init => Agree
<1>1. SameCase(Normal(ViewToPost(FirstView)), ViewToPost(FirstView))
  BY FirstViewType, FormsAreNormal DEF SameCase
<1> QED
  BY <1>1 DEF Init, Agree, ToYaml

\* Form and text stay two copies of one case, whatever is edited, typed, loaded
\* or reloaded, as long as nobody types while a case is on its way.
THEOREM TextAndFormAgree == Spec => TextAgreesWithForm
<1>1. TypeOK /\ Unhurried /\ Agree /\ [Next]_vars => Agree'
  BY AgreeStep
<1> QED
  BY <1>1, AgreeInit, TypeCorrect, PTL DEF Spec, TextAgreesWithForm, Agree

-----------------------------------------------------------------------------
(* Executions *)

\* What has been sent is validated when the case in it has an expectation.
Validated == \A r \in Pending("exec") : r.json.yields = "case" => r.validate = r.json.expect

\* The form's expectation is that of the text, when both are the same case.
LEMMA SameExpectation ==
  ASSUME TypeOK, Agree, yamlStr.yields = "case"
  PROVE  displayData.expect = yamlStr.case.expect
<1> DEFINE p == Normal(yamlStr.case)
           q == ViewToPost(displayData)
<1>1. yamlStr.case \in Post
  BY DEF TypeOK, Text, OddText
<1>2. displayData \in View
  BY DEF TypeOK
<1>3. p.expect = yamlStr.case.expect
  BY <1>1, NormalIs
<1>4. q.expect = displayData.expect /\ q \in Case(Object)
  BY <1>2, ViewToPostIs, ViewToPostType DEF Post
<1>5. DropEmptyTmpl(p) = DropEmptyTmpl(q)
  BY DEF Agree, SameCase
<1>6. p = [trace |-> p.trace, expect |-> p.expect, validate |-> p.validate, tmpl |-> p.tmpl]
  BY <1>1, NormalIs
<1> HIDE DEF p, q
<1>7. DropEmptyTmpl(p).expect = p.expect
  BY <1>6 DEF DropEmptyTmpl
<1>8. DropEmptyTmpl(q).expect = q.expect
  BY <1>4 DEF DropEmptyTmpl, Case
<1> QED
  BY <1>3, <1>4, <1>5, <1>7, <1>8

\* Only submit sends a case to be executed.
LEMMA PendingExecs ==
  ASSUME [Next]_vars
  PROVE  \/ /\ Pending("exec")' = Pending("exec") \cup
                  {ExecRequest(execs + 1, yamlStr, displayData.expect)}
            /\ yamlStr.yields # "error" /\ Submit /\ execs' = execs + 1
         \/ /\ Pending("exec")' \subseteq Pending("exec") /\ execs' = execs
            /\ \/ /\ Pending("exec")' = Pending("exec")
                  /\ consoleData' = consoleData \/ \E what : consoleData' = Shows(what)
               \/ Reload \/ \E r \in Pending("exec") : AnswerExec(r)
<1> USE DEF Pending
<1>1. CASE GetCase
  BY <1>1 DEF GetCase, CaseRequest
<1>2. CASE Submit
  BY <1>2 DEF Submit, ExecRequest
<1>3. CASE Reload
  BY <1>3 DEF Reload, CaseListRequest
<1>4. CASE \E r \in pending : Answer(r)
  BY <1>4 DEF Answer, AnswerCaseList, AnswerCase, AnswerExec
<1>5. CASE \/ EditForm \/ Focus \/ EditYaml \/ SaveToCache \/ ShowCache \/ CopyToClipboard
           \/ ClearCache \/ FinishSave \/ UNCHANGED vars
           \/ \E tab \in Tabs : OtherTab(tab) \/ OtherTabFinishes(tab)
  BY <1>5 DEF EditForm, Focus, EditYaml, SaveToCache, ShowCache, CopyToClipboard, ClearCache,
              FinishSave, OtherTab, OtherTabFinishes, vars
<1> QED
  BY <1>1, <1>2, <1>3, <1>4, <1>5 DEF Next, User

\* What is sent is validated as it says, since form and text agree when it is sent
\* and nothing changes it on its way.
THEOREM SentIsValidated == Spec => ValidatesWhatItSends
<1>1. Init => Validated
  BY DEF Init, Validated, Pending, CaseListRequest
<1>2. TypeOK /\ Agree /\ Validated /\ [Next]_vars => Validated'
  <2> SUFFICES ASSUME TypeOK, Agree, Validated, [Next]_vars PROVE Validated'
    OBVIOUS
  <2>1. CASE Pending("exec")' \subseteq Pending("exec")
    BY <2>1 DEF Validated
  <2>2. CASE Pending("exec")' = Pending("exec") \cup
               {ExecRequest(execs + 1, yamlStr, displayData.expect)}
    <3> DEFINE q == ExecRequest(execs + 1, yamlStr, displayData.expect)
    <3>1. /\ q.validate = displayData.expect
          /\ q.json.yields = yamlStr.yields
          /\ q.json.expect = (yamlStr.yields = "case" /\ yamlStr.case.expect)
      BY DEF ExecRequest, Json
    <3>2. ASSUME q.json.yields = "case" PROVE q.validate = q.json.expect
      <4>1. yamlStr.case.expect \in BOOLEAN /\ yamlStr.yields = "case"
        BY <3>1, <3>2 DEF TypeOK, Text, OddText, Post, Case
      <4>2. displayData.expect = yamlStr.case.expect
        BY <4>1, SameExpectation
      <4> QED
        BY <3>1, <4>1, <4>2
    <3> HIDE DEF q
    <3> QED
      BY <2>2, <3>2 DEF Validated, q
  <2> QED
    BY <2>1, <2>2, PendingExecs
<1>3. TypeOK /\ Unhurried /\ Agree /\ [Next]_vars => Agree'
  BY AgreeStep
<1> QED
  BY <1>1, <1>2, <1>3, AgreeInit, TypeCorrect, PTL DEF Spec, ValidatesWhatItSends, Validated

\* All executions asked for after one that is awaited, or shown, are awaited.
Current ==
  /\ \A r \in Pending("exec") : \A id \in r.id .. execs : \E q \in Pending("exec") : q.id = id
  /\ consoleData \in Answers =>
       \A id \in consoleData.of + 1 .. execs : \E q \in Pending("exec") : q.id = id

\* The answer to an execution leaves those after it awaited, and none before it.
LEMMA CurrentAnswer ==
  ASSUME TypeOK, Current, InOrder', NEW r \in Pending("exec"), AnswerExec(r)
  PROVE  Current'
<1>1. /\ Pending("exec")' = Pending("exec") \ {r} /\ execs' = execs
      /\ consoleData' \in Answers /\ consoleData'.of = r.id
  <2>1. \A id \in 1 .. MaxExecs : /\ ShowsAnswer("result", id) \in Answers
                                  /\ ShowsAnswer("error", id) \in Answers
    BY DEF Answers, ShowsAnswer
  <2>2. r.id \in 1 .. MaxExecs
    BY Bounds DEF TypeOK, Pending
  <2>3. consoleData' = ShowsAnswer("result", r.id) \/ consoleData' = ShowsAnswer("error", r.id)
    BY DEF AnswerExec
  <2>4. consoleData' \in Answers
    BY <2>1, <2>2, <2>3
  <2>5. consoleData'.of = r.id
    BY <2>3 DEF ShowsAnswer
  <2>6. Pending("exec")' = Pending("exec") \ {r} /\ execs' = execs
    BY DEF AnswerExec, Pending
  <2> QED
    BY <2>4, <2>5, <2>6
<1>2. execs \in Nat /\ \A q \in Pending("exec") : q.id \in Nat
  BY Bounds DEF TypeOK, Pending
<1>3. \A q \in Pending("exec") \ {r} : q.id > r.id
  BY <1>1 DEF InOrder
<1>4. ASSUME NEW q \in Pending("exec") \ {r}, NEW id \in q.id .. execs
      PROVE  \E p \in Pending("exec") \ {r} : p.id = id
  <2>1. PICK p \in Pending("exec") : p.id = id
    BY <1>4 DEF Current
  <2>2. p # r
    BY <1>2, <1>3, <2>1
  <2> QED
    BY <2>1, <2>2
<1>5. ASSUME NEW id \in r.id + 1 .. execs
      PROVE  \E p \in Pending("exec") \ {r} : p.id = id
  <2>1. id \in r.id .. execs /\ id # r.id
    BY <1>2
  <2>2. PICK p \in Pending("exec") : p.id = id
    BY <2>1 DEF Current
  <2> QED
    BY <2>1, <2>2
<1> QED
  BY <1>1, <1>4, <1>5 DEF Current

\* An execution asked for is the last of those awaited.
LEMMA CurrentSubmit ==
  ASSUME TypeOK, Current, Submit, execs' = execs + 1,
         Pending("exec")' = Pending("exec") \cup
           {ExecRequest(execs + 1, yamlStr, displayData.expect)}
  PROVE  Current'
<1> DEFINE q == ExecRequest(execs + 1, yamlStr, displayData.expect)
<1>1. q.id = execs + 1
  BY DEF ExecRequest
<1> HIDE DEF q
<1>2. execs \in Nat /\ \A r \in Pending("exec") : r.id \in Nat
  BY Bounds DEF TypeOK, Pending
<1>3. ASSUME NEW r \in Pending("exec") \cup {q}, NEW id \in r.id .. execs + 1
      PROVE  \E p \in Pending("exec") \cup {q} : p.id = id
  <2>1. CASE id = execs + 1
    BY <1>1, <2>1
  <2>2. CASE id # execs + 1
    <3>1. r # q /\ id \in r.id .. execs
      BY <1>1, <1>2, <1>3, <2>2
    <3> QED
      BY <3>1 DEF Current
  <2> QED
    BY <2>1, <2>2
<1>4. consoleData' \notin Answers
  BY DEF Submit, Shows, Answers
<1> QED
  BY <1>3, <1>4 DEF Current, q

\* As long as answers come in order, however many are awaited and whatever fails or is
\* done meanwhile, an answer stays in the console only until the next one comes.
THEOREM ConsoleIsCurrent == Spec => ConsoleKeepsUp
<1>1. Init => Current
  BY DEF Init, Current, Pending, CaseListRequest, Shows, Answers
<1>2. TypeOK /\ Current /\ InOrder' /\ [Next]_vars => Current'
  <2> SUFFICES ASSUME TypeOK, Current, InOrder', [Next]_vars PROVE Current'
    OBVIOUS
  <2>1. CASE Reload
    BY <2>1 DEF Reload, Current, Pending, CaseListRequest, Shows, Answers
  <2>2. CASE \E r \in Pending("exec") : AnswerExec(r)
    BY <2>2, CurrentAnswer
  <2>3. CASE /\ Pending("exec")' = Pending("exec") /\ execs' = execs
             /\ consoleData' = consoleData \/ \E what : consoleData' = Shows(what)
    <3>1. \A what : Shows(what) \notin Answers
      BY DEF Shows, Answers
    <3> QED
      BY <2>3, <3>1 DEF Current
  <2>4. CASE /\ Pending("exec")' = Pending("exec") \cup
                    {ExecRequest(execs + 1, yamlStr, displayData.expect)}
             /\ Submit /\ execs' = execs + 1
    BY <2>4, CurrentSubmit
  <2> QED
    BY <2>1, <2>2, <2>3, <2>4, PendingExecs
<1>3. Current => (consoleData \in Answers =>
        \A id \in consoleData.of + 1 .. execs : \E r \in Pending("exec") : r.id = id)
  BY DEF Current
<1> QED
  BY <1>1, <1>2, <1>3, TypeCorrect, PTL DEF Spec, ConsoleKeepsUp
-----------------------------------------------------------------------------
(* Saved cases *)

StoreStill == UNCHANGED <<ViewToPost(displayData), SavedNow, BegunNow>>

\* A step that leaves the form, what is saved or the saves under way as they were,
\* seen from the store.
LEMMA SeenByStore ==
  /\ UNCHANGED displayData => UNCHANGED ViewToPost(displayData)
  /\ UNCHANGED cache => UNCHANGED SavedNow
  /\ UNCHANGED saving => UNCHANGED BegunNow
BY DEF SavedNow, BegunNow, SavedCases, SavedCase

\* What this tab is saving is the case in the form.
SavesForm == \A s \in saving[Here] : s.post = ViewToPost(displayData)

\* While this tab saves, nothing else in it changes the form.
LEMMA SavesFormStep ==
  ASSUME TypeOK, SavesForm, [Next]_vars
  PROVE  SavesForm' /\ (UNCHANGED displayData \/ (Idle /\ UNCHANGED store))
<1> USE DEF edit, store
<1>1. Here \in Tabs /\ DOMAIN saving = Tabs
  BY AppAssumption DEF TypeOK
<1>2. ASSUME Idle, UNCHANGED saving PROVE SavesForm'
  <2>1. saving'[Here] = {}
    BY <1>2 DEF Idle
  <2> QED
    BY <2>1 DEF SavesForm
<1>3. CASE UNCHANGED <<displayData, saving>>
  BY <1>3 DEF SavesForm
<1>4. CASE SaveToCache
  <2>1. PICK name \in SaveNames : BeginSave(Here, name, ViewToPost(displayData))
    BY <1>4 DEF SaveToCache
  <2> DEFINE s == [name |-> name, post |-> ViewToPost(displayData), read |-> cache]
  <2>2. saving' = [saving EXCEPT ![Here] = {s}] /\ s.post = ViewToPost(displayData)
    BY <2>1 DEF BeginSave
  <2> HIDE DEF s
  <2>3. saving'[Here] = {s} /\ displayData' = displayData
    BY <1>1, <1>4, <2>2 DEF SaveToCache
  <2> QED
    BY <2>2, <2>3 DEF SavesForm
<1>5. CASE FinishSave
  BY <1>1, <1>5 DEF FinishSave, EndSave, SavesForm
<1>6. ASSUME NEW tab \in Tabs \ {Here}, OtherTab(tab) \/ OtherTabFinishes(tab)
      PROVE  saving'[Here] = saving[Here] /\ UNCHANGED displayData
  BY <1>1, <1>6 DEF OtherTab, OtherTabFinishes, BeginSave, EndSave
<1>7. CASE Idle /\ \/ EditForm \/ Focus \/ EditYaml \/ GetCase \/ Submit \/ ShowCache
                   \/ CopyToClipboard \/ ClearCache \/ Reload
  <2>1. UNCHANGED saving /\ (UNCHANGED displayData \/ UNCHANGED cache)
    BY <1>7 DEF EditForm, Focus, EditYaml, GetCase, Submit, ShowCache, CopyToClipboard, ClearCache, Reload
  <2> QED
    BY <1>2, <1>7, <2>1
<1>8. CASE Idle /\ \E r \in pending : Answer(r)
  <2>1. UNCHANGED store
    BY <1>8 DEF Answer, AnswerCaseList, AnswerCase, AnswerExec
  <2> QED
    BY <1>2, <1>8, <2>1
<1>9. CASE UNCHANGED vars
  BY <1>3, <1>9 DEF vars
<1>10. CASE \E tab \in Tabs \ {Here} : OtherTab(tab) \/ OtherTabFinishes(tab)
  BY <1>6, <1>10 DEF SavesForm
<1>11. SaveToCache \/ FinishSave => UNCHANGED displayData
  BY DEF SaveToCache, FinishSave
<1> QED
  BY <1>4, <1>5, <1>7, <1>8, <1>9, <1>10, <1>11 DEF Next, User, vars

\* A tab begins to save: what is saved by then is kept in mind.
LEMMA BeginIs ==
  ASSUME TypeOK, NEW tab \in Tabs, NEW name \in SaveNames, NEW post, BeginSave(tab, name, post),
         UNCHANGED displayData
  PROVE  Store!Next
<1> DEFINE s == [name |-> name, post |-> post, read |-> cache]
<1>1. saving' = [saving EXCEPT ![tab] = {s}] /\ cache' = cache /\ s.read = cache /\ saving[tab] = {}
  BY DEF BeginSave
<1> HIDE DEF s
<1>2. BegunNow[tab] = {}
  BY <1>1 DEF BegunNow
<1>3. BegunNow' = [BegunNow EXCEPT ![tab] = {SavedNow}]
  <2>1. \A t \in Tabs : saving'[t] = IF t = tab THEN {s} ELSE saving[t]
    BY <1>1 DEF TypeOK
  <2>2. SavedCases(s.read) = SavedNow
    BY <1>1 DEF SavedNow
  <2>3. ASSUME NEW t \in Tabs
        PROVE  BegunNow'[t] = IF t = tab THEN {SavedNow} ELSE BegunNow[t]
    <3>1. BegunNow'[t] = {SavedCases(x.read) : x \in saving'[t]}
      BY DEF BegunNow
    <3>2. BegunNow[t] = {SavedCases(x.read) : x \in saving[t]}
      BY DEF BegunNow
    <3>3. CASE t = tab
      BY <2>1, <2>2, <3>1, <3>3
    <3>4. CASE t # tab
      BY <2>1, <3>1, <3>2, <3>4
    <3> QED
      BY <3>3, <3>4
  <2>4. /\ BegunNow = [t \in Tabs |-> BegunNow[t]]
        /\ BegunNow' = [t \in Tabs |-> BegunNow'[t]]
    BY DEF BegunNow
  <2> QED
    BY <2>3, <2>4
<1>4. Store!Begin(tab)
  BY <1>1, <1>2, <1>3, SeenByStore DEF Store!Begin
<1> QED
  BY <1>4 DEF Store!Next

\* It writes: its case is saved, and every other name has its case of now or of then.
LEMMA EndIs ==
  ASSUME TypeOK, SavesForm, NEW tab \in Tabs, EndSave(tab), UNCHANGED displayData
  PROVE  Store!Next
<1>1. PICK s \in saving[tab] : /\ cache' = Stored(s.read, s.name, s.post)
                               /\ saving' = [saving EXCEPT ![tab] = {}]
  BY DEF EndSave
<1>2. IsSave(s)
  BY DEF TypeOK, MaySave
<1> DEFINE before == SavedCases(s.read)
<1>3. before \in BegunNow[tab]
  BY DEF BegunNow
<1>4. BegunNow' = [BegunNow EXCEPT ![tab] = {}]
  <2>1. \A t \in Tabs : saving'[t] = IF t = tab THEN {} ELSE saving[t]
    BY <1>1 DEF TypeOK
  <2> QED
    BY <2>1 DEF BegunNow
<1>5. \A m \in SaveNames : SavedCase(cache, m)' = IF m = s.name THEN s.post ELSE SavedCase(s.read, m)
  <2>1. \A m \in SaveNames :
          /\ m \in DOMAIN cache' <=> m = s.name \/ (s.read # Undefined /\ m \in DOMAIN s.read)
          /\ m \in DOMAIN cache' => cache'[m] = IF m = s.name THEN s.post ELSE s.read[m]
    BY <1>1, <1>2, StoredIs DEF IsSave
  <2>2. cache' # Undefined
    BY <1>1, <1>2, StoredIs DEF IsSave
  <2> QED
    BY <2>1, <2>2 DEF SavedCase
<1>6. /\ DOMAIN SavedNow' = SaveNames /\ SavedNow'[s.name] = s.post
      /\ \A m \in SaveNames \ {s.name} : SavedNow'[m] \in {SavedNow[m], before[m]}
  BY <1>2, <1>5 DEF SavedNow, SavedCases, IsSave
<1>7. s.name \in SaveNames /\ s.post \in Post /\ (tab = Here => s.post = ViewToPost(displayData))
  BY <1>2 DEF IsSave, SavesForm
<1> HIDE DEF before
<1>8. Store!Save(tab, s.name)
  BY <1>3, <1>4, <1>6, <1>7, SeenByStore DEF Store!Save
<1> QED
  BY <1>7, <1>8 DEF Store!Next

\* The tabs together implement the store of cases: each step of the page or of another
\* tab is a step of CaseStore or changes nothing of it.
THEOREM SavesImplementStore == Spec => SavesAreKept
<1>1. Init => Store!Init /\ SavesForm
  <2> SUFFICES ASSUME Init PROVE Store!Init /\ SavesForm
    OBVIOUS
  <2>1. ViewToPost(displayData) \in Post
    BY FirstViewType, ViewToPostType DEF Init
  <2>2. SavedNow = [name \in SaveNames |-> Undefined]
    BY DEF Init, SavedNow, SavedCases, SavedCase
  <2>3. saving = [tab \in Tabs |-> {}]
    BY DEF Init
  <2>4. BegunNow = [tab \in Tabs |-> {}] /\ SavesForm
    <3>1. \A t \in Tabs : saving[t] = {}
      BY <2>3
    <3>2. \A t \in Tabs : {SavedCases(s.read) : s \in saving[t]} = {}
      BY <3>1
    <3>3. BegunNow = [tab \in Tabs |-> {}]
      BY <3>2 DEF BegunNow
    <3>4. SavesForm
      BY <3>1, AppAssumption DEF SavesForm
    <3> QED
      BY <3>3, <3>4
  <2>5. Store!Init
    BY <2>1, <2>2, <2>4 DEF Store!Init
  <2> QED
    BY <2>4, <2>5
<1>2. TypeOK /\ TypeOK' /\ SavesForm /\ [Next]_vars
        => [Store!Next]_<<ViewToPost(displayData), SavedNow, BegunNow>> /\ SavesForm'
  <2> SUFFICES ASSUME TypeOK, TypeOK', SavesForm, [Next]_vars
               PROVE  (Store!Next \/ StoreStill) /\ SavesForm'
    BY DEF StoreStill
  <2> USE DEF edit, page, store
  <2>1. ViewToPost(displayData)' \in Post
    BY ViewToPostType DEF TypeOK
  <2>2. SavesForm' /\ (UNCHANGED displayData \/ (Idle /\ UNCHANGED store))
    BY SavesFormStep
  <2>3. CASE UNCHANGED displayData /\ UNCHANGED store
    BY <2>2, <2>3, SeenByStore DEF StoreStill
  <2>4. CASE Idle /\ UNCHANGED store
    <3>1. BegunNow[Here] = {}
      BY <2>4, AppAssumption DEF BegunNow, Idle
    <3>2. Store!Edit
      BY <2>1, <2>4, <3>1, SeenByStore DEF Store!Edit
    <3> QED
      BY <2>2, <3>2 DEF Store!Next
  <2>5. CASE cache' = Undefined /\ UNCHANGED saving /\ UNCHANGED displayData
    <3>1. SavedNow' = [name \in SaveNames |-> Undefined]
      BY <2>5 DEF SavedNow, SavedCases, SavedCase
    <3>2. Store!Clear
      BY <2>5, <3>1, SeenByStore DEF Store!Clear
    <3> QED
      BY <2>2, <3>2 DEF Store!Next
  <2>6. CASE SaveToCache
    BY <2>2, <2>6, BeginIs, AppAssumption DEF SaveToCache
  <2>7. CASE FinishSave
    BY <2>2, <2>7, EndIs, AppAssumption DEF FinishSave
  <2>8. ASSUME NEW tab \in Tabs, OtherTab(tab) PROVE (Store!Next \/ StoreStill) /\ SavesForm'
    BY <2>2, <2>5, <2>8, BeginIs DEF OtherTab
  <2>9. ASSUME NEW tab \in Tabs, OtherTabFinishes(tab) PROVE (Store!Next \/ StoreStill) /\ SavesForm'
    BY <2>2, <2>9, EndIs DEF OtherTabFinishes
  <2>10. CASE ClearCache
    BY <2>5, <2>10 DEF ClearCache
  <2>11. CASE \E r \in pending : Answer(r)
    <3>1. UNCHANGED store
      BY <2>11 DEF Answer, AnswerCaseList, AnswerCase, AnswerExec
    <3> QED
      BY <2>2, <2>3, <2>4, <3>1
  <2>12. CASE EditForm \/ Focus \/ EditYaml \/ GetCase \/ Submit \/ ShowCache
              \/ CopyToClipboard \/ Reload \/ UNCHANGED vars
    <3>1. UNCHANGED store
      BY <2>12 DEF EditForm, Focus, EditYaml, GetCase, Submit, ShowCache, CopyToClipboard, Reload, vars
    <3> QED
      BY <2>2, <2>3, <2>4, <3>1
  <2> QED
    BY <2>6, <2>7, <2>8, <2>9, <2>10, <2>11, <2>12 DEF Next, User
<1> QED
  BY <1>1, <1>2, TypeCorrect, PTL DEF Spec, SavesAreKept, Store!Spec
-----------------------------------------------------------------------------
(* Addresses *)

\* The least of some of the first natural numbers.
LEMMA LeastExists ==
  ASSUME NEW m \in Nat, NEW T \in SUBSET (1 .. m), T # {}
  PROVE  \E i \in T : \A j \in T : i <= j
<1> DEFINE D == {(m + 1) - i : i \in T}
<1>1. \A i \in T : i \in 1 .. m /\ (m + 1) - i \in 1 .. m /\ (m + 1) - i \in D
  OBVIOUS
<1>2. D \in SUBSET (1 .. m) /\ D # {}
  BY <1>1
<1>3. \A d \in D : \E i \in T : d = (m + 1) - i
  OBVIOUS
<1> HIDE DEF D
<1>4. PICK d \in D : \A y \in D : y <= d
  BY <1>2, GreatestExists
<1>5. PICK i \in T : d = (m + 1) - i
  BY <1>3
<1> QED
  BY <1>1, <1>4, <1>5

\* The scope of a page has no separator but a question mark.
LEMMA ScopeIs ==
  ASSUME NEW s \in Searches \cup {<<>>}, GetQueryValue("scope", s) # Undefined
  PROVE  GetQueryValue("scope", s) \in Seq(Pieces \ {"&", "#"})
<1> DEFINE hits == {i \in DOMAIN s : s[i][1] = "scope"}
           first == CHOOSE i \in hits : \A j \in hits : i <= j
<1>1. GetQueryValue("scope", s) = IF hits = {} THEN Undefined ELSE s[first][2]
  BY DEF GetQueryValue
<1>2. hits # {}
  BY <1>1
<1>3. s \in Searches
  <2>1. s = <<>> => hits = {}
    OBVIOUS
  <2> QED
    BY <1>2, <2>1
<1>4. /\ Len(s) \in Nat /\ hits \in SUBSET (1 .. Len(s))
      /\ \A i \in hits : s[i][2] \in Seq(Pieces \ {"&", "#"}) \cup {Undefined}
  BY <1>3, AppAssumption
<1> HIDE DEF hits
<1>5. \E i \in hits : \A j \in hits : i <= j
  BY <1>2, <1>4, LeastExists
<1>6. first \in hits
  BY <1>5
<1> QED
  BY <1>1, <1>2, <1>4, <1>6

\* An address u that is put together from another one and a scope.
IsAddress(u, base, v) ==
  /\ Len(u) = Len(base) + 2 + Len(v) /\ DOMAIN u = 1 .. Len(u)
  /\ Len(base) \in Nat /\ DOMAIN base = 1 .. Len(base)
  /\ Len(v) \in Nat /\ DOMAIN v = 1 .. Len(v)
  /\ \A i \in 1 .. Len(base) : u[i] = base[i]
  /\ u[Len(base) + 1] = IF \E i \in DOMAIN base : base[i] = "?" THEN "&" ELSE "?"
  /\ u[Len(base) + 2] = "scope="
  /\ \A i \in 1 .. Len(v) : u[Len(base) + 2 + i] = v[i]

\* What scopedUri makes of an address.
LEMMA ScopedUriIs ==
  ASSUME NEW S, NEW base \in Seq(S), NEW s,
         GetQueryValue("scope", s) # Undefined, GetQueryValue("scope", s) \in Seq(Pieces)
  PROVE  IsAddress(ScopedUri(base, s), base, GetQueryValue("scope", s))
<1> DEFINE v == GetQueryValue("scope", s)
           splitter == IF \E i \in DOMAIN base : base[i] = "?" THEN "&" ELSE "?"
           mid == <<splitter, "scope=">>
           T == S \cup Pieces \cup {"?", "&", "scope="}
<1>1. ScopedUri(base, s) = (base \o mid) \o v
  BY DEF ScopedUri
<1>2. base \in Seq(T) /\ v \in Seq(T) /\ mid \in Seq(T)
  <2>1. \A A, B : A \subseteq B => Seq(A) \subseteq Seq(B)
    OBVIOUS
  <2> QED
    BY <2>1
<1>3. Len(mid) = 2 /\ mid[1] = splitter /\ mid[2] = "scope="
  OBVIOUS
<1>4. /\ Len(base) \in Nat /\ DOMAIN base = 1 .. Len(base)
      /\ Len(v) \in Nat /\ DOMAIN v = 1 .. Len(v)
  BY <1>2, LenProperties
<1> DEFINE w == base \o mid
           u == w \o v
<1> HIDE DEF mid, T, v, splitter
<1>5. /\ w \in Seq(T) /\ Len(w) = Len(base) + Len(mid)
      /\ \A i \in 1 .. Len(base) + Len(mid) :
           w[i] = IF i <= Len(base) THEN base[i] ELSE mid[i - Len(base)]
  BY <1>2, ConcatProperties
<1> HIDE DEF w
<1>51. w \in Seq(T)
  BY <1>5
<1>6. /\ u \in Seq(T) /\ Len(u) = Len(w) + Len(v)
      /\ \A i \in 1 .. Len(w) + Len(v) : u[i] = IF i <= Len(w) THEN w[i] ELSE v[i - Len(w)]
  BY <1>2, <1>51, ConcatProperties
<1>7. DOMAIN u = 1 .. Len(u)
  BY <1>6, LenProperties
<1> HIDE DEF u
<1>8. Len(w) = Len(base) + 2 /\ Len(u) = Len(base) + 2 + Len(v)
  BY <1>3, <1>4, <1>5, <1>6
<1>9. \A i \in 1 .. Len(base) : u[i] = base[i]
  <2> SUFFICES ASSUME NEW i \in 1 .. Len(base) PROVE u[i] = base[i]
    OBVIOUS
  <2>1. i \in 1 .. Len(base) + Len(mid) /\ i \in 1 .. Len(w) + Len(v) /\ i <= Len(w) /\ i <= Len(base)
    BY <1>3, <1>4, <1>8
  <2> QED
    BY <1>5, <1>6, <2>1
<1>10. u[Len(base) + 1] = splitter /\ u[Len(base) + 2] = "scope="
  <2> SUFFICES ASSUME NEW k \in {1, 2} PROVE u[Len(base) + k] = mid[k]
    BY <1>3
  <2>1. PICK i \in Nat : i = Len(base) + k
    BY <1>4
  <2>2. /\ i \in 1 .. Len(base) + Len(mid) /\ i \in 1 .. Len(w) + Len(v) /\ i <= Len(w)
        /\ ~(i <= Len(base)) /\ i - Len(base) = k
    BY <1>3, <1>4, <1>8, <2>1
  <2>3. u[i] = w[i] /\ w[i] = mid[i - Len(base)]
    BY <1>5, <1>6, <2>2
  <2> QED
    BY <2>1, <2>2, <2>3
<1>11. \A k \in 1 .. Len(v) : u[Len(base) + 2 + k] = v[k]
  <2> SUFFICES ASSUME NEW k \in 1 .. Len(v) PROVE u[Len(base) + 2 + k] = v[k]
    OBVIOUS
  <2>1. PICK i \in Nat : i = Len(base) + 2 + k
    BY <1>4
  <2>2. i \in 1 .. Len(w) + Len(v) /\ ~(i <= Len(w)) /\ i - Len(w) = k
    BY <1>4, <1>8, <2>1
  <2> QED
    BY <1>6, <2>1, <2>2
<1>12. IsAddress(u, base, v)
  BY <1>4, <1>7, <1>8, <1>9, <1>10, <1>11 DEF IsAddress, splitter
<1> QED
  BY <1>1, <1>12 DEF u, w, v

\* The server gets the scope of such an address, when there is no fragment.
LEMMA ScopeArrives ==
  ASSUME NEW u, NEW base, NEW v \in Seq(Pieces \ {"&", "#"}), IsAddress(u, base, v),
         \A i \in DOMAIN base : base[i] # "#"
  PROVE  HasParam(u, <<"scope=">> \o v)
<1> DEFINE n == Len(base)
           m == Len(v)
           param == <<"scope=">> \o v
<1>0. n \in Nat /\ m \in Nat /\ DOMAIN base = 1 .. n /\ DOMAIN u = 1 .. n + 2 + m /\ Len(u) = n + 2 + m
  BY DEF IsAddress
<1>1. Len(param) = 1 + m /\ DOMAIN param = 1 .. 1 + m /\ param[1] = "scope="
      /\ \A k \in 1 .. m : param[1 + k] = v[k]
  <2>1. v \in Seq(Pieces \cup {"scope="}) /\ <<"scope=">> \in Seq(Pieces \cup {"scope="})
    OBVIOUS
  <2>2. Len(<<"scope=">>) = 1 /\ <<"scope=">>[1] = "scope="
    OBVIOUS
  <2>3. /\ param \in Seq(Pieces \cup {"scope="}) /\ Len(param) = 1 + m
        /\ \A i \in 1 .. 1 + m : param[i] = IF i <= 1 THEN <<"scope=">>[i] ELSE v[i - 1]
    BY <2>1, <2>2, ConcatProperties
  <2> HIDE DEF param, m
  <2>4. DOMAIN param = 1 .. 1 + m
    BY <2>3, LenProperties
  <2>5. param[1] = "scope="
    BY <1>0, <2>2, <2>3
  <2>6. ASSUME NEW k \in 1 .. m PROVE param[1 + k] = v[k]
    <3>1. PICK i \in Nat : i = 1 + k
      BY <1>0
    <3>2. i \in 1 .. 1 + m /\ ~(i <= 1) /\ i - 1 = k
      BY <1>0, <3>1
    <3> QED
      BY <2>3, <3>1, <3>2
  <2> QED
    BY <2>3, <2>4, <2>5, <2>6
<1>2. /\ \A i \in 1 .. n : u[i] = base[i]
      /\ u[n + 1] = IF \E i \in DOMAIN base : base[i] = "?" THEN "&" ELSE "?"
      /\ u[n + 2] = "scope=" /\ \A i \in 1 .. m : u[n + 2 + i] = v[i]
  BY DEF IsAddress
<1>3. \A i \in 1 .. m : v[i] # "#"
  BY LenProperties
<1> HIDE DEF n, m, param
<1>4. PICK i \in Nat : i = n + 1
  BY <1>0
<1>5. i \in DOMAIN u /\ i + Len(param) = Len(u) /\ i - 1 = n /\ Len(u) \in Nat
  BY <1>0, <1>1, <1>4
<1>6. \/ u[i] = "?" /\ \A j \in 1 .. i - 1 : u[j] # "?"
      \/ u[i] = "&" /\ \E j \in 1 .. i - 1 : u[j] = "?"
  <2>1. CASE \E j \in DOMAIN base : base[j] = "?"
    <3>1. PICK j \in 1 .. n : base[j] = "?"
      BY <1>0, <2>1
    <3> QED
      BY <1>2, <1>4, <1>5, <2>1, <3>1
  <2>2. CASE ~ \E j \in DOMAIN base : base[j] = "?"
    BY <1>0, <1>2, <1>4, <1>5, <2>2
  <2> QED
    BY <2>1, <2>2
<1>7. IsSent(u, i + Len(param))
  <2> SUFFICES ASSUME NEW j \in 1 .. n + 2 + m PROVE u[j] # "#"
    BY <1>0, <1>5 DEF IsSent
  <2>1. CASE j <= n
    BY <1>0, <1>2, <2>1
  <2>2. CASE j = n + 1
    BY <1>2, <2>2
  <2>3. CASE j = n + 2
    BY <1>2, <2>3
  <2>4. CASE j > n + 2
    <3>1. PICK k \in 1 .. m : j = n + 2 + k
      <4>1. j - (n + 2) \in 1 .. m /\ j = n + 2 + (j - (n + 2))
        BY <1>0, <2>4
      <4> QED
        BY <4>1
    <3> QED
      BY <1>2, <1>3, <3>1
  <2> QED
    BY <1>0, <2>1, <2>2, <2>3, <2>4
<1>8. ASSUME NEW k \in DOMAIN param PROVE u[i + k] = param[k]
  <2>1. CASE k = 1
    <3>1. i + k = n + 2
      BY <1>0, <1>4, <2>1
    <3> QED
      BY <1>1, <1>2, <2>1, <3>1
  <2>2. CASE k # 1
    <3>1. PICK j \in 1 .. m : k = 1 + j
      <4>1. k - 1 \in 1 .. m /\ k = 1 + (k - 1)
        BY <1>0, <1>1, <2>2
      <4> QED
        BY <4>1
    <3>2. i + k = n + 2 + j
      BY <1>0, <1>4, <3>1
    <3> QED
      BY <1>1, <1>2, <3>1, <3>2
  <2> QED
    BY <2>1, <2>2
<1>9. i + Len(param) <= Len(u) /\ ~(i + Len(param) < Len(u))
  BY <1>5
<1>10. HasParam(u, param)
  BY <1>5, <1>6, <1>7, <1>8, <1>9 DEF HasParam
<1> QED
  BY <1>10 DEF param

ExecBase == <<"/e", "?", "validate=true">>

\* So it does the parameter that asks for validation, with or without a scope.
LEMMA ValidateArrives ==
  ASSUME NEW u, u = ExecBase \/ \E v : IsAddress(u, ExecBase, v)
  PROVE  HasParam(u, <<"validate=true">>)
<1>1. /\ Len(ExecBase) = 3 /\ DOMAIN ExecBase = 1 .. 3
      /\ ExecBase[1] = "/e" /\ ExecBase[2] = "?" /\ ExecBase[3] = "validate=true"
  BY DEF ExecBase
<1>2. /\ Len(u) \in Nat /\ 3 <= Len(u) /\ DOMAIN u = 1 .. Len(u)
      /\ \A i \in 1 .. 3 : u[i] = ExecBase[i]
      /\ 3 < Len(u) => u[4] = "&"
  <2>1. CASE u = ExecBase
    <3>1. Len(u) = 3 /\ DOMAIN u = 1 .. 3
      BY <1>1, <2>1
    <3> QED
      BY <2>1, <3>1
  <2>2. ASSUME NEW v, IsAddress(u, ExecBase, v)
        PROVE  /\ Len(u) \in Nat /\ 3 <= Len(u) /\ DOMAIN u = 1 .. Len(u)
               /\ \A i \in 1 .. 3 : u[i] = ExecBase[i]
               /\ u[4] = "&"
    <3>1. /\ Len(u) = Len(ExecBase) + 2 + Len(v) /\ Len(v) \in Nat /\ DOMAIN u = 1 .. Len(u)
          /\ \A i \in 1 .. Len(ExecBase) : u[i] = ExecBase[i]
          /\ u[Len(ExecBase) + 1] = IF \E i \in DOMAIN ExecBase : ExecBase[i] = "?" THEN "&" ELSE "?"
      BY <2>2 DEF IsAddress
    <3>2. 2 \in DOMAIN ExecBase /\ ExecBase[2] = "?"
      BY <1>1
    <3>3. u[3 + 1] = "&"
      BY <1>1, <3>1, <3>2
    <3> QED
      BY <1>1, <3>1, <3>3
  <2> QED
    BY <2>1, <2>2
<1>3. u[1] = "/e" /\ u[2] = "?" /\ u[3] = "validate=true"
  BY <1>1, <1>2
<1> DEFINE param == <<"validate=true">>
<1>4. Len(param) = 1 /\ DOMAIN param = {1} /\ param[1] = "validate=true"
  OBVIOUS
<1> HIDE DEF param
<1>5. IsSent(u, 3)
  BY <1>3 DEF IsSent
<1>6. 2 \in DOMAIN u /\ \A j \in 1 .. 2 - 1 : u[j] # "?"
  BY <1>2, <1>3
<1>7. 2 + Len(param) = 3 /\ \A k \in DOMAIN param : u[2 + k] = param[k]
  BY <1>3, <1>4
<1>8. 3 < Len(u) => u[3 + 1] \in {"&", "#"}
  BY <1>2
<1>9. HasParam(u, param)
  BY <1>2, <1>3, <1>5, <1>6, <1>7, <1>8 DEF HasParam
<1> QED
  BY <1>9 DEF param

\* What is asked for before the scope is added, and the name in it, if there is one.
CaseBase(name) == <<"/c/">> \o name

LEMMA CaseBaseIs ==
  ASSUME NEW name \in Seq(Pieces)
  PROVE  /\ CaseBase(name) \in Seq(Pieces \cup {"/c/"})
         /\ \A i \in DOMAIN CaseBase(name) :
              CaseBase(name)[i] = "/c/" \/ CaseBase(name)[i] \in Range(name)
<1> DEFINE b == CaseBase(name)
           S == Pieces \cup {"/c/"}
<1>1. name \in Seq(S) /\ <<"/c/">> \in Seq(S) /\ Len(<<"/c/">>) = 1 /\ <<"/c/">>[1] = "/c/"
  OBVIOUS
<1> HIDE DEF S
<1>2. /\ b \in Seq(S) /\ Len(b) = 1 + Len(name)
      /\ \A i \in 1 .. 1 + Len(name) : b[i] = IF i <= 1 THEN <<"/c/">>[i] ELSE name[i - 1]
  BY <1>1, ConcatProperties DEF CaseBase
<1>3. DOMAIN b = 1 .. 1 + Len(name) /\ DOMAIN name = 1 .. Len(name) /\ Len(name) \in Nat
  BY <1>2, LenProperties
<1> HIDE DEF b
<1>4. ASSUME NEW i \in DOMAIN b PROVE b[i] = "/c/" \/ b[i] \in Range(name)
  <2>1. CASE i = 1
    BY <1>1, <1>2, <1>3, <2>1
  <2>2. CASE i # 1
    <3>1. PICK j \in DOMAIN name : j = i - 1
      BY <1>3, <2>2
    <3>2. b[i] = name[j]
      BY <1>2, <1>3, <2>2, <3>1
    <3> QED
      BY <3>2 DEF Range
  <2> QED
    BY <2>1, <2>2
<1> QED
  BY <1>2, <1>4 DEF b, S

\* A request as RequestsScoped has it, for the page with query string s.
Scoped(r, s) ==
  LET scope == GetQueryValue("scope", s)
      ofName == IF r.kind = "case" THEN Range(r.name) ELSE {}
  IN  "#" \notin ofName =>
        /\ scope # Undefined => HasParam(r.uri, <<"scope=">> \o scope)
        /\ r.kind = "exec" /\ r.validate => HasParam(r.uri, <<"validate=true">>)
        /\ r.kind = "case" /\ "?" \notin ofName => PathIs(r.uri, <<"/c/">> \o r.name)

\* Any address without a fragment arrives with its scope.
LEMMA AnyScoped ==
  ASSUME NEW S, NEW base \in Seq(S), \A i \in DOMAIN base : base[i] # "#",
         NEW s \in Searches \cup {<<>>}, GetQueryValue("scope", s) # Undefined
  PROVE  HasParam(ScopedUri(base, s), <<"scope=">> \o GetQueryValue("scope", s))
<1>1. GetQueryValue("scope", s) \in Seq(Pieces \ {"&", "#"})
  BY ScopeIs
<1>2. GetQueryValue("scope", s) \in Seq(Pieces)
  BY <1>1
<1>3. IsAddress(ScopedUri(base, s), base, GetQueryValue("scope", s))
  BY <1>2, ScopedUriIs
<1> QED
  BY <1>1, <1>3, ScopeArrives

\* Without a scope, an address stays as it is; with one, it is one of IsAddress.
LEMMA Either ==
  ASSUME NEW S, NEW base \in Seq(S), NEW s \in Searches \cup {<<>>}
  PROVE  ScopedUri(base, s) = base \/ \E v : IsAddress(ScopedUri(base, s), base, v)
<1>1. CASE GetQueryValue("scope", s) = Undefined
  BY <1>1 DEF ScopedUri
<1>2. CASE GetQueryValue("scope", s) # Undefined
  <2>1. GetQueryValue("scope", s) \in Seq(Pieces)
    BY <1>2, ScopeIs
  <2>2. IsAddress(ScopedUri(base, s), base, GetQueryValue("scope", s))
    BY <1>2, <2>1, ScopedUriIs
  <2> QED
    BY <2>2
<1> QED
  BY <1>1, <1>2

\* The list of cases.
LEMMA ListScoped ==
  ASSUME NEW s \in Searches \cup {<<>>}
  PROVE  Scoped(CaseListRequest(s), s)
<1> DEFINE r == CaseListRequest(s)
<1>1. r.kind = "caseList" /\ r.uri = ScopedUri(<<"/caseList">>, s)
  BY DEF CaseListRequest
<1>2. <<"/caseList">> \in Seq({"/caseList"}) /\ \A i \in DOMAIN <<"/caseList">> : <<"/caseList">>[i] # "#"
  OBVIOUS
<1> HIDE DEF r
<1>3. Scoped(r, s)
  BY <1>1, <1>2, AnyScoped DEF Scoped
<1> QED
  BY <1>3 DEF r

\* An execution.
LEMMA ExecScoped ==
  ASSUME NEW id, NEW text, NEW validate \in BOOLEAN, search \in Searches \cup {<<>>}
  PROVE  Scoped(ExecRequest(id, text, validate), search)
<1> DEFINE r == ExecRequest(id, text, validate)
           base == IF validate THEN ExecBase ELSE <<"/e">>
<1>1. r.kind = "exec" /\ r.validate = validate /\ r.uri = ScopedUri(base, search)
  BY DEF ExecRequest, ExecBase
<1>2. base \in Seq({"/e", "?", "validate=true"}) /\ \A i \in DOMAIN base : base[i] # "#"
  <2>1. /\ ExecBase \in Seq({"/e", "?", "validate=true"})
        /\ \A i \in DOMAIN ExecBase : ExecBase[i] # "#"
    BY DEF ExecBase
  <2>2. /\ <<"/e">> \in Seq({"/e", "?", "validate=true"})
        /\ \A i \in DOMAIN <<"/e">> : <<"/e">>[i] # "#"
    OBVIOUS
  <2> QED
    BY <2>1, <2>2
<1>3. validate => HasParam(ScopedUri(base, search), <<"validate=true">>)
  BY <1>2, Either, ValidateArrives
<1> HIDE DEF r, base
<1>4. GetQueryValue("scope", search) # Undefined
        => HasParam(ScopedUri(base, search), <<"scope=">> \o GetQueryValue("scope", search))
  BY <1>2, AnyScoped
<1>5. Scoped(r, search)
  BY <1>1, <1>3, <1>4 DEF Scoped
<1> QED
  BY <1>5 DEF r

\* A case, by whatever name.
LEMMA CaseScoped ==
  ASSUME NEW id, NEW name \in Seq(Pieces), search \in Searches \cup {<<>>}
  PROVE  Scoped(CaseRequest(id, name), search)
<1> DEFINE r == CaseRequest(id, name)
           base == CaseBase(name)
<1>1. r.kind = "case" /\ r.name = name /\ r.uri = ScopedUri(base, search)
  BY DEF CaseRequest, CaseBase
<1>2. /\ base \in Seq(Pieces \cup {"/c/"})
      /\ \A i \in DOMAIN base : base[i] = "/c/" \/ base[i] \in Range(name)
  BY CaseBaseIs
<1>3. Len(base) \in Nat /\ DOMAIN base = 1 .. Len(base)
  BY <1>2, LenProperties
<1> DEFINE u == ScopedUri(base, search)
<1>4. u = base \/ \E v : IsAddress(u, base, v)
  BY <1>2, Either
<1>5. "#" \notin Range(name) /\ GetQueryValue("scope", search) # Undefined
        => HasParam(u, <<"scope=">> \o GetQueryValue("scope", search))
  BY <1>2, AnyScoped
<1> HIDE DEF r, base, u
<1>6. ASSUME "#" \notin Range(name), "?" \notin Range(name) PROVE PathIs(u, base)
  <2>1. \A i \in DOMAIN base : base[i] \notin {"?", "#"}
    BY <1>2, <1>6
  <2>2. CASE u = base
    BY <1>3, <2>1, <2>2 DEF PathIs
  <2>3. ASSUME NEW v, IsAddress(u, base, v) PROVE PathIs(u, base)
    <3>1. /\ Len(u) = Len(base) + 2 + Len(v) /\ Len(v) \in Nat
          /\ \A i \in 1 .. Len(base) : u[i] = base[i]
          /\ u[Len(base) + 1] = IF \E i \in DOMAIN base : base[i] = "?" THEN "&" ELSE "?"
      BY <2>3 DEF IsAddress
    <3>2. u[Len(base) + 1] = "?" /\ Len(base) <= Len(u)
      BY <1>3, <2>1, <3>1
    <3> QED
      BY <1>3, <2>1, <3>1, <3>2 DEF PathIs
  <2> QED
    BY <1>4, <2>2, <2>3
<1>7. Scoped(r, search)
  BY <1>1, <1>5, <1>6 DEF Scoped, u, base, CaseBase
<1> QED
  BY <1>7 DEF r

AllScoped == \A r \in pending : Scoped(r, search)

\* The server gets every request with the scope of the page and the parameter that asks
\* for validation, and the whole name of a case, whatever separators name and scope have.
THEOREM RequestsAreScoped == Spec => []RequestsScoped
<1>2. Init => AllScoped
  BY ListScoped DEF Init, AllScoped
<1>3. TypeOK /\ TypeOK' /\ AllScoped /\ [Next]_vars => AllScoped'
  <2> SUFFICES ASSUME TypeOK, TypeOK', AllScoped, [Next]_vars PROVE AllScoped'
    OBVIOUS
  <2> USE DEF edit, page, store
  <2>1. search \in Searches \cup {<<>>} /\ search' \in Searches \cup {<<>>}
    BY DEF TypeOK
  <2>2. CASE GetCase
    <3>1. PICK name \in cases, id \in FreeIds : pending' = pending \cup {CaseRequest(id, name)}
      BY <2>2 DEF GetCase
    <3>2. name \in Seq(Pieces)
      BY AppAssumption DEF TypeOK
    <3>3. Scoped(CaseRequest(id, name), search)
      BY <2>1, <3>2, CaseScoped
    <3> QED
      BY <2>2, <3>1, <3>3 DEF AllScoped, GetCase
  <2>3. CASE Submit
    <3> DEFINE q == ExecRequest(execs + 1, yamlStr, displayData.expect)
    <3>1. displayData.expect \in BOOLEAN
      BY DEF TypeOK, View, Case
    <3>2. Scoped(q, search)
      BY <2>1, <3>1, ExecScoped
    <3> HIDE DEF q
    <3>3. pending' \subseteq pending \cup {q} /\ search' = search
      BY <2>3 DEF Submit, q
    <3> QED
      BY <3>2, <3>3 DEF AllScoped
  <2>4. CASE Reload
    BY <2>1, <2>4, ListScoped DEF Reload, AllScoped
  <2>5. CASE pending' \subseteq pending /\ search' = search
    BY <2>5 DEF AllScoped
  <2>6. CASE \E r \in pending : Answer(r)
    BY <2>5, <2>6 DEF Answer, AnswerCaseList, AnswerCase, AnswerExec
  <2>7. CASE EditForm \/ Focus \/ EditYaml \/ SaveToCache \/ ShowCache \/ CopyToClipboard
             \/ ClearCache \/ FinishSave \/ UNCHANGED vars
             \/ \E tab \in Tabs : OtherTab(tab) \/ OtherTabFinishes(tab)
    BY <2>5, <2>7 DEF EditForm, Focus, EditYaml, SaveToCache, ShowCache, CopyToClipboard,
                      ClearCache, FinishSave, OtherTab, OtherTabFinishes, vars
  <2> QED
    BY <2>2, <2>3, <2>4, <2>6, <2>7 DEF Next, User
<1>4. AllScoped => RequestsScoped
  BY DEF AllScoped, Scoped, RequestsScoped
<1> QED
  BY <1>2, <1>3, <1>4, TypeCorrect, PTL DEF Spec
=============================================================================
