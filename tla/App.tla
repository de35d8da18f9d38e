--------------------------------- MODULE App ---------------------------------
(***************************************************************************)
(* The web front end in one browser tab: App.tsx, SaveTools.tsx and the    *)
(* requests of data.ts.  A case is edited in a form and as yaml text; the  *)
(* server is asked for the list of cases, for a case, and to execute one.  *)
(*                                                                         *)
(* React runs one event handler or answer at a time, renders, and runs the *)
(* effects of that rendering before the next one; each is one action here, *)
(* with its effects.  Answers come in any order, or fail.  localStorage is *)
(* shared with the other tabs, which run beside this one: a tab that saves *)
(* reads it in one step and writes it in another.                          *)
(***************************************************************************)
EXTENDS CaseData

CONSTANTS
  Pieces,       \* what names and the values of parameters are put together from
  CaseNames,    \* the names in the list of cases, as sequences of pieces
  CaseOf,       \* CaseOf[n]: the case of that name on the server
  Unknown,      \* a name of the list shown at first, unknown to the server
  Tabs,         \* the tabs of the browser
  Here,         \* the tab that is modelled in full
  SaveNames,    \* names under which cases are saved
  Typed,        \* cases typed as text
  Filled,       \* cases filled into the form
  Saved,        \* cases saved by other tabs
  Searches,     \* query strings of the page's address
  MaxPending,   \* bound on requests for cases in flight
  MaxExecs,     \* bound on executions asked for
  MaxSteps      \* bound on what the users do

\* What localStorage can hold: saved cases by name.
IsStore(c) == \E S \in SUBSET SaveNames : c \in [S -> Post]

ASSUME AppAssumption ==
  /\ CaseNames \cup {Unknown} \subseteq Seq(Pieces)
  /\ CaseOf \in [CaseNames -> Post]
  /\ Unknown \notin CaseNames
  /\ Here \in Tabs
  /\ "" \notin SaveNames
  /\ Typed \cup Saved \subseteq Post
  /\ Filled \subseteq View
  /\ ~IsStore(Undefined)
  /\ \A s \in Searches :
       /\ Len(s) \in Nat /\ DOMAIN s = 1 .. Len(s)
       /\ \A i \in DOMAIN s : s[i][2] \in Seq(Pieces \ {"&", "#"}) \cup {Undefined}
  /\ MaxPending \in Nat \ {0} /\ MaxExecs \in Nat /\ MaxSteps \in Nat

VARIABLES
  displayData,      \* the case in the form
  yamlStr,          \* the text
  yamlTextFocused,  \* the text has the focus
  consoleData,      \* what the console shows
  cases,            \* the names in the list
  pending,          \* the requests in flight
  execs,            \* executions asked for so far
  search,           \* the query string of the page's address
  cache,            \* localStorage: saved cases by name, or Undefined
  saving,           \* saving[t]: what tab t is about to write, if it is saving
  steps             \* steps of the users so far

vars == <<displayData, yamlStr, yamlTextFocused, consoleData, cases, pending,
          execs, search, cache, saving, steps>>

edit == <<displayData, yamlStr, yamlTextFocused>>
page == <<cases, search>>
store == <<cache, saving>>

-----------------------------------------------------------------------------
(* Requests *)

CaseListRequest(s) == [kind |-> "caseList", uri |-> ScopedUri(<<"/caseList">>, s)]

\* getCase: the name goes into the address as it is.
CaseRequest(id, name) ==
  [kind |-> "case", id |-> id, name |-> name, uri |-> ScopedUri(<<"/c/">> \o name, search)]

\* What a text yields, as far as the server is asked to check something.
Json(text) ==
  [yields |-> text.yields,
   expect |-> text.yields = "case" /\ text.case.expect]

\* executeCase: a validated execution has a parameter of its own.
ExecRequest(id, text, validate) ==
  [kind |-> "exec", id |-> id, json |-> Json(text), validate |-> validate,
   uri |-> ScopedUri(IF validate THEN <<"/e", "?", "validate=true">> ELSE <<"/e">>, search)]

Pending(kind) == {r \in pending : r.kind = kind}

\* An id no request for a case has.
FreeIds == {i \in 1 .. MaxPending : \A r \in Pending("case") : r.id # i}

Shows(what) == [shows |-> what]
ShowsAnswer(what, id) == [shows |-> what, of |-> id]

-----------------------------------------------------------------------------
(* Rendering *)

\* Mutant: the effect uses the case of the rendering before.
SetDisplayDataStale(view) ==
  /\ displayData' = DropEmptyTmpl(view)
  /\ yamlStr' = IF yamlTextFocused THEN yamlStr ELSE ToYaml(ViewToPost(displayData))

\* setDisplayData with what follows it: the effect that writes the text unless it
\* has the focus, and JsonForms, which hands the data back through onChange, where
\* an empty template is deleted from the object itself, too late for the text.
SetDisplayData(view) ==
  /\ displayData' = DropEmptyTmpl(view)
  /\ yamlStr' = IF yamlTextFocused THEN yamlStr ELSE ToYaml(ViewToPost(view))

\* useState({ trace: [{}] })
FirstView ==
  [trace |-> <<[headers |-> Undefined, queries |-> Undefined]>>,
   expect |-> FALSE, validate |-> FALSE, tmpl |-> "none"]

\* The first rendering of a page: the list of cases is asked for, once.
Init ==
  /\ displayData = FirstView
  /\ yamlStr = ToYaml(ViewToPost(FirstView))
  /\ yamlTextFocused = FALSE
  /\ consoleData = Shows("nothing")
  /\ cases = {Unknown}
  /\ search \in Searches
  /\ pending = {CaseListRequest(search)}
  /\ execs = 0
  /\ cache = Undefined
  /\ saving = [t \in Tabs |-> {}]
  /\ steps = 0

\* The page is loaded again, and all but localStorage is lost.  Enter in the name
\* field does it as well: SaveTools is an HTML form with one field and no submit
\* button, so the browser submits it, and the address loses its query string.
Reload ==
  /\ search' \in {search, <<>>}
  /\ displayData' = FirstView
  /\ yamlStr' = ToYaml(ViewToPost(FirstView))
  /\ yamlTextFocused' = FALSE
  /\ consoleData' = Shows("nothing")
  /\ cases' = {Unknown}
  /\ pending' = {CaseListRequest(search')}
  /\ UNCHANGED <<execs, store>>

-----------------------------------------------------------------------------
(* The user.  A click or a key in another field takes the focus off the text. *)

\* A row, a hop or a field of the form changes; the form shows neither the
\* expectation nor "validate".
EditForm ==
  /\ ~yamlTextFocused
  /\ \E view \in Filled :
       LET data == [view EXCEPT !.expect = displayData.expect,
                                !.validate = displayData.validate]
       IN  SetDisplayData(DropEmptyTmpl(data))
  /\ UNCHANGED <<yamlTextFocused, consoleData, pending, execs, store, page>>

\* onFocus and onBlur of the text
Focus ==
  /\ yamlTextFocused' = ~yamlTextFocused
  /\ UNCHANGED <<displayData, yamlStr, consoleData, pending, execs, store, page>>

\* Mutant: the form does not get what is typed.
EditYamlDeaf ==
  /\ yamlTextFocused
  /\ \E post \in Typed : yamlStr' = ToYaml(post)
  /\ UNCHANGED <<displayData, yamlTextFocused, consoleData, pending, execs, store, page>>

\* editYaml: a text that yields a case with no null hop goes to the form.
EditYaml ==
  /\ yamlTextFocused
  /\ \/ \E post \in Typed :
          /\ yamlStr' = ToYaml(post)
          /\ displayData' = DropEmptyTmpl(PostToView(post))
     \/ \E text \in OddText :
          /\ yamlStr' = text
          /\ UNCHANGED displayData
  /\ UNCHANGED <<yamlTextFocused, consoleData, pending, execs, store, page>>

\* getCase
GetCase ==
  /\ ~yamlTextFocused
  /\ \E name \in cases, id \in FreeIds :
       /\ \A i \in FreeIds : id <= i
       /\ pending' = pending \cup {CaseRequest(id, name)}
  /\ UNCHANGED <<edit, consoleData, execs, store, page>>

\* submit: what is executed is the text; whether it is validated depends on the
\* form.  The console says "loading..." before the text is parsed, and goes on
\* saying so when the parser throws.
Submit ==
  /\ ~yamlTextFocused
  /\ execs < MaxExecs
  /\ consoleData' = Shows("loading")
  /\ \/ /\ yamlStr.yields = "error"
        /\ UNCHANGED <<pending, execs>>
     \/ /\ yamlStr.yields # "error"
        /\ pending' = pending \cup {ExecRequest(execs + 1, yamlStr, displayData.expect)}
        /\ execs' = execs + 1
  /\ UNCHANGED <<edit, store, page>>

-----------------------------------------------------------------------------
(* Answers *)

AnswerCaseList(r) ==
  /\ r \in Pending("caseList")
  /\ pending' = pending \ {r}
  /\ cases' \in {CaseNames, cases}    \* nothing handles an error
  /\ UNCHANGED <<edit, consoleData, execs, search, store>>

\* The success handler of getCase.  The server looks up the name it finds in the path.
\* "Not Found" is no json, so that the handler throws; nothing handles an error.
AnswerCase(r) ==
  /\ r \in Pending("case")
  /\ pending' = pending \ {r}
  /\ \/ \E name \in CaseNames :
          PathIs(r.uri, <<"/c/">> \o name) /\ SetDisplayData(PostToView(CaseOf[name]))
     \/ UNCHANGED <<displayData, yamlStr>>
  /\ UNCHANGED <<yamlTextFocused, consoleData, execs, store, page>>

\* Mutant: there is no error handler.
AnswerExecNoError(r) ==
  /\ r \in Pending("exec")
  /\ pending' = pending \ {r}
  /\ consoleData' \in {ShowsAnswer("result", r.id), consoleData}
  /\ UNCHANGED <<edit, execs, store, page>>

\* Success and error handlers of executeCase.
AnswerExec(r) ==
  /\ r \in Pending("exec")
  /\ pending' = pending \ {r}
  /\ consoleData' \in {ShowsAnswer("result", r.id), ShowsAnswer("error", r.id)}
  /\ UNCHANGED <<edit, execs, store, page>>

-----------------------------------------------------------------------------
(* SaveTools *)

\* Mutant: what is stored is not read before it is written.
StoredAfresh(read, name, post) == [n \in {name} |-> post]

\* Of what was read, one case is replaced or added.
Stored(read, name, post) ==
  LET names == IF read = Undefined THEN {} ELSE DOMAIN read
  IN  [n \in names \cup {name} |-> IF n = name THEN post ELSE read[n]]

\* A tab reads what is stored ...
BeginSave(tab, name, post) ==
  /\ saving[tab] = {}
  /\ saving' = [saving EXCEPT ![tab] = {[name |-> name, post |-> post, read |-> cache]}]
  /\ UNCHANGED cache

\* ... and writes it back with its case; nothing keeps other tabs from writing meanwhile.
EndSave(tab) ==
  \E s \in saving[tab] :
    /\ cache' = Stored(s.read, s.name, s.post)
    /\ saving' = [saving EXCEPT ![tab] = {}]

\* Mutant: the form is saved with its rows.
SaveToCacheRows ==
  /\ ~yamlTextFocused
  /\ \E name \in SaveNames : BeginSave(Here, name, displayData)
  /\ UNCHANGED <<edit, consoleData, pending, execs, page>>

\* saveToCache, up to the write: nothing happens without a name.
SaveToCache ==
  /\ ~yamlTextFocused
  /\ \E name \in SaveNames : BeginSave(Here, name, ViewToPost(displayData))
  /\ UNCHANGED <<edit, consoleData, pending, execs, page>>

\* The rest of saveToCache, with nothing else of this tab in between.
FinishSave ==
  /\ EndSave(Here)
  /\ consoleData' = Shows("cases")
  /\ UNCHANGED <<edit, pending, execs, page>>

\* showCache
ShowCache ==
  /\ ~yamlTextFocused
  /\ consoleData' = Shows("cases")
  /\ UNCHANGED <<edit, pending, execs, store, page>>

\* copyToClipboard: the message does not depend on what happened.
CopyToClipboard ==
  /\ ~yamlTextFocused
  /\ consoleData' = Shows("copied")
  /\ UNCHANGED <<edit, pending, execs, store, page>>

\* clearCache
ClearCache ==
  /\ ~yamlTextFocused
  /\ cache' = Undefined
  /\ consoleData' = Shows("cases")
  /\ UNCHANGED <<edit, pending, execs, saving, page>>

\* The same in another tab, whose save has begun or not.
OtherTab(tab) ==
  /\ \/ \E name \in SaveNames, post \in Saved : BeginSave(tab, name, post)
     \/ saving[tab] = {} /\ cache' = Undefined /\ UNCHANGED saving
  /\ UNCHANGED <<edit, consoleData, pending, execs, page>>

OtherTabFinishes(tab) ==
  /\ EndSave(tab)
  /\ UNCHANGED <<edit, consoleData, pending, execs, page>>

-----------------------------------------------------------------------------
User ==
  \/ EditForm \/ Focus \/ EditYaml \/ GetCase \/ Submit
  \/ SaveToCache \/ ShowCache \/ CopyToClipboard \/ ClearCache
  \/ Reload

Answer(r) == AnswerCaseList(r) \/ AnswerCase(r) \/ AnswerExec(r)

\* No handler of this tab runs.
Idle == saving[Here] = {}

Next ==
  \/ /\ \/ Idle /\ User
        \/ \E tab \in Tabs \ {Here} : OtherTab(tab)
     /\ steps < MaxSteps /\ steps' = steps + 1
  \/ /\ \/ Idle /\ \E r \in pending : Answer(r)
        \/ FinishSave
        \/ \E tab \in Tabs \ {Here} : OtherTabFinishes(tab)
     /\ UNCHANGED steps

Spec == Init /\ [][Next]_vars

\* The browser answers every request, if only with an error.
AnswerExecution(id) ==
  /\ Idle
  /\ \E r \in pending : r.kind = "exec" /\ r.id = id /\ AnswerExec(r)
  /\ UNCHANGED steps

\* A handler runs to its end, and every answer comes.
FairSpec ==
  /\ Spec
  /\ WF_vars(FinishSave /\ UNCHANGED steps)
  /\ \A id \in 1 .. MaxExecs : WF_vars(AnswerExecution(id))

-----------------------------------------------------------------------------
(* Properties *)

Answers == [shows : {"result", "error"}, of : 1 .. MaxExecs]

\* A save under way, and the saves of one tab.
IsSave(s) == s.name \in SaveNames /\ s.post \in Post /\ (s.read = Undefined \/ IsStore(s.read))
MaySave(S) == S = {} \/ \E s \in S : S = {s} /\ IsSave(s)

Console == [shows : {"nothing", "loading", "cases", "copied"}] \cup Answers

\* The variables have their types: whatever is typed, loaded or answered, the form
\* holds a case with a trace and with rows, and what is saved has objects, which
\* every handler of App and the server rely on.
TypeOK ==
  /\ displayData \in View
  /\ yamlStr \in Text
  /\ yamlTextFocused \in BOOLEAN
  /\ consoleData \in Console
  /\ cases \in {{Unknown}, CaseNames}
  /\ \A r \in pending :
       \/ r.kind = "caseList"
       \/ r.kind = "case" /\ r.id \in 1 .. MaxPending /\ r.name \in CaseNames \cup {Unknown}
       \/ r.kind = "exec" /\ r.id \in 1 .. execs /\ r.json.expect \in BOOLEAN /\ r.validate \in BOOLEAN
  /\ DOMAIN saving = Tabs /\ \A tab \in Tabs : MaySave(saving[tab])
  /\ execs \in 0 .. MaxExecs
  /\ search \in Searches \cup {<<>>}
  /\ cache = Undefined \/ IsStore(cache)
  /\ steps \in 0 .. MaxSteps

\* Typing a case, or loading one, and looking at it as text again loses what is not a
\* text and nothing else, in particular no hop, and none of two names; and the text
\* of a form means the same form again.  Arrays with unfinished rows and with rows of
\* the same name, empty objects and numbers come through both conversions (data.ts).
\* No state has a part in it, so it is evaluated where the page starts, and for the
\* case in the form wherever that leads.
RoundTrip ==
  /\ steps = 0 => ConversionsAgree
  /\ KeptByText(displayData)

\* Nobody types while a case is on its way.  The front end does nothing to make it
\* so, and what follows does not hold without it: a case that arrives while the
\* text has the focus changes the form and leaves the text.
Unhurried == yamlTextFocused => Pending("case") = {}

\* Form and text are two copies of one case, each written from the other (the effect
\* and editYaml in App.tsx): when nobody types while a case is on its way, they
\* agree at all times, as far as the text is one the form can take.
TextAgreesWithForm ==
  []Unhurried =>
    [](yamlStr.yields = "case" => SameCase(Normal(yamlStr.case), ViewToPost(displayData)))

\* submit takes the case from the text and the decision to validate from the form:
\* the expectation the server is to check is in the case it gets.
ValidatesWhatItSends ==
  []Unhurried =>
    [](\A r \in Pending("exec") :
         r.json.yields = "case" => r.validate = r.json.expect)

\* What comes last in the console is not an answer an earlier execution still owes.
\* Nothing makes the answers come in this order: when they do not, the console is
\* left with whichever came last.
InOrder ==
  consoleData \in Answers => \A r \in Pending("exec") : r.id > consoleData.of

\* However many executions are awaited and whatever else is done meanwhile, also a
\* failing one or a reload: as long as answers come in order, an answer stays in the
\* console only until that of the next execution comes (executeCase, setResult).
ConsoleKeepsUp ==
  []InOrder =>
    [](consoleData \in Answers =>
         \A id \in consoleData.of + 1 .. execs : \E r \in Pending("exec") : r.id = id)

\* "loading..." does not stay when an execution is awaited: success and error both
\* replace it, also when the page is loaded again meanwhile.
LoadingEnds ==
  (consoleData = Shows("loading") /\ Pending("exec") # {})
    ~> consoleData # Shows("loading")

\* The server gets every request with the scope of the page's address, and validated
\* executions with the parameter that says so, whatever question marks name and scope
\* have, and in whatever order the parameters were put together (getCase, executeCase,
\* scopedUri); and it is asked for the case by its whole name when that has none.  A
\* name with a "#" is beyond this: what follows it is never sent, the scope included.
RequestsScoped ==
  \A r \in pending :
    LET scope == GetQueryValue("scope", search)
        ofName == IF r.kind = "case" THEN Range(r.name) ELSE {}
    IN  "#" \notin ofName =>
          /\ scope # Undefined => HasParam(r.uri, <<"scope=">> \o scope)
          /\ r.kind = "exec" /\ r.validate => HasParam(r.uri, <<"validate=true">>)
          /\ r.kind = "case" /\ "?" \notin ofName => PathIs(r.uri, <<"/c/">> \o r.name)

\* The saved cases, as the store sees them.
SavedCase(content, name) ==
  IF content # Undefined /\ name \in DOMAIN content THEN content[name] ELSE Undefined

SavedCases(content) == [name \in SaveNames |-> SavedCase(content, name)]

SavedNow == SavedCases(cache)
BegunNow == [t \in Tabs |-> {SavedCases(s.read) : s \in saving[t]}]

Store == INSTANCE CaseStore WITH
  Names <- SaveNames,
  Cases <- Post,
  Absent <- Undefined,
  doc <- ViewToPost(displayData),
  saved <- SavedNow,
  begun <- BegunNow

\* The tabs together implement the store of cases, although they read and write it in
\* two steps: a save stores the case in the form, and of the other names it can only
\* bring back what they were when it began, so that it loses nothing but what another
\* tab has changed meanwhile; answers, reloads and edits leave the store alone.
SavesAreKept == Store!Spec
=============================================================================
