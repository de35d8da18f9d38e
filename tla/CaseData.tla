------------------------------ MODULE CaseData ------------------------------
(***************************************************************************)
(* The two shapes of a case in the web front end, and the conversions      *)
(* between them (data.ts).  What is posted to the server, and written in   *)
(* the yaml text, has the headers and queries of a hop as objects; the     *)
(* form has them as arrays of rows, which may be unfinished.               *)
(*                                                                         *)
(* An object is a function on its property names, an array of rows a       *)
(* sequence of entries.  Of the rest of a case only what App.tsx looks at  *)
(* is kept: whether it has an expectation, the property "validate", and    *)
(* the template.  Parsing and printing of yaml is exact, since a text      *)
(* is identified with what it parses to.                                   *)
(***************************************************************************)
EXTENDS Naturals, Sequences, FiniteSets, SequencesExt

CONSTANTS
  Keys,        \* names of headers and queries
  Words,       \* values that are texts, not empty
  Others,      \* values that yaml and json have besides: numbers, booleans
  Undefined,   \* the property is not there (or null)
  Posts,       \* the posted cases to consider
  Views        \* the forms to consider

Value == Words \cup Others \cup {""}

\* A javascript object, a row of the form, an array of rows.
Object == UNION {[S -> Value] : S \in SUBSET Keys}
Entry == [name : Keys \cup {""}, value : Value]
Rows == Seq(Entry)

ASSUME CaseDataAssumption ==
  /\ IsFiniteSet(Keys)
  /\ "" \notin Keys \cup Words
  /\ Words \cap Others = {}
  /\ Undefined \notin Object \cup Rows

Case(Field) ==
  [trace : Seq([headers : Field \cup {Undefined}, queries : Field \cup {Undefined}]),
   expect : BOOLEAN, validate : BOOLEAN, tmpl : {"none", "empty", "set"}]

Post == Case(Object)
View == Case(Rows)

ASSUME SampleAssumption == Posts \subseteq Post /\ Views \subseteq View

\* The case with both fields of every hop converted.
MapFields(case, F(_)) ==
  [case EXCEPT !.trace =
     [i \in DOMAIN @ |-> [headers |-> F(@[i].headers), queries |-> F(@[i].queries)]]]

-----------------------------------------------------------------------------
\* Mutant: an object without properties is returned as it is.
ArrayToObjEmpty(kvs) ==
  LET kept == {i \in DOMAIN kvs : kvs[i].name # "" /\ kvs[i].value \in Words}
      LastRow(n) == CHOOSE i \in kept :
                      kvs[i].name = n /\ \A j \in kept : kvs[j].name = n => j <= i
  IN  [n \in {kvs[i].name : i \in kept} |-> kvs[LastRow(n)].value]

\* arrayToObj: rows without a name or without a value that has a length are left
\* out, and a later row of a name replaces an earlier one.
ArrayToObj(kvs) ==
  LET kept == {i \in DOMAIN kvs : kvs[i].name # "" /\ kvs[i].value \in Words}
      LastRow(n) == CHOOSE i \in kept :
                      kvs[i].name = n /\ \A j \in kept : kvs[j].name = n => j <= i
  IN  IF kept = {} THEN Undefined
      ELSE [n \in {kvs[i].name : i \in kept} |-> kvs[LastRow(n)].value]

\* objToArray: one row for each property.
ObjToArray(obj) ==
  IF obj = Undefined \/ DOMAIN obj = {} THEN Undefined
  ELSE LET keys == SetToSeq(DOMAIN obj)
       IN  [i \in 1 .. Len(keys) |-> [name |-> keys[i], value |-> obj[keys[i]]]]

\* viewToPost: a copy with rows made objects, without "validate".
ViewToPost(view) ==
  [MapFields(view, LAMBDA f : IF f = Undefined THEN Undefined ELSE ArrayToObj(f))
     EXCEPT !.validate = FALSE]

\* postToView: objects made rows, if there are any.
PostToView(post) ==
  IF \E i \in DOMAIN post.trace :
       post.trace[i].headers # Undefined \/ post.trace[i].queries # Undefined
  THEN MapFields(post, ObjToArray)
  ELSE post

\* What JsonForms hands to onChange, in which App deletes an empty template.
DropEmptyTmpl(data) == [data EXCEPT !.tmpl = IF @ = "empty" THEN "none" ELSE @]

-----------------------------------------------------------------------------
(* Yaml texts *)

\* toYaml: the text of a case.
ToYaml(post) == [yields |-> "case", case |-> post]

\* fromYaml: "case" is a text that yields a case.  Other texts yield something
\* without a trace ("other"), a trace with a hop that is null ("null"), nothing at
\* all ("nothing", the empty text), or they make the parser throw ("error").
OddText == [yields : {"other", "null", "nothing", "error"}]
Text == [yields : {"case"}, case : Post] \cup OddText

-----------------------------------------------------------------------------
(* Addresses, as sequences of pieces: "?", "&" and "#" are pieces of their own, also *)
(* within a name or a value.  The query string of the page's address is a sequence   *)
(* of keys with their values, sequences of pieces again.                             *)

\* getQueryValue: the value of the first parameter of the page's address with this
\* key, which is Undefined when there is no "=".
GetQueryValue(key, search) ==
  LET hits == {i \in DOMAIN search : search[i][1] = key}
  IN  IF hits = {} THEN Undefined
      ELSE search[CHOOSE i \in hits : \A j \in hits : i <= j][2]

\* Mutant: the scope is always appended as the first parameter.
ScopedUriQuestion(uri, search) ==
  LET scope == GetQueryValue("scope", search)
  IN  IF scope = Undefined THEN uri ELSE uri \o <<"?", "scope=">> \o scope

\* scopedUri: requests carry the scope of the page.
ScopedUri(uri, search) ==
  LET scope == GetQueryValue("scope", search)
      splitter == IF \E i \in DOMAIN uri : uri[i] = "?" THEN "&" ELSE "?"
  IN  IF scope = Undefined THEN uri ELSE uri \o <<splitter, "scope=">> \o scope

\* The browser keeps what follows a "#" to itself; what it sends is a path, which ends
\* at the first "?", and parameters, each of which ends at the next "&".
IsSent(uri, i) == \A j \in 1 .. i : uri[j] # "#"

PathIs(uri, path) ==
  /\ Len(path) <= Len(uri)
  /\ \A i \in DOMAIN path : uri[i] = path[i] /\ path[i] \notin {"?", "#"}
  /\ Len(path) < Len(uri) => uri[Len(path) + 1] \in {"?", "#"}

HasParam(uri, param) ==
  \E i \in DOMAIN uri :
    LET end == i + Len(param)
    IN  /\ \/ uri[i] = "?" /\ \A j \in 1 .. i - 1 : uri[j] # "?"
           \/ uri[i] = "&" /\ \E j \in 1 .. i - 1 : uri[j] = "?"
        /\ end <= Len(uri) /\ IsSent(uri, end)
        /\ \A k \in DOMAIN param : uri[i + k] = param[k]
        /\ end < Len(uri) => uri[end + 1] \in {"&", "#"}

-----------------------------------------------------------------------------
(* Reference definitions, for the properties *)

\* The part of an object that reaches the server: its texts.
TextPart(obj) ==
  IF obj = Undefined THEN Undefined
  ELSE LET S == {n \in DOMAIN obj : obj[n] \in Words}
       IN  IF S = {} THEN Undefined ELSE [n \in S |-> obj[n]]

\* What is left of a case once it has been through the form.
Normal(post) == [MapFields(post, TextPart) EXCEPT !.validate = FALSE]

\* The same case, but for a template that is there and empty.
SameCase(p, q) == DropEmptyTmpl(p) = DropEmptyTmpl(q)

\* A case comes through the form without losing anything but what is not a text, and
\* a form means the same form again once it has been through the text.
KeptByForm(post) == ViewToPost(PostToView(post)) = Normal(post)
KeptByText(view) == ViewToPost(PostToView(ViewToPost(view))) = ViewToPost(view)

ConversionsAgree ==
  /\ \A post \in Posts : KeptByForm(post)
  /\ \A view \in Views : KeptByText(view)
=============================================================================
