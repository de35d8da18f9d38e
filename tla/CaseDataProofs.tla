---------------------------- MODULE CaseDataProofs ----------------------------
(* Proofs about the conversions of CaseData, for all names, values, cases and  *)
(* forms: what an object, an array of rows, a case and a form become.          *)
EXTENDS CaseData, FiniteSetTheorems, TLAPS

\* The greatest of some of the first natural numbers.
LEMMA GreatestExists ==
  ASSUME NEW m \in Nat, NEW T \in SUBSET (1 .. m), T # {}
  PROVE  \E i \in T : \A j \in T : j <= i
<1> DEFINE D == {m - i : i \in T}
<1>1. \E R : (\A x, y \in Nat : x < y => <<x, y>> \in R) /\ IsWellFoundedOn(R, Nat)
  <2> DEFINE Less == OpToRel(<, Nat)
  <2>1. \A x, y \in Nat : x < y => <<x, y>> \in Less
    BY DEF OpToRel
  <2>2. IsWellFoundedOn(Less, Nat)
    BY NatLessThanWellFounded
  <2> HIDE DEF Less
  <2> QED
    BY <2>1, <2>2
<1>2. \A i \in T : i \in Nat /\ m - i \in Nat /\ m - i \in D
  OBVIOUS
<1>3. D \subseteq Nat /\ D # {}
  BY <1>2
<1> HIDE DEF D
<1>4. PICK d \in D : \A y \in D : d <= y
  <2>1. PICK R : (\A x, y \in Nat : x < y => <<x, y>> \in R) /\ IsWellFoundedOn(R, Nat)
    BY <1>1
  <2>2. IsWellFoundedOn(R, Nat) /\ D \subseteq Nat /\ D # {}
    BY <1>3, <2>1
  <2>3. PICK d \in D : \A y \in D : ~(<<y, d>> \in R)
    BY <2>2, WFMin
  <2>4. ASSUME NEW y \in D PROVE d <= y
    <3>1. ~(<<y, d>> \in R) /\ y \in Nat /\ d \in Nat
      BY <2>2, <2>3
    <3>2. y < d => <<y, d>> \in R
      BY <2>1, <3>1
    <3> QED
      BY <3>1, <3>2
  <2> QED
    BY <2>4
<1>5. PICK i \in T : d = m - i
  BY DEF D
<1> QED
  BY <1>2, <1>4, <1>5

-----------------------------------------------------------------------------
(* Objects and arrays of rows *)

\* The field of a hop as viewToPost converts it.
ToObj(f) == IF f = Undefined THEN Undefined ELSE ArrayToObj(f)

\* The rows that arrayToObj uses.
Kept(kvs) == {i \in DOMAIN kvs : kvs[i].name # "" /\ kvs[i].value \in Words}

\* Among the rows of a name the last one counts.
LEMMA LastRowExists ==
  ASSUME NEW kvs \in Rows, NEW k \in Kept(kvs)
  PROVE  \E i \in Kept(kvs) :
           /\ kvs[i].name = kvs[k].name
           /\ \A j \in Kept(kvs) : kvs[j].name = kvs[k].name => j <= i
<1> DEFINE T == {i \in Kept(kvs) : kvs[i].name = kvs[k].name}
<1>1. Len(kvs) \in Nat /\ DOMAIN kvs = 1 .. Len(kvs)
  BY DEF Rows
<1>2. T \in SUBSET (1 .. Len(kvs)) /\ k \in T
  BY <1>1 DEF Kept
<1> HIDE DEF T
<1>3. PICK i \in T : \A j \in T : j <= i
  BY <1>1, <1>2, GreatestExists
<1> QED
  BY <1>3 DEF T

\* What arrayToObj makes of rows: an object with a text for each name that a
\* finished row has, that of its last one.
LEMMA ArrayToObjIs ==
  ASSUME NEW kvs \in Rows
  PROVE  /\ Kept(kvs) = {} => ArrayToObj(kvs) = Undefined
         /\ Kept(kvs) # {} =>
              /\ ArrayToObj(kvs) = [n \in {kvs[i].name : i \in Kept(kvs)} |-> ArrayToObj(kvs)[n]]
              /\ \A k \in Kept(kvs) : \E i \in Kept(kvs) :
                   /\ kvs[i].name = kvs[k].name
                   /\ \A j \in Kept(kvs) : kvs[j].name = kvs[k].name => j <= i
                   /\ ArrayToObj(kvs)[kvs[k].name] = kvs[i].value
<1> DEFINE LastRow(n) == CHOOSE i \in Kept(kvs) :
                           kvs[i].name = n /\ \A j \in Kept(kvs) : kvs[j].name = n => j <= i
<1>1. ArrayToObj(kvs) = IF Kept(kvs) = {} THEN Undefined
                        ELSE [n \in {kvs[i].name : i \in Kept(kvs)} |-> kvs[LastRow(n)].value]
  BY DEF ArrayToObj, Kept
<1>2. ASSUME NEW k \in Kept(kvs)
      PROVE  /\ LastRow(kvs[k].name) \in Kept(kvs)
             /\ kvs[LastRow(kvs[k].name)].name = kvs[k].name
             /\ \A j \in Kept(kvs) : kvs[j].name = kvs[k].name => j <= LastRow(kvs[k].name)
  BY LastRowExists
<1> HIDE DEF LastRow
<1>3. ASSUME NEW k \in Kept(kvs)
      PROVE  ArrayToObj(kvs)[kvs[k].name] = kvs[LastRow(kvs[k].name)].value
  BY <1>1, <1>3
<1>4. Kept(kvs) # {} =>
        ArrayToObj(kvs) = [n \in {kvs[i].name : i \in Kept(kvs)} |-> ArrayToObj(kvs)[n]]
  BY <1>1
<1>5. Kept(kvs) # {} =>
        \A k \in Kept(kvs) : \E i \in Kept(kvs) :
          /\ kvs[i].name = kvs[k].name
          /\ \A j \in Kept(kvs) : kvs[j].name = kvs[k].name => j <= i
          /\ ArrayToObj(kvs)[kvs[k].name] = kvs[i].value
  BY <1>2, <1>3
<1> QED
  BY <1>1, <1>4, <1>5

\* What reaches the server is an object with texts for values, and at least one.
Texts == UNION {[S -> Words] : S \in (SUBSET Keys) \ {{}}}

\* arrayToObj yields texts, or nothing.
LEMMA ArrayToObjType ==
  ASSUME NEW kvs \in Rows
  PROVE  ArrayToObj(kvs) \in Texts \cup {Undefined}
<1>1. CASE Kept(kvs) = {}
  BY <1>1, ArrayToObjIs
<1>2. CASE Kept(kvs) # {}
  <2> DEFINE S == {kvs[i].name : i \in Kept(kvs)}
  <2>1. DOMAIN kvs = 1 .. Len(kvs) /\ \A i \in DOMAIN kvs : kvs[i] \in Entry
    BY DEF Rows
  <2>2. \A i \in Kept(kvs) : kvs[i].name \in Keys /\ kvs[i].value \in Words
    BY <2>1 DEF Kept, Entry
  <2>3. S \in SUBSET Keys /\ S # {}
    BY <1>2, <2>2
  <2>4. \A n \in S : ArrayToObj(kvs)[n] \in Words
    <3>1. \A k \in Kept(kvs) : \E i \in Kept(kvs) : ArrayToObj(kvs)[kvs[k].name] = kvs[i].value
      BY <1>2, ArrayToObjIs
    <3> QED
      BY <2>2, <3>1
  <2>5. ArrayToObj(kvs) = [n \in S |-> ArrayToObj(kvs)[n]]
    BY <1>2, ArrayToObjIs
  <2> HIDE DEF S
  <2>6. ArrayToObj(kvs) \in [S -> Words]
    BY <2>4, <2>5
  <2> QED
    BY <2>3, <2>6 DEF Texts
<1> QED
  BY <1>1, <1>2

\* An object of texts is an object, and nothing of it is lost on the way.
LEMMA TextsAreKept ==
  ASSUME NEW obj \in Texts \cup {Undefined}
  PROVE  obj \in Object \cup {Undefined} /\ TextPart(obj) = obj
<1>1. CASE obj = Undefined
  BY <1>1 DEF TextPart
<1>2. CASE obj # Undefined
  <2>1. PICK S \in (SUBSET Keys) \ {{}} : obj \in [S -> Words]
    BY <1>2 DEF Texts
  <2>2. obj \in [S -> Value]
    BY <2>1 DEF Value
  <2>3. {n \in DOMAIN obj : obj[n] \in Words} = S /\ S # {}
    BY <2>1
  <2>4. TextPart(obj) = [n \in S |-> obj[n]]
    BY <1>2, <2>3 DEF TextPart
  <2> QED
    BY <2>1, <2>2, <2>4 DEF Object
<1> QED
  BY <1>1, <1>2

\* SetToSeq lists each element of a finite set once.
LEMMA SetToSeqIs ==
  ASSUME NEW S, IsFiniteSet(S)
  PROVE  LET keys == SetToSeq(S)
             n == Cardinality(S)
         IN  /\ n \in Nat /\ keys \in Seq(S) /\ Len(keys) = n
             /\ \A i, j \in 1 .. n : keys[i] = keys[j] => i = j
             /\ \A x \in S : \E i \in 1 .. n : keys[i] = x
<1> DEFINE keys == SetToSeq(S)
           n == Cardinality(S)
<1>1. n \in Nat /\ ExistsBijection(1 .. n, S)
  BY FS_CardinalityType
<1>2. keys \in [1 .. n -> S] /\ IsInjective(keys)
  BY <1>1 DEF SetToSeq, ExistsBijection, Bijection, Injection
<1> HIDE DEF keys
<1>3. keys \in Injection(1 .. n, S)
  BY <1>2 DEF Injection
<1>4. IsFiniteSet(1 .. n) /\ Cardinality(1 .. n) = n
  BY <1>1, FS_Interval
<1>5. keys \in Surjection(1 .. n, S)
  BY <1>3, <1>4, FS_Injection
<1>6. \A x \in S : \E i \in 1 .. n : keys[i] = x
  BY <1>5 DEF Surjection
<1>7. \A i, j \in 1 .. n : keys[i] = keys[j] => i = j
  BY <1>2 DEF IsInjective
<1>8. keys \in Seq(S) /\ Len(keys) = n
  BY <1>1, <1>2
<1> QED
  BY <1>1, <1>6, <1>7, <1>8 DEF keys

\* The rows of an object with properties: one for each, in some order.
LEMMA ObjToArrayIs ==
  ASSUME NEW obj \in Object, DOMAIN obj # {}
  PROVE  LET a == ObjToArray(obj)
         IN  /\ a \in Rows
             /\ \A i \in DOMAIN a : a[i].name \in DOMAIN obj /\ a[i].value = obj[a[i].name]
             /\ \A i, j \in DOMAIN a : a[i].name = a[j].name => i = j
             /\ \A x \in DOMAIN obj : \E i \in DOMAIN a : a[i].name = x
<1> DEFINE keys == SetToSeq(DOMAIN obj)
           n == Cardinality(DOMAIN obj)
           a == ObjToArray(obj)
<1>1. DOMAIN obj \in SUBSET Keys /\ \A x \in DOMAIN obj : obj[x] \in Value
  BY DEF Object
<1>2. IsFiniteSet(DOMAIN obj)
  BY <1>1, FS_Subset, CaseDataAssumption
<1>3. /\ n \in Nat /\ keys \in Seq(DOMAIN obj) /\ Len(keys) = n
      /\ \A i, j \in 1 .. n : keys[i] = keys[j] => i = j
      /\ \A x \in DOMAIN obj : \E i \in 1 .. n : keys[i] = x
  BY <1>2, SetToSeqIs
<1>4. a = [i \in 1 .. n |-> [name |-> keys[i], value |-> obj[keys[i]]]]
  BY <1>3, CaseDataAssumption DEF ObjToArray
<1> HIDE DEF keys, n, a
<1>5. \A i \in 1 .. n : keys[i] \in DOMAIN obj
  BY <1>3
<1>6. \A i \in 1 .. n : a[i] \in Entry /\ a[i].name = keys[i] /\ a[i].value = obj[keys[i]]
  BY <1>1, <1>4, <1>5 DEF Entry
<1>7. DOMAIN a = 1 .. n /\ a \in Rows
  BY <1>3, <1>4, <1>6 DEF Rows
<1> QED
  BY <1>3, <1>5, <1>6, <1>7 DEF a

\* An object that goes through the form keeps its texts.
LEMMA ObjectComesBack ==
  ASSUME NEW obj \in Object \cup {Undefined}
  PROVE  /\ ObjToArray(obj) \in Rows \cup {Undefined}
         /\ ToObj(ObjToArray(obj)) = TextPart(obj)
<1>1. CASE obj = Undefined \/ DOMAIN obj = {}
  <2>1. ObjToArray(obj) = Undefined
    BY <1>1 DEF ObjToArray
  <2>2. TextPart(obj) = Undefined
    BY <1>1 DEF TextPart
  <2> QED
    BY <2>1, <2>2 DEF ToObj
<1>2. CASE obj # Undefined /\ DOMAIN obj # {}
  <2> DEFINE a == ObjToArray(obj)
             S == {x \in DOMAIN obj : obj[x] \in Words}
  <2>1. obj \in Object
    BY <1>2
  <2>2. /\ a \in Rows
        /\ \A i \in DOMAIN a : a[i].name \in DOMAIN obj /\ a[i].value = obj[a[i].name]
        /\ \A i, j \in DOMAIN a : a[i].name = a[j].name => i = j
        /\ \A x \in DOMAIN obj : \E i \in DOMAIN a : a[i].name = x
    BY <1>2, <2>1, ObjToArrayIs
  <2>3. a # Undefined
    BY <2>2, CaseDataAssumption
  <2>4. ToObj(a) = ArrayToObj(a)
    BY <2>3 DEF ToObj
  <2> HIDE DEF a
  <2>5. "" \notin DOMAIN obj
    BY <2>1, CaseDataAssumption DEF Object
  <2>6. Kept(a) = {i \in DOMAIN a : obj[a[i].name] \in Words}
    <3>1. \A i \in DOMAIN a : a[i].name \in DOMAIN obj /\ a[i].value = obj[a[i].name]
      BY <2>2
    <3>2. \A i \in DOMAIN a : a[i].name # ""
      BY <2>5, <3>1
    <3> QED
      BY <3>1, <3>2 DEF Kept
  <2>7. {a[i].name : i \in Kept(a)} = S
    BY <2>2, <2>6
  <2>8. CASE Kept(a) = {}
    <3>1. ArrayToObj(a) = Undefined
      BY <2>2, <2>8, ArrayToObjIs
    <3>2. TextPart(obj) = Undefined
      BY <2>7, <2>8 DEF TextPart
    <3> QED
      BY <2>2, <2>4, <3>1, <3>2 DEF a
  <2>9. CASE Kept(a) # {}
    <3>1. ArrayToObj(a) = [x \in S |-> ArrayToObj(a)[x]]
      BY <2>2, <2>7, <2>9, ArrayToObjIs
    <3>2. ASSUME NEW x \in S PROVE ArrayToObj(a)[x] = obj[x]
      <4>1. PICK k \in Kept(a) : a[k].name = x
        BY <2>7
      <4>2. \E i \in Kept(a) : a[i].name = a[k].name /\ ArrayToObj(a)[a[k].name] = a[i].value
        <5>1. a \in Rows
          BY <2>2
        <5> QED
          BY <2>9, <5>1, ArrayToObjIs
      <4>3. PICK i \in Kept(a) : a[i].name = x /\ ArrayToObj(a)[x] = a[i].value
        BY <4>1, <4>2
      <4> QED
        BY <2>2, <2>6, <4>3
    <3>3. ArrayToObj(a) = [x \in S |-> obj[x]]
      BY <3>1, <3>2
    <3>4. TextPart(obj) = [x \in S |-> obj[x]]
      BY <1>2, <2>7, <2>9 DEF TextPart
    <3> QED
      BY <2>2, <2>4, <3>3, <3>4 DEF a
  <2> QED
    BY <2>8, <2>9
<1> QED
  BY <1>1, <1>2

-----------------------------------------------------------------------------
(* Cases and forms *)

\* The conversions hop by hop.
LEMMA ViewToPostIs ==
  ASSUME NEW view \in View
  PROVE  ViewToPost(view) =
           [trace |-> [i \in DOMAIN view.trace |-> [headers |-> ToObj(view.trace[i].headers),
                                                   queries |-> ToObj(view.trace[i].queries)]],
            expect |-> view.expect, validate |-> FALSE, tmpl |-> view.tmpl]
<1> DEFINE t == [i \in DOMAIN view.trace |-> [headers |-> ToObj(view.trace[i].headers),
                                              queries |-> ToObj(view.trace[i].queries)]]
           m == [view EXCEPT !.trace = t]
<1>1. ViewToPost(view) = [m EXCEPT !.validate = FALSE]
  BY DEF ViewToPost, MapFields, ToObj
<1> HIDE DEF t
<1>2. m = [trace |-> t, expect |-> view.expect, validate |-> view.validate, tmpl |-> view.tmpl]
  BY DEF View, Case
<1> HIDE DEF m
<1> QED
  BY <1>1, <1>2 DEF t

\* Normal, field by field.
LEMMA NormalIs ==
  ASSUME NEW post \in Post
  PROVE  Normal(post) =
           [trace |-> [i \in DOMAIN post.trace |-> [headers |-> TextPart(post.trace[i].headers),
                                                   queries |-> TextPart(post.trace[i].queries)]],
            expect |-> post.expect, validate |-> FALSE, tmpl |-> post.tmpl]
<1> DEFINE t == [i \in DOMAIN post.trace |-> [headers |-> TextPart(post.trace[i].headers),
                                              queries |-> TextPart(post.trace[i].queries)]]
           m == [post EXCEPT !.trace = t]
<1>1. Normal(post) = [m EXCEPT !.validate = FALSE]
  BY DEF Normal, MapFields
<1> HIDE DEF t
<1>2. m = [trace |-> t, expect |-> post.expect, validate |-> post.validate, tmpl |-> post.tmpl]
  BY DEF Post, Case
<1> HIDE DEF m
<1> QED
  BY <1>1, <1>2 DEF t

\* What the hops of a case or a form are.
LEMMA TraceType ==
  ASSUME NEW Field, NEW case \in Case(Field)
  PROVE  /\ Len(case.trace) \in Nat /\ DOMAIN case.trace = 1 .. Len(case.trace)
         /\ \A i \in DOMAIN case.trace :
              /\ case.trace[i].headers \in Field \cup {Undefined}
              /\ case.trace[i].queries \in Field \cup {Undefined}
         /\ case.trace = [i \in DOMAIN case.trace |-> case.trace[i]]
         /\ case = [trace |-> case.trace, expect |-> case.expect,
                    validate |-> case.validate, tmpl |-> case.tmpl]
         /\ case.expect \in BOOLEAN /\ case.validate \in BOOLEAN
         /\ case.tmpl \in {"none", "empty", "set"}
<1> DEFINE Hop == [headers : Field \cup {Undefined}, queries : Field \cup {Undefined}]
<1>1. case \in [trace : Seq(Hop), expect : BOOLEAN, validate : BOOLEAN, tmpl : {"none", "empty", "set"}]
  BY DEF Case
<1> HIDE DEF Hop
<1>2. case.trace \in Seq(Hop)
  BY <1>1
<1>3. \A i \in DOMAIN case.trace : case.trace[i] \in Hop
  BY <1>2
<1>4. Len(case.trace) \in Nat /\ DOMAIN case.trace = 1 .. Len(case.trace)
  BY <1>2
<1>5. case.trace = [i \in DOMAIN case.trace |-> case.trace[i]]
  BY <1>2
<1> QED
  BY <1>1, <1>3, <1>4, <1>5 DEF Hop

\* A hop is its two fields.
LEMMA HopIs ==
  ASSUME NEW Field, NEW case \in Case(Field), NEW i \in DOMAIN case.trace
  PROVE  case.trace[i] = [headers |-> case.trace[i].headers, queries |-> case.trace[i].queries]
<1> DEFINE Hop == [headers : Field \cup {Undefined}, queries : Field \cup {Undefined}]
<1>1. case.trace \in Seq(Hop)
  BY DEF Case
<1> HIDE DEF Hop
<1>2. case.trace[i] \in Hop
  BY <1>1
<1> QED
  BY <1>2 DEF Hop

\* A case is made of hops with such fields, and of what else is kept of it.
LEMMA CaseOfHops ==
  ASSUME NEW Field, NEW n \in Nat, NEW t,
         t = [i \in 1 .. n |-> [headers |-> t[i].headers, queries |-> t[i].queries]],
         \A i \in 1 .. n : /\ t[i].headers \in Field \cup {Undefined}
                           /\ t[i].queries \in Field \cup {Undefined},
         NEW e \in BOOLEAN, NEW v \in BOOLEAN, NEW m \in {"none", "empty", "set"}
  PROVE  [trace |-> t, expect |-> e, validate |-> v, tmpl |-> m] \in Case(Field)
<1> DEFINE Hop == [headers : Field \cup {Undefined}, queries : Field \cup {Undefined}]
<1>1. \A i \in 1 .. n : t[i] \in Hop
  OBVIOUS
<1> HIDE DEF Hop
<1>2. t \in Seq(Hop)
  BY <1>1
<1> QED
  BY <1>2 DEF Case, Hop

\* postToView converts every field, also where it returns the case as it is.
LEMMA PostToViewIs ==
  ASSUME NEW post \in Post
  PROVE  PostToView(post) =
           [trace |-> [i \in DOMAIN post.trace |-> [headers |-> ObjToArray(post.trace[i].headers),
                                                   queries |-> ObjToArray(post.trace[i].queries)]],
            expect |-> post.expect, validate |-> post.validate, tmpl |-> post.tmpl]
<1> DEFINE t == [i \in DOMAIN post.trace |-> [headers |-> ObjToArray(post.trace[i].headers),
                                              queries |-> ObjToArray(post.trace[i].queries)]]
           Some == \E i \in DOMAIN post.trace :
                     post.trace[i].headers # Undefined \/ post.trace[i].queries # Undefined
<1>1. CASE Some
  <2>1. PostToView(post) = [post EXCEPT !.trace = t]
    BY <1>1 DEF PostToView, MapFields
  <2> HIDE DEF t
  <2>2. [post EXCEPT !.trace = t] =
          [trace |-> t, expect |-> post.expect, validate |-> post.validate, tmpl |-> post.tmpl]
    BY DEF Post, Case
  <2> QED
    BY <2>1, <2>2 DEF t
<1>2. CASE ~Some
  <2>1. PostToView(post) = post
    BY <1>2 DEF PostToView
  <2>2. ASSUME NEW i \in DOMAIN post.trace PROVE post.trace[i] = t[i]
    <3>1. post.trace[i].headers = Undefined /\ post.trace[i].queries = Undefined
      BY <1>2
    <3>2. post.trace[i] = [headers |-> post.trace[i].headers, queries |-> post.trace[i].queries]
      BY HopIs DEF Post
    <3>3. ObjToArray(Undefined) = Undefined
      BY DEF ObjToArray
    <3> QED
      BY <3>1, <3>2, <3>3
  <2>3. post.trace = t
    BY <2>2, TraceType DEF Post
  <2>4. post = [trace |-> post.trace, expect |-> post.expect,
                validate |-> post.validate, tmpl |-> post.tmpl]
    BY TraceType DEF Post
  <2> HIDE DEF t
  <2>5. post = [trace |-> t, expect |-> post.expect, validate |-> post.validate, tmpl |-> post.tmpl]
    BY <2>3, <2>4
  <2> QED
    BY <2>1, <2>5 DEF t
<1> QED
  BY <1>1, <1>2

\* The form's shape becomes the posted one, with nothing but texts in it.
LEMMA ViewToPostType ==
  ASSUME NEW view \in View
  PROVE  ViewToPost(view) \in Case(Texts) /\ ViewToPost(view) \in Post
<1> DEFINE n == Len(view.trace)
           t == [i \in 1 .. n |-> [headers |-> ToObj(view.trace[i].headers),
                                  queries |-> ToObj(view.trace[i].queries)]]
<1>1. /\ n \in Nat /\ DOMAIN view.trace = 1 .. n
      /\ \A i \in 1 .. n : /\ view.trace[i].headers \in Rows \cup {Undefined}
                           /\ view.trace[i].queries \in Rows \cup {Undefined}
      /\ view.expect \in BOOLEAN /\ view.tmpl \in {"none", "empty", "set"}
  BY TraceType DEF View
<1>2. ASSUME NEW f \in Rows \cup {Undefined}
      PROVE  ToObj(f) \in Texts \cup {Undefined} /\ ToObj(f) \in Object \cup {Undefined}
  BY ArrayToObjType, TextsAreKept DEF ToObj
<1>3. ViewToPost(view) = [trace |-> t, expect |-> view.expect, validate |-> FALSE, tmpl |-> view.tmpl]
  BY <1>1, ViewToPostIs
<1>4. /\ t = [i \in 1 .. n |-> [headers |-> t[i].headers, queries |-> t[i].queries]]
      /\ \A i \in 1 .. n : /\ t[i].headers = ToObj(view.trace[i].headers)
                           /\ t[i].queries = ToObj(view.trace[i].queries)
  OBVIOUS
<1>5. ASSUME NEW Field, \A f \in Rows \cup {Undefined} : ToObj(f) \in Field \cup {Undefined}
      PROVE  ViewToPost(view) \in Case(Field)
  <2>1. \A i \in 1 .. n : /\ t[i].headers \in Field \cup {Undefined}
                          /\ t[i].queries \in Field \cup {Undefined}
    BY <1>1, <1>4, <1>5
  <2> HIDE DEF n, t
  <2>2. [trace |-> t, expect |-> view.expect, validate |-> FALSE, tmpl |-> view.tmpl] \in Case(Field)
    BY <1>1, <1>4, <2>1, CaseOfHops
  <2> QED
    BY <1>3, <2>2
<1>6. ViewToPost(view) \in Case(Texts)
  BY <1>2, <1>5
<1>7. ViewToPost(view) \in Case(Object)
  BY <1>2, <1>5
<1> QED
  BY <1>6, <1>7 DEF Post

\* The posted shape becomes the form's.
LEMMA PostToViewType ==
  ASSUME NEW post \in Post
  PROVE  PostToView(post) \in View
<1> DEFINE n == Len(post.trace)
           t == [i \in 1 .. n |-> [headers |-> ObjToArray(post.trace[i].headers),
                                  queries |-> ObjToArray(post.trace[i].queries)]]
<1>1. /\ n \in Nat /\ DOMAIN post.trace = 1 .. n
      /\ \A i \in 1 .. n : /\ post.trace[i].headers \in Object \cup {Undefined}
                           /\ post.trace[i].queries \in Object \cup {Undefined}
      /\ post.expect \in BOOLEAN /\ post.validate \in BOOLEAN
      /\ post.tmpl \in {"none", "empty", "set"}
  BY TraceType DEF Post
<1>2. PostToView(post) =
        [trace |-> t, expect |-> post.expect, validate |-> post.validate, tmpl |-> post.tmpl]
  BY <1>1, PostToViewIs
<1>3. /\ t = [i \in 1 .. n |-> [headers |-> t[i].headers, queries |-> t[i].queries]]
      /\ \A i \in 1 .. n : /\ t[i].headers = ObjToArray(post.trace[i].headers)
                           /\ t[i].queries = ObjToArray(post.trace[i].queries)
  OBVIOUS
<1>4. \A i \in 1 .. n : /\ t[i].headers \in Rows \cup {Undefined}
                        /\ t[i].queries \in Rows \cup {Undefined}
  BY <1>1, <1>3, ObjectComesBack
<1> HIDE DEF n, t
<1>5. [trace |-> t, expect |-> post.expect, validate |-> post.validate, tmpl |-> post.tmpl]
        \in Case(Rows)
  BY <1>1, <1>3, <1>4, CaseOfHops
<1> QED
  BY <1>2, <1>5 DEF View

-----------------------------------------------------------------------------
(* Through the form and back *)

\* Whatever is typed or loaded, the form keeps all of it but what is not a text:
\* no hop is lost, and none of two names (postToView, then viewToPost).
THEOREM FormKeepsCases == \A post \in Post : KeptByForm(post)
<1> SUFFICES ASSUME NEW post \in Post PROVE ViewToPost(PostToView(post)) = Normal(post)
  BY DEF KeptByForm
<1> DEFINE n == Len(post.trace)
           v == PostToView(post)
           p == [i \in 1 .. n |-> [headers |-> TextPart(post.trace[i].headers),
                                  queries |-> TextPart(post.trace[i].queries)]]
           q == [i \in 1 .. n |-> [headers |-> ToObj(v.trace[i].headers),
                                  queries |-> ToObj(v.trace[i].queries)]]
<1>1. /\ n \in Nat /\ DOMAIN post.trace = 1 .. n
      /\ \A i \in 1 .. n : /\ post.trace[i].headers \in Object \cup {Undefined}
                           /\ post.trace[i].queries \in Object \cup {Undefined}
  BY TraceType DEF Post
<1>2. Normal(post) = [trace |-> p, expect |-> post.expect, validate |-> FALSE, tmpl |-> post.tmpl]
  BY <1>1, NormalIs
<1>3. /\ v.trace = [i \in 1 .. n |-> [headers |-> ObjToArray(post.trace[i].headers),
                                       queries |-> ObjToArray(post.trace[i].queries)]]
      /\ v.expect = post.expect /\ v.tmpl = post.tmpl
  BY <1>1, PostToViewIs
<1>4. v \in View
  BY PostToViewType
<1> HIDE DEF n, v
<1>5. DOMAIN v.trace = 1 .. n
  BY <1>3
<1>6. ViewToPost(v) = [trace |-> q, expect |-> post.expect, validate |-> FALSE, tmpl |-> post.tmpl]
  BY <1>3, <1>4, <1>5, ViewToPostIs
<1>7. ASSUME NEW i \in 1 .. n
      PROVE  /\ ToObj(v.trace[i].headers) = TextPart(post.trace[i].headers)
             /\ ToObj(v.trace[i].queries) = TextPart(post.trace[i].queries)
  <2>1. /\ v.trace[i].headers = ObjToArray(post.trace[i].headers)
        /\ v.trace[i].queries = ObjToArray(post.trace[i].queries)
    BY <1>3
  <2> QED
    BY <1>1, <2>1, ObjectComesBack
<1>8. q = p
  BY <1>7
<1> QED
  BY <1>2, <1>6, <1>8 DEF v

\* What a form means has only texts in it, so that normalising changes nothing.
LEMMA FormsAreNormal ==
  ASSUME NEW view \in View
  PROVE  Normal(ViewToPost(view)) = ViewToPost(view)
<1> DEFINE c == ViewToPost(view)
           n == Len(c.trace)
           p == [i \in 1 .. n |-> [headers |-> TextPart(c.trace[i].headers),
                                  queries |-> TextPart(c.trace[i].queries)]]
<1>1. c \in Post /\ c \in Case(Texts) /\ c.validate = FALSE
  BY ViewToPostType, ViewToPostIs
<1> HIDE DEF c
<1>2. /\ n \in Nat /\ DOMAIN c.trace = 1 .. n
      /\ \A i \in 1 .. n : /\ c.trace[i].headers \in Texts \cup {Undefined}
                           /\ c.trace[i].queries \in Texts \cup {Undefined}
      /\ c.trace = [i \in DOMAIN c.trace |-> c.trace[i]]
      /\ c = [trace |-> c.trace, expect |-> c.expect, validate |-> c.validate, tmpl |-> c.tmpl]
  BY <1>1, TraceType
<1> HIDE DEF n
<1>3. Normal(c) = [trace |-> p, expect |-> c.expect, validate |-> FALSE, tmpl |-> c.tmpl]
  BY <1>1, <1>2, NormalIs
<1>4. ASSUME NEW i \in 1 .. n PROVE c.trace[i] = p[i]
  <2>1. c.trace[i] = [headers |-> c.trace[i].headers, queries |-> c.trace[i].queries]
    BY <1>1, <1>2, HopIs
  <2>2. /\ TextPart(c.trace[i].headers) = c.trace[i].headers
        /\ TextPart(c.trace[i].queries) = c.trace[i].queries
    BY <1>2, TextsAreKept
  <2> QED
    BY <2>1, <2>2
<1>5. c.trace = p
  BY <1>2, <1>4
<1> QED
  BY <1>1, <1>2, <1>3, <1>5 DEF c

\* The text of any form means the same form again, however its rows are finished,
\* repeated or ordered.
THEOREM TextKeepsForms == \A view \in View : KeptByText(view)
<1> SUFFICES ASSUME NEW view \in View
             PROVE  ViewToPost(PostToView(ViewToPost(view))) = ViewToPost(view)
  BY DEF KeptByText
<1>1. ViewToPost(view) \in Post
  BY ViewToPostType
<1>2. ViewToPost(PostToView(ViewToPost(view))) = Normal(ViewToPost(view))
  BY <1>1, FormKeepsCases DEF KeptByForm
<1> QED
  BY <1>2, FormsAreNormal
=============================================================================
