-------------------------------- MODULE MCApp --------------------------------
(* An instance of App for TLC. *)
EXTENDS App

CONSTANTS host, lang, t1, t2, num, c1, c2, ghost, mine, yours, blue, here, there

\* A name with a separator in it, and one that begins like it and has a question mark.
First == <<c1>>
Second == <<c2, "&", c1>>
Third == <<c2, "&", c1, "?", c2>>
Nowhere == <<ghost>>
NamesOnServer == {First, Second, Third}
AllPieces == {c1, c2, ghost, blue, "?", "&", "#"}

TwoKeys == {host, lang}

None == [headers |-> Undefined, queries |-> Undefined]
Plain == [trace |-> <<None>>, expect |-> FALSE, validate |-> FALSE, tmpl |-> "none"]

\* A case with an expectation and a header, and one with two hops, a number and
\* an empty text for values, queries, and an empty template.
WithHeader == [Plain EXCEPT !.trace = <<[None EXCEPT !.headers = host :> t1]>>, !.expect = TRUE]
Awkward ==
  [Plain EXCEPT !.trace = <<None, [headers |-> <<>>, queries |-> (host :> num @@ lang :> t1)]>>,
                !.tmpl = "empty"]

OnServer == (First :> WithHeader) @@ (Second :> Awkward) @@ (Third :> Plain)

\* A form with two rows of one name and unfinished rows.
Row(n, v) == [name |-> n, value |-> v]
Twice ==
  [Plain EXCEPT !.trace = <<[None EXCEPT !.headers =
     <<Row(host, t1), Row("", t1), Row(host, t2), Row(lang, "")>>]>>, !.tmpl = "empty"]

TypedCases == {Awkward, WithHeader}
FilledForms == {Twice}
OtherCases == {Plain}
Addresses == {<<>>, << <<"v", <<c1>>>>, <<"scope", <<blue, "?">>>> >>}

\* Cases of one or two hops with every combination of properties, and forms with
\* every array of up to two rows.
Objects == UNION {[S -> {t1, num, ""}] : S \in SUBSET TwoKeys} \cup {Undefined}
Hops == {h \in [headers : Objects, queries : Objects] :
           h.queries \in {Undefined, h.headers, lang :> num, host :> t1}}
ManyPosts ==
  {[Plain EXCEPT !.trace = t, !.validate = v] : t \in {<<h>> : h \in Hops}, v \in BOOLEAN}
    \cup {[Plain EXCEPT !.trace = <<None, h, g>>] : h \in {WithHeader.trace[1], None}, g \in Hops}
Arrays == SeqOf([name : TwoKeys \cup {""}, value : {t1, t2, num, ""}], 2) \cup {Undefined}
ManyViews == {[Plain EXCEPT !.trace = <<None, [headers |-> a, queries |-> Undefined],
                                        [headers |-> Undefined, queries |-> a]>>] : a \in Arrays}
=============================================================================
