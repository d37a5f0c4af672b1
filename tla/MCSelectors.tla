------------------------------ MODULE MCSelectors ------------------------------
(***************************************************************************)
(* The cache with the translation of CSS selectors for its Translation:    *)
(* one thread that asks about each selector of four suites, and two that   *)
(* ask about a few selectors at once.  What a call answers is evaluated on *)
(* every document of the suite, and compared with what CSS selects.        *)
(***************************************************************************)
EXTENDS SelectorCache, CssMatching

CONSTANTS t1, t2

-----------------------------------------------------------------------------
(* Conditions.                                                             *)

Class(x) == [type |-> "CLASS_CONDITION", class |-> x]
Attribute(attr, op, x) == [type |-> "ATTRIBUTE_CONDITION", attr |-> attr, op |-> op, value |-> x]
Pseudo(name) == [type |-> "PSEUDO_CLASS", pseudo |-> name]
Nth(name, a, op, b) == [type |-> "NTH", name |-> name, a |-> a, op |-> op, b |-> b]
AtIndex(name, i) == [type |-> "INDEX", name |-> name, index |-> i]
NotElement(e) == [type |-> "NOT", element |-> {e}]
NotCondition(c) == [type |-> "NOT", element |-> {}, condition |-> c]
Has(sel) == [type |-> "HAS", arg |-> sel]

a == Named("a")
b == Named("b")
any == Named("*")
x == <<"x">>

-----------------------------------------------------------------------------
(* Positions: flat lists of up to 5 elements.                              *)

Flat(names, attrs) ==
  LET n == Len(names) IN
  [parent |-> <<0>> \o [i \in 1 .. n |-> 1], name |-> <<"r">> \o names,
   ns |-> [i \in 1 .. n + 1 |-> ""], attrs |-> << <<>> >> \o attrs,
   text |-> [i \in 1 .. n + 1 |-> FALSE]]

NoAttrs(n) == [i \in 1 .. n |-> <<>>]
ClassX == [class |-> x]

FlatDocuments ==
  {Flat(names, NoAttrs(Len(names))) : names \in UNION {[1 .. n -> {"a", "b"}] : n \in 3 .. 5}}
  \cup UNION {{Flat(names, attrs) : names \in {<<"a", "a", "a">>, <<"a", "b", "a">>},
                                    attrs \in [1 .. 3 -> {<<>>, ClassX}]}}

Functions5 == {"nth", "nth-child", "nth-of-type", "nth-last-of-type", "nth-last-child"}

\* left out: a of 0, and a below 0 with b of 0 (see the README)
Series ==
  {Nth(name, i, "+", j) : name \in Functions5, i \in {-2, -1, 1, 2, 3}, j \in 1 .. 4}
  \cup {Nth(name, i, "+", 0) : name \in Functions5, i \in {1, 2, 3}}
  \cup {Nth(name, i, "-", j) : name \in Functions5, i \in {-2, 1, 2, 3}, j \in {1, 2, 4}}
  \cup {AtIndex(name, i) : name \in Functions5, i \in 1 .. 3}
  \cup {Pseudo(name) : name \in {"first", "last", "first-child", "last-child", "only-child",
                                 "first-of-type", "last-of-type", "only-of-type"}}

OfSelected ==
  {c \in Series : IF c.type = "PSEUDO_CLASS" THEN c.pseudo \in {"first-of-type", "last-of-type", "only-of-type"}
                  ELSE c.name \in {"nth-of-type", "nth-last-of-type"}}

Positions ==
  {Alone(Simple(a, <<c>>)) : c \in Series}
  \cup {Alone(Simple(a, <<Class(x), c>>)) : c \in OfSelected}

-----------------------------------------------------------------------------
(* Conditions: two siblings with attributes.                               *)

Values == {<<"x">>, <<"x", "y">>, <<"y", "x">>, <<"x", " ", "y">>, <<" ", "y", " ", "x">>, <<"x", "-", "y">>, <<>>}
Attrs == {<<>>} \cup {[class |-> z] : z \in Values} \cup {[lang |-> z] : z \in Values}

AttributeDocuments ==
  {[Flat(<<"a", "b">>, <<i, j>>) EXCEPT !.text = <<FALSE, FALSE, TRUE>>] : i \in Attrs, j \in Attrs}

Operators == {"equal", "not_equal", "substring_match", "prefix_match", "suffix_match", "includes", "dash_match"}

\* the dash match is alone among its conditions (see the README)
Conditions1 == {Class(x), Class(<<"x", "y">>), Attribute("lang", "", <<>>)}
               \cup {Attribute("lang", op, x) : op \in Operators}
               \cup {NotCondition(Attribute("lang", op, x)) : op \in {"dash_match", "equal"}}
               \cup {Pseudo("empty"), Pseudo("parent"), NotElement(a), NotCondition(Class(x))}

Several == Conditions1 \ {Attribute("lang", "dash_match", x)}

ConditionSelectors ==
  {Alone(Simple(any, <<c>>)) : c \in Conditions1}
  \cup {Alone(Simple(any, <<c, e>>)) : c \in Several, e \in {Class(x), Pseudo("first-child")}}
  \cup {Alone(Simple(any, <<Class(x), c, Pseudo("last-child")>>)) : c \in Several}

\* the selectors of the finding: a dash match beside another condition
DashSelectors == {Alone(Simple(any, <<Class(x), Attribute("lang", "dash_match", x)>>))}

-----------------------------------------------------------------------------
(* Combinators: trees of 4 elements.                                       *)

Shapes == {<<0, 1, 2, 3>>, <<0, 1, 2, 2>>, <<0, 1, 2, 1>>, <<0, 1, 1, 3>>, <<0, 1, 1, 1>>}

Tree(shape, names, ns) ==
  [parent |-> shape, name |-> names, ns |-> ns, attrs |-> NoAttrs(Len(shape)),
   text |-> [i \in DOMAIN shape |-> FALSE]]

TreeDocuments == {Tree(shape, names, <<"", "", "", "">>) : shape \in Shapes, names \in [1 .. 4 -> {"a", "b"}]}

Plain == {Simple(a, <<>>), Simple(b, <<Pseudo("last-child")>>), Simple(any, <<NotElement(a)>>),
          Simple(any, <<Pseudo("root")>>)}
         \cup {Simple(any, <<Has(Leading(c, Simple(b, <<>>)))>>) : c \in {"child", "following", "direct_adjacent"}}
         \cup {Simple(a, <<NotCondition(Has(Alone(Simple(b, <<>>))))>>)}

OfType1 == {Simple(a, <<Pseudo("first-of-type")>>), Simple(b, <<AtIndex("nth-last-of-type", 2)>>)}

\* no of-type condition after a sibling combinator (see the README)
CombinedSelectors ==
  {Combined(s, c, t) : s \in Plain \cup OfType1, c \in {"descendant", "child", "following", "direct_adjacent"}, t \in Plain}
  \cup {Combined(s, c, t) : s \in Plain, c \in {"descendant", "child"}, t \in OfType1}

Chains ==
  LET combinators == {"descendant", "child", "following", "direct_adjacent"} IN
  {[lead |-> "", simple |-> <<Simple(a, <<>>), Simple(b, <<>>), Simple(any, <<>>)>>, combinators |-> <<c, e>>] :
     c \in combinators, e \in combinators}

LeadingSelectors ==
  {Leading(c, s) : c \in {"child", "following", "direct_adjacent"}, s \in Plain} \cup {Alone(s) : s \in OfType1}

-----------------------------------------------------------------------------
(* Names and namespaces: trees of 3 elements.                              *)

NameDocuments ==
  {Tree(shape, names, ns) : shape \in {<<0, 1, 2>>, <<0, 1, 1>>}, names \in [1 .. 3 -> {"a", "b"}],
                            ns \in [1 .. 3 -> {"", "u"}]}

NameSelectors ==
  {Alone(Simple(e, <<>>)) : e \in {a, any, Prefixed("p", "a"), Prefixed("", "a")}}
  \cup {Alone(Simple(any, <<NotElement(e)>>)) : e \in {a, Prefixed("p", "a")}}
  \cup {Combined(Simple(a, <<>>), "child", Simple(Prefixed("p", "b"), <<Pseudo("first-of-type")>>))}

-----------------------------------------------------------------------------
(* Visitors.  "of" is what documents a visitor serves: two visitors that   *)
(* differ in nothing else are different objects with the same config.      *)

MCconfig(v) == <<v.builtins, v.doctype, v.prefix, v.namespaces>>

For(of) == [of |-> of, builtins |-> "optimal", doctype |-> "xml", prefix |-> "//", namespaces |-> "none"]

Asked(selectors, visitors) == selectors \X visitors

Suites ==
  Asked(Positions, {For("flat")})
  \cup Asked(ConditionSelectors, {For("attributes"), [For("attributes") EXCEPT !.builtins = "never"]})
  \cup Asked(CombinedSelectors \cup Chains, {For("trees")})
  \cup Asked(LeadingSelectors, {[For("trees") EXCEPT !.prefix = p] : p \in {".//", "./"}})
  \cup Asked(NameSelectors, {[For("names") EXCEPT !.doctype = i, !.namespaces = j] :
                               i \in {"xml", "html5"}, j \in {"none", "xmlns"}})

\* two threads that share the cache: a visitor, one with another config, one
\* with the same, and a selector that does not parse
Shared ==
  LET sel == Alone(Simple(a, <<>>))
      bad == Alone(Simple(a, <<Pseudo("-x")>>))
      v   == For("names")
      w   == [v EXCEPT !.namespaces = "xmlns"]
      u   == [v EXCEPT !.of = "trees"]
  IN [t \in {t1, t2} |-> IF t = t1 THEN {<<sel, v>>, <<sel, w>>, <<bad, v>>} ELSE {<<sel, u>>, <<sel, w>>}]

Single(questions) == {[t \in {t1, t2} |-> IF t = t1 THEN {q} ELSE {}] : q \in questions}

MCProgram == Single(Suites) \cup {Shared}
DashProgram == Single(Asked(DashSelectors, {For("attributes")}))

AllQuestions == UNION {p[t1] \cup p[t2] : p \in MCProgram \cup DashProgram}
MCSelector == {q[1] : q \in AllQuestions}
MCVisitor == {q[2] : q \in AllQuestions}

MCTranslation(sel, v) == IF Raises(sel) THEN Error ELSE to_xpath(sel, v)

-----------------------------------------------------------------------------
Documents(v) ==
  CASE v.of = "flat" -> FlatDocuments
    [] v.of = "attributes" -> AttributeDocuments
    [] v.of = "trees" -> TreeDocuments
    [] v.of = "names" -> NameDocuments

\* where a search begins, and the combinator that a prefix stands for
Contexts(d, v) == IF v.prefix = "//" THEN {0} ELSE Elements(d)
Start(sel, v) == IF sel.lead # "" THEN sel ELSE [sel EXCEPT !.lead = IF v.prefix = "./" THEN "child" ELSE "descendant"]

\* The XPath that a call answers with selects, from every context node of every
\* document of the suite, the elements that CSS says the selector selects.
SelectsWhatMatches ==
  \A t \in Thread : pc[t] = "idle" =>
    \A r \in answer[t] : r[2] # Error =>
      LET sel == r[1][1]
          v   == r[1][2]
      IN \A d \in Documents(v) : \A c \in Contexts(d, v) :
           evaluate(d, r[2], c) = Selected(d, Start(sel, v), v, c)
=============================================================================
