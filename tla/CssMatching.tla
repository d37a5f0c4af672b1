------------------------------ MODULE CssMatching ------------------------------
(***************************************************************************)
(* What CSS says that a selector selects, element by element, in the terms *)
(* of Selectors level 3: the reference that the translation to XPath is    *)
(* compared with.  Two of its clauses are this library's own, and are      *)
(* taken from test/css/test_css_integration.rb: "first" and "last" count   *)
(* as positions, and :nth-of-type() and its relatives count the siblings   *)
(* that the name and the conditions before them leave.                     *)
(***************************************************************************)
EXTENDS CssSelectors

\* the words of an attribute, separated by blanks
Words(x) ==
  {w \in {SubSeq(x, i, j) : i \in DOMAIN x, j \in DOMAIN x} :
    \E i \in 1 .. Len(x) - Len(w) + 1 :
      /\ w # <<>> /\ " " \notin {w[k] : k \in DOMAIN w}
      /\ SubSeq(x, i, i + Len(w) - 1) = w
      /\ i = 1 \/ x[i - 1] = " "
      /\ i + Len(w) > Len(x) \/ x[i + Len(w)] = " "}

NameMatches(d, n, e, v) ==
  /\ e.name \in {"*", d.name[n]}
  /\ \/ e.name = "*"
     \/ e.prefix = "" /\ d.ns[n] = ""
     \/ e.prefix = "p" /\ d.ns[n] = "u"
     \/ /\ e.prefix = "none"
        /\ v.doctype = "html5" \/ d.ns[n] = (IF v.namespaces = "xmlns" THEN "u" ELSE "")

AttributeMatches(d, n, c) ==
  /\ c.attr \in DOMAIN d.attrs[n]
  /\ LET x == d.attrs[n][c.attr] IN
     CASE c.op = "" -> TRUE
       [] c.op = "equal" -> x = c.value
       [] c.op = "not_equal" -> x # c.value
       [] c.op = "substring_match" -> \E p, q \in DOMAIN x : SubSeq(x, p, q) = c.value
       [] c.op = "prefix_match" -> IsPrefix(c.value, x)
       [] c.op = "suffix_match" -> IsSuffix(c.value, x)
       [] c.op = "includes" -> c.value \in Words(x)
       [] c.op = "dash_match" -> x = c.value \/ IsPrefix(c.value \o <<"-">>, x)

\* position k is a*m + b for some m of 0, 1, 2, ...
InSeries(k, a, b) == \E m \in 0 .. 20 : a * m + b = k

SideOf(c) == IF c.name \in {"nth-last-child", "nth-last-of-type"} THEN "last" ELSE "first"
OfType(c) == c.name \in {"nth", "nth-of-type", "nth-last-of-type"}
PositionIn(S, n, side) == Cardinality({m \in S : IF side = "first" THEN m <= n ELSE m >= n})

Related(d, combinator, m, n) ==
  CASE combinator = "descendant" -> n # m /\ m \in AncestorsOrSelf(d, n)
    [] combinator = "child" -> d.parent[n] = m
    [] combinator = "following" -> n \in Following(d, m)
    [] combinator = "direct_adjacent" -> n \in Following(d, m) /\ \A k \in Following(d, m) : n <= k

RECURSIVE Matches(_, _, _, _, _), Selected(_, _, _, _), ConditionMatches(_, _, _, _, _)

\* the i-th condition of the simple selector s
ConditionMatches(d, n, s, i, v) ==
  LET c == s.conditions[i]
      \* the siblings that are of the same type: see the comment above
      same == {m \in SiblingsOf(d, n) : Matches(d, m, s, i - 1, v)}
      first(S) == PositionIn(S, n, "first") = 1
      last(S) == PositionIn(S, n, "last") = 1
  IN CASE c.type = "CLASS_CONDITION" ->
            "class" \in DOMAIN d.attrs[n] /\ c.class \in Words(d.attrs[n]["class"])
       [] c.type = "ATTRIBUTE_CONDITION" -> AttributeMatches(d, n, c)
       [] c.type = "PSEUDO_CLASS" ->
           (CASE c.pseudo = "first-child" -> first(SiblingsOf(d, n))
              [] c.pseudo = "last-child" -> last(SiblingsOf(d, n))
              [] c.pseudo = "only-child" -> SiblingsOf(d, n) = {n}
              [] c.pseudo \in {"first", "first-of-type"} -> first(same)
              [] c.pseudo \in {"last", "last-of-type"} -> last(same)
              [] c.pseudo = "only-of-type" -> same = {n}
              [] c.pseudo = "empty" -> ChildrenOf(d, n) = {} /\ ~d.text[n]
              [] c.pseudo = "parent" -> ChildrenOf(d, n) # {} \/ d.text[n]
              [] c.pseudo = "root" -> d.parent[n] = 0)
       [] c.type \in {"NTH", "INDEX"} ->
            LET k == PositionIn(IF OfType(c) THEN same ELSE SiblingsOf(d, n), n, SideOf(c))
            IN IF c.type = "INDEX" THEN k = c.index
               ELSE InSeries(k, c.a, IF c.op = "+" THEN c.b ELSE -c.b)
       [] c.type = "NOT" ->
            IF c.element # {} THEN \A e \in c.element : ~NameMatches(d, n, e, v)
            ELSE ~ConditionMatches(d, n, [s EXCEPT !.conditions = <<c.condition>>], 1, v)
       [] c.type = "HAS" -> Selected(d, c.arg, v, n) # {}

\* element n has the name and the first k conditions of s
Matches(d, n, s, k, v) ==
  NameMatches(d, n, s.name, v) /\ \A i \in 1 .. k : ConditionMatches(d, n, s, i, v)

\* the elements that sel selects from the node context
Selected(d, sel, v, context) ==
  LET at[i \in DOMAIN sel.simple] ==
        {n \in Elements(d) :
          /\ Matches(d, n, sel.simple[i], Len(sel.simple[i].conditions), v)
          /\ IF i = 1 THEN Related(d, IF sel.lead = "" THEN "descendant" ELSE sel.lead, context, n)
             ELSE \E m \in at[i - 1] : Related(d, sel.combinators[i - 1], m, n)}
  IN at[Len(sel.simple)]
=============================================================================
