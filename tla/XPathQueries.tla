----------------------------- MODULE XPathQueries -----------------------------
(***************************************************************************)
(* XPath 1.0 as libxml2 evaluates it, for the expressions that the CSS     *)
(* visitor writes (lib/nokogiri/css/xpath_visitor.rb).                     *)
(*                                                                         *)
(* A document d numbers its elements in document order, node 0 being the   *)
(* document itself.  A path is a sequence of steps, and what stands in the *)
(* brackets of a step is a sequence of predicates, each a disjunction of   *)
(* conjunctions of tests: "and" binds tighter than "or".                   *)
(***************************************************************************)
EXTENDS Integers, Sequences, SequencesExt, FiniteSets

Elements(d) == DOMAIN d.parent
AllNodes(d) == {0} \cup Elements(d)
ChildrenOf(d, n) == {m \in Elements(d) : d.parent[m] = n}

AncestorsOrSelf(d, n) ==
  LET up[m \in AllNodes(d)] == IF m = 0 THEN {0} ELSE {m} \cup up[d.parent[m]] IN up[n]

SiblingsOf(d, n) == ChildrenOf(d, d.parent[n])
Following(d, n) == IF n = 0 THEN {} ELSE {m \in SiblingsOf(d, n) : m > n}
Preceding(d, n) == IF n = 0 THEN {} ELSE {m \in SiblingsOf(d, n) : m < n}

Axis(d, axis, n) ==
  CASE axis = "child" -> ChildrenOf(d, n)
    [] axis = "descendant-or-self" -> {m \in AllNodes(d) : n \in AncestorsOrSelf(d, m)}
    [] axis = "following-sibling" -> Following(d, n)
    [] axis = "self" -> {n}

\* a name test looks at the namespace too, unless it is local-name()
Passes(d, test, n) ==
  \/ test.name = "node()"
  \/ n # 0 /\ test.name = "*"
  \/ n # 0 /\ test.name = d.name[n] /\ test.ns \in {"any", d.ns[n]}

Mod(x, a) == LET r == (IF x < 0 THEN -x ELSE x) % (IF a < 0 THEN -a ELSE a) IN IF x < 0 THEN -r ELSE r

Compare(rel, x, y) == CASE rel = "=" -> x = y [] rel = "<=" -> x <= y [] rel = ">=" -> x >= y

Starts(x, y) == IsPrefix(y, x)
Contained(x, y) == \E i \in 1 .. Len(x) - Len(y) + 1 : SubSeq(x, i, i + Len(y) - 1) = y
\* substring(x, from, length), where from may be before the string
Substring(x, from, length) ==
  LET last == from + length - 1
  IN SubSeq(x, IF from < 1 THEN 1 ELSE from, IF last > Len(x) THEN Len(x) ELSE last)
Ends(x, y) == Substring(x, Len(x) - Len(y) + 1, Len(y)) = y
\* contains(concat(' ', normalize-space(x), ' '), ' y ')
HasWord(x, y) == \E i \in 1 .. Len(x) - Len(y) + 1 :
  /\ SubSeq(x, i, i + Len(y) - 1) = y
  /\ i = 1 \/ x[i - 1] = " "
  /\ i + Len(y) > Len(x) \/ x[i + Len(y)] = " "

\* nokogiri-builtin:css-class looks for val where a word of str begins
css_class(str, val) ==
  LET end == Len(str) + 1
      Word(i) == /\ IsPrefix(val, SubSeq(str, i, Len(str)))
                 /\ i + Len(val) = end \/ str[i + Len(val)] = " "
      Next(i) == CHOOSE j \in i + 1 .. end :
                   /\ j = end \/ (str[j] # " " /\ str[j - 1] = " ")
                   /\ \A k \in i + 1 .. j - 1 : str[k] = " " \/ str[k - 1] # " "
      from[i \in 1 .. end] == i < end /\ (Word(i) \/ from[Next(i)])
  IN from[1]

\* the string of an attribute; one that is missing is empty, and equals nothing
StringOf(d, attr, n) == IF attr \in DOMAIN d.attrs[n] THEN d.attrs[n][attr] ELSE <<>>

RECURSIVE Holds(_, _, _, _, _), Select(_, _, _)

\* the number that a test compares, of node n that is the i-th of size
NumberOf(d, of, n, i, size) ==
  CASE of = "position()" -> i
    [] of = "last()-position()+1" -> size - i + 1
    [] of = "last()" -> size
    [] of = "count(preceding-sibling::*)+1" -> Cardinality(Preceding(d, n)) + 1
    [] of = "count(following-sibling::*)+1" -> Cardinality(Following(d, n)) + 1

Test(d, t, n, i, size) ==
  CASE t.is = "compare" -> Compare(t.rel, NumberOf(d, t.of, n, i, size), t.to)
    [] t.is = "mod" -> t.a # 0 /\ Mod(NumberOf(d, t.of, n, i, size) - t.from, t.a) = 0
    [] t.is = "attribute" -> t.attr \in DOMAIN d.attrs[n]
    [] t.is = "=" -> t.attr \in DOMAIN d.attrs[n] /\ d.attrs[n][t.attr] = t.value
    [] t.is = "!=" -> t.attr \in DOMAIN d.attrs[n] /\ d.attrs[n][t.attr] # t.value
    [] t.is = "starts-with" -> Starts(StringOf(d, t.attr, n), t.value)
    [] t.is = "contains" -> Contained(StringOf(d, t.attr, n), t.value)
    [] t.is = "ends" -> Ends(StringOf(d, t.attr, n), t.value)
    [] t.is = "word" -> HasWord(StringOf(d, t.attr, n), t.value)
    [] t.is = "css-class" -> css_class(StringOf(d, t.attr, n), t.value)
    [] t.is = "node()" -> ChildrenOf(d, n) # {} \/ d.text[n]
    [] t.is = "parent::*" -> d.parent[n] # 0
    [] t.is = "self" -> Passes(d, t.test, n)
    [] t.is = "not" -> ~Holds(d, t.arg, n, i, size)
    [] t.is = "path" -> Select(d, t.path, n) # {}

\* a predicate: an "or" of "and"s
Holds(d, predicate, n, i, size) ==
  \E k \in DOMAIN predicate : \A j \in DOMAIN predicate[k] : Test(d, predicate[k][j], n, i, size)

\* those of the nodes S that a predicate keeps; the next one counts anew
Filter(d, S, predicate) ==
  {n \in S : Holds(d, predicate, n, Cardinality({m \in S : m <= n}), Cardinality(S))}

Step(d, step, n) ==
  FoldLeft(LAMBDA S, predicate : Filter(d, S, predicate),
           {m \in Axis(d, step.axis, n) : Passes(d, step.test, m)}, step.predicates)

\* the nodes that a path selects from node n
Select(d, path, n) ==
  FoldLeft(LAMBDA S, step : UNION {Step(d, step, m) : m \in S}, {n}, path)
=============================================================================
