----------------------------- MODULE CssSelectors -----------------------------
(***************************************************************************)
(* The translation of CSS selectors to XPath (lib/nokogiri/css): the       *)
(* syntax trees that parser.y builds, and XPathVisitor, which writes the   *)
(* text of an expression for each of them.                                 *)
(*                                                                         *)
(* A selector is its simple selectors and the combinators between them, as *)
(* the grammar nests both to the right.  The text in brackets is kept as   *)
(* XPath reads it: joining two texts with " and " joins the last "and" of  *)
(* the one with the first of the other, and "][" begins a new predicate.   *)
(***************************************************************************)
EXTENDS XPathQueries, TLC

\* "a", "p|a", and the selectors they are in; lead is the combinator that a
\* selector begins with, if any
Named(name) == [prefix |-> "none", name |-> name]
Prefixed(prefix, name) == [prefix |-> prefix, name |-> name]
Simple(name, conditions) == [name |-> name, conditions |-> conditions]
Alone(s) == [lead |-> "", simple |-> <<s>>, combinators |-> <<>>]
Combined(s, c, t) == [lead |-> "", simple |-> <<s, t>>, combinators |-> <<c>>]
Leading(c, s) == [lead |-> c, simple |-> <<s>>, combinators |-> <<>>]

-----------------------------------------------------------------------------
(* Texts of predicates.                                                    *)

Atom(t) == << << <<t>> >> >>
Or(t, u) == << << <<t>>, <<u>> >> >>

Glue(x, y, Join(_, _)) == Front(x) \o <<Join(Last(x), Head(y))>> \o Tail(y)
And(x, y) == Glue(x, y, LAMBDA p, q : Glue(p, q, LAMBDA s, t : s \o t))
NewPredicate(x, y) == x \o y

Is(of, rel, to) == [is |-> "compare", of |-> of, rel |-> rel, to |-> to]

-----------------------------------------------------------------------------
(* an+b *)

\* Ruby's %, which has the sign of the divisor
RubyMod(x, a) == IF a > 0 THEN x % a ELSE -((-x) % (-a))

read_a_and_positive_b(n) ==
  [a |-> n.a, b |-> IF n.op = "+" THEN n.b ELSE n.a - RubyMod(n.b, n.a)]

Counts(n) ==
  CASE n.name \in {"nth", "nth-of-type"} -> "position()"
    [] n.name = "nth-child" -> "count(preceding-sibling::*)+1"
    [] n.name = "nth-last-of-type" -> "last()-position()+1"
    [] n.name = "nth-last-child" -> "count(following-sibling::*)+1"

nth(n) ==
  LET r  == read_a_and_positive_b(n)
      of == Counts(n)
      from == Is(of, IF r.a < 0 THEN "<=" ELSE ">=", r.b)
  IN IF r.b = 0 THEN Atom([is |-> "mod", of |-> of, from |-> 0, a |-> r.a])
     ELSE IF r.a \in {1, -1} THEN Atom(from)
     ELSE And(Atom(from), Atom([is |-> "mod", of |-> of, from |-> r.b, a |-> r.a]))

-----------------------------------------------------------------------------
css_class_of(attr, value, v) ==
  Atom([is |-> IF v.builtins = "never" THEN "word" ELSE "css-class", attr |-> attr, value |-> value])

visit_attribute_condition(c, v) ==
  LET test(is) == [is |-> is, attr |-> c.attr, value |-> c.value]
  IN CASE c.op = "" -> Atom([is |-> "attribute", attr |-> c.attr])
       [] c.op = "equal" -> Atom(test("="))
       [] c.op = "not_equal" -> Atom(test("!="))
       [] c.op = "substring_match" -> Atom(test("contains"))
       [] c.op = "prefix_match" -> Atom(test("starts-with"))
       [] c.op = "suffix_match" -> Atom(test("ends"))
       [] c.op = "includes" -> css_class_of(c.attr, c.value, v)
       [] c.op = "dash_match" ->
            Or(test("="), [is |-> "starts-with", attr |-> c.attr, value |-> c.value \o <<"-">>])

visit_class_condition(c, v) == css_class_of("class", c.class, v)

visit_pseudo_class(c) ==
  CASE c.pseudo \in {"first", "first-of-type"} -> Atom(Is("position()", "=", 1))
    [] c.pseudo \in {"last", "last-of-type"} -> Atom(Is("last()-position()+1", "=", 1))
    [] c.pseudo = "first-child" -> Atom(Is("count(preceding-sibling::*)+1", "=", 1))
    [] c.pseudo = "last-child" -> Atom(Is("count(following-sibling::*)+1", "=", 1))
    [] c.pseudo = "only-child" -> And(Atom(Is("count(preceding-sibling::*)+1", "=", 1)),
                                      Atom(Is("count(following-sibling::*)+1", "=", 1)))
    [] c.pseudo = "only-of-type" -> Atom(Is("last()", "=", 1))
    [] c.pseudo = "empty" -> Atom([is |-> "not", arg |-> Atom([is |-> "node()"])[1]])
    [] c.pseudo = "parent" -> Atom([is |-> "node()"])
    [] c.pseudo = "root" -> Atom([is |-> "not", arg |-> Atom([is |-> "parent::*"])[1]])

\* the functions that take a number
Index(c) == Atom(Is(Counts(c), "=", c.index))

\* mutant: :nth-last-of-type() is forgotten
OfTypeAnchored(c) ==
  \/ c.type = "PSEUDO_CLASS" /\ c.pseudo \in {"first-of-type", "last-of-type", "only-of-type"}
  \/ c.type \in {"NTH", "INDEX"} /\ c.name = "nth-of-type"

is_of_type_pseudo_class(c) ==
  \/ c.type = "PSEUDO_CLASS" /\ c.pseudo \in {"first-of-type", "last-of-type", "only-of-type"}
  \/ c.type \in {"NTH", "INDEX"} /\ c.name \in {"nth-of-type", "nth-last-of-type"}

\* the prefix p is that of the namespace "u", which is the default one too
visit_element_name(e, v) ==
  [name |-> e.name,
   ns |-> CASE e.prefix # "none" -> IF e.prefix = "" THEN "" ELSE "u"
            [] e.prefix = "none" /\ e.name = "*" -> "any"
            [] e.prefix = "none" /\ e.name # "*" ->
                 IF v.doctype = "html5" THEN "any" ELSE IF v.namespaces = "xmlns" THEN "u" ELSE ""]

RECURSIVE accept(_, _), Path(_, _)

visit_not(c, v) ==
  Atom([is |-> "not", arg |->
    IF c.element # {} THEN << <<[is |-> "self", test |-> visit_element_name(CHOOSE e \in c.element : TRUE, v)]>> >>
    ELSE accept(c.condition, v)[1]])

\* "./a", or ".//a" unless the argument begins with a combinator.  An argument
\* such as |b, whose empty prefix the code takes for such a beginning and writes
\* ".b", is left out.
visit_has(c, v) ==
  Atom([is |-> "path", path |-> IF c.arg.lead = "" THEN Path([c.arg EXCEPT !.lead = "descendant"], v)
                                ELSE Path(c.arg, v)])

\* the text of one condition
accept(c, v) ==
  CASE c.type = "CLASS_CONDITION" -> visit_class_condition(c, v)
    [] c.type = "ATTRIBUTE_CONDITION" -> visit_attribute_condition(c, v)
    [] c.type = "PSEUDO_CLASS" -> visit_pseudo_class(c)
    [] c.type = "NTH" -> nth(c)
    [] c.type = "INDEX" -> Index(c)
    [] c.type = "NOT" -> visit_not(c, v)
    [] c.type = "HAS" -> visit_has(c, v)

\* conditions[i] and those after it
visit_combinator(conditions, v) ==
  LET text[i \in DOMAIN conditions] ==
        IF i = Len(conditions) THEN accept(conditions[i], v)
        ELSE IF i + 1 = Len(conditions) /\ is_of_type_pseudo_class(conditions[i + 1])
               THEN NewPredicate(accept(conditions[i], v), text[i + 1])
               ELSE And(accept(conditions[i], v), text[i + 1])
  IN text[1]

visit_conditional_selector(s, v) ==
  [test |-> visit_element_name(s.name, v),
   predicates |-> IF s.conditions = <<>> THEN <<>> ELSE visit_combinator(s.conditions, v)]

\* a combinator and the simple selector that follows it
AnyNode == [axis |-> "descendant-or-self", test |-> [name |-> "node()", ns |-> "any"], predicates |-> <<>>]
NextSibling == [axis |-> "following-sibling", test |-> [name |-> "*", ns |-> "any"],
                predicates |-> Atom(Is("position()", "=", 1))]

Steps(combinator, s, v) ==
  LET on(axis) == [axis |-> axis] @@ visit_conditional_selector(s, v)
  IN CASE combinator = "descendant" -> <<AnyNode, on("child")>>
       [] combinator = "child" -> <<on("child")>>
       [] combinator = "following" -> <<on("following-sibling")>>
       [] combinator = "direct_adjacent" -> <<NextSibling, on("self")>>

Path(sel, v) ==
  LET text[i \in DOMAIN sel.simple] ==
        IF i = 1 THEN Steps(sel.lead, sel.simple[1], v)
        ELSE text[i - 1] \o Steps(sel.combinators[i - 1], sel.simple[i], v)
  IN text[Len(sel.simple)]

\* the prefix of the visitor and the expression; a selector that begins with a
\* combinator starts at the context node whatever the prefix
to_xpath(sel, v) ==
  [absolute |-> sel.lead = "" /\ v.prefix = "//",
   path |-> Path([sel EXCEPT !.lead = IF @ # "" THEN @ ELSE IF v.prefix = "./" THEN "child" ELSE "descendant"], v)]

\* a name that cannot be that of an XPath function is an error
validate_xpath_function_name(name) == name # "-x"
Raises(sel) == \E i \in DOMAIN sel.simple : \E c \in ToSet(sel.simple[i].conditions) :
  c.type = "PSEUDO_CLASS" /\ ~validate_xpath_function_name(c.pseudo)

evaluate(d, xpath, context) == Select(d, xpath.path, IF xpath.absolute THEN 0 ELSE context)
=============================================================================
