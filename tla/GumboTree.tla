------------------------------- MODULE GumboTree -------------------------------
(***************************************************************************)
(* The parse tree of the HTML5 parser (gumbo-parser/src/parser.c), its     *)
(* stack of open elements and the buffer of pending text.                  *)
(*                                                                         *)
(* A parser is a record p; every C helper is an operator from a parser to  *)
(* a parser.  A node is its index in p.node, in order of allocation, and   *)
(* p.freed holds the nodes given back to the allocator.  index_within_     *)
(* parent counts from 1 here, and 0 stands for the (unsigned) -1 of a node *)
(* without a parent.  p.bad collects the assertions that failed.           *)
(*                                                                         *)
(* Left out: source positions, parse_flags, _closed_body_tag and           *)
(* _closed_html_tag (read only to set positions and flags), parse errors.  *)
(* A TagSet of many tags is represented by the members the tokens use.     *)
(***************************************************************************)
EXTENDS Integers, Sequences, SequencesExt, FiniteSets

NULL == 0

(* Changes every node to Of of it; SubSeq has TLC evaluate the sequence.   *)
Update(p, Of(_)) == [p EXCEPT !.node = SubSeq([m \in DOMAIN @ |-> Of(m)], 1, Len(@))]

Position(seq, x) == SelectInSeq(seq, LAMBDA y : y = x)
Drop(seq, x) == IF Contains(seq, x) THEN RemoveAt(seq, Position(seq, x)) ELSE seq
LastWhere(seq, Test(_)) == SelectLastInSeq(seq, Test)

Check(p, cond, name) == IF cond THEN p ELSE [p EXCEPT !.bad = @ \cup {name}]

-----------------------------------------------------------------------------
(* Nodes and TagSets *)

Q(ns, tags) == {ns} \X tags
Html(tags) == Q("html", tags)
TagOf(p, n) == <<p.node[n].ns, p.node[n].tag>>
NodeTagIn(p, n, set) == TagOf(p, n) \in set
NodeIs(p, n, tag) == TagOf(p, n) = <<"html", tag>>

create_node(p, kind, ns, tag, attrs) ==
  [p EXCEPT !.node = Append(@,
     [kind |-> kind, ns |-> ns, tag |-> tag, attrs |-> attrs,
      parent |-> NULL, idx |-> 0, kids |-> <<>>])]

Newest(p) == Len(p.node)

get_current_node(p) == IF p.open = <<>> THEN NULL ELSE Last(p.open)
get_adjusted_current_node(p) ==
  IF Len(p.open) = 1 /\ p.ctx # NULL THEN p.ctx ELSE get_current_node(p)
CurrentIs(p, tag) == NodeIs(p, get_current_node(p), tag)

-----------------------------------------------------------------------------
(* Placing nodes *)

Orphan(p, n) ==
  Check(Check(p, p.node[n].parent = NULL /\ p.node[n].idx = 0, "node is already placed"),
        n \notin p.freed, "node is freed")

append_node(p, parent, n) ==
  [Check(Orphan(p, n), p.node[parent].kind \in {"element", "template", "document"}
                       /\ parent \notin p.freed, "parent holds no children")
     EXCEPT !.node[n].parent = parent,
            !.node[n].idx = Len(p.node[parent].kids) + 1,
            !.node[parent].kids = Append(@, n)]

\* mutant: the children after the node keep their index.
InsertUnnumbered(p, n, loc) ==
  IF loc.index = 0 THEN append_node(p, loc.target, n)
  ELSE [p EXCEPT !.node[n].parent = loc.target, !.node[n].idx = loc.index,
                 !.node[loc.target].kids = InsertAt(@, loc.index, n)]

insert_node(p, n, loc) ==
  IF loc.index = 0 THEN append_node(p, loc.target, n)
  ELSE LET q    == Check(Orphan(p, n), loc.index <= Len(p.node[loc.target].kids),
                         "index within the children")
           kids == InsertAt(p.node[loc.target].kids, loc.index, n)
       IN Update(q, LAMBDA m :
            CASE m = loc.target -> [q.node[m] EXCEPT !.kids = kids]
              [] m = n -> [q.node[m] EXCEPT !.parent = loc.target, !.idx = loc.index]
              [] Position(kids, m) > loc.index -> [q.node[m] EXCEPT !.idx = Position(kids, m)]
              [] OTHER -> q.node[m])

\* mutant: the node leaves the children and keeps its own index.
RemoveKeepingIndex(p, n) ==
  LET parent == p.node[n].parent IN
  IF parent = NULL THEN p ELSE [p EXCEPT !.node[n].parent = NULL, !.node[parent].kids = Drop(@, n)]

remove_from_parent(p, n) ==
  LET parent == p.node[n].parent IN
  IF parent = NULL THEN p
  ELSE LET at   == Position(p.node[parent].kids, n)
           kids == RemoveAt(p.node[parent].kids, at)
           q    == Check(p, p.node[parent].kind = "element" /\ at # 0, "is a child of its parent")
       IN Update(q, LAMBDA m :
            CASE m = parent -> [q.node[m] EXCEPT !.kids = kids]
              [] m = n -> [q.node[m] EXCEPT !.parent = NULL, !.idx = 0]
              [] Position(kids, m) >= at -> [q.node[m] EXCEPT !.idx = Position(kids, m)]
              [] OTHER -> q.node[m])

(* tree_traverse goes from a child to the one after its index_within_parent: *)
(* the nodes it visits, in order, are those destroy_node frees.              *)
Siblings(p, kids) ==
  LET from[k \in 1..Len(kids) + 1] ==
        IF k > Len(kids) THEN <<>>
        ELSE LET next == p.node[kids[k]].idx + 1
             IN <<kids[k]>> \o IF next <= k THEN <<kids[k]>>
                               ELSE IF next > Len(kids) THEN <<>> ELSE from[next]
  IN from[1]

tree_traverse(p, node) ==
  LET visit[n \in DOMAIN p.node] ==
        FoldLeft(LAMBDA acc, c : acc \o visit[c], <<>>, Siblings(p, p.node[n].kids)) \o <<n>>
  IN visit[node]

destroy_node(p, node) ==
  LET order == tree_traverse(p, node)
      nodes == ToSet(order)
      ends(n) == LET s == Siblings(p, p.node[n].kids)
                 IN s = <<>> \/ p.node[Last(s)].idx = Len(p.node[n].kids)
  IN [Check(Check(p, Len(order) = Cardinality(nodes) /\ nodes \cap p.freed = {}, "freed once"),
            \A n \in nodes : ends(n), "traversal ends at the last child")
        EXCEPT !.freed = @ \cup nodes]

-----------------------------------------------------------------------------
(* Where the next node goes *)

TableParts == Html({"table", "tbody", "tfoot", "thead", "tr"})

get_appropriate_insertion_location(p, override) ==
  LET target   == IF override # NULL THEN override
                  ELSE IF p.root # NULL THEN get_current_node(p) ELSE p.doc
      template == LastWhere(p.open, LAMBDA n : NodeIs(p, n, "template"))
      table    == LastWhere(p.open, LAMBDA n : NodeIs(p, n, "table"))
      above    == IF table = 0 THEN NULL ELSE p.node[p.open[table]].parent
      at(n, i) == [target |-> n, index |-> i]
  IN CASE ~p.foster \/ ~NodeTagIn(p, target, TableParts) -> at(target, 0)
       [] template > table -> at(p.open[template], 0)
       [] table = 0 -> at(p.open[1], 0)
       [] above # NULL -> at(above, p.node[p.open[table]].idx)
       [] OTHER -> at(p.open[table - 1], 0)

Place(p, n, override) == insert_node(p, n, get_appropriate_insertion_location(p, override))

(* The pending characters become one text node; a document takes none.     *)
FlushTo(p, loc) ==
  [IF loc.target = p.doc THEN destroy_node(p, Newest(p)) ELSE insert_node(p, Newest(p), loc)
     EXCEPT !.text = "none"]

maybe_flush_text_node_buffer(p) ==
  IF p.text = "none" THEN p
  ELSE FlushTo(create_node(p, p.text, "", "", {}), get_appropriate_insertion_location(p, NULL))

(* Only the kind of the pending text is kept.                              *)
insert_text_token(p) ==
  [p EXCEPT !.text = CASE p.tok.type = "char" -> "text"
                       [] p.tok.type = "cdata" -> "cdata"
                       [] p.text = "none" -> "whitespace"
                       [] OTHER -> @]

-----------------------------------------------------------------------------
(* The stack of open elements *)

(* Pops the open elements from position i up, flushing before the first.   *)
PopFrom(p, i) ==
  [Check(maybe_flush_text_node_buffer(p), i \in DOMAIN p.open /\ NodeIs(p, p.open[1], "html"),
         "the stack has the element") EXCEPT !.open = SubSeq(@, 1, i - 1)]

pop_current_node(p) == PopFrom(p, Len(p.open))

PopThrough(p, set) == PopFrom(p, LastWhere(p.open, LAMBDA n : NodeTagIn(p, n, set)))
PopThroughTag(p, tag) == PopThrough(p, Html({tag}))

PopWhile(p, Test(_)) ==
  LET keep == LastWhere(p.open, LAMBDA n : ~Test(n))
  IN IF keep = Len(p.open) THEN p ELSE PopFrom(p, keep + 1)

ClearStackTo(p, tags) == PopWhile(p, LAMBDA n : ~NodeTagIn(p, n, Html(tags)))
clear_stack_to_table_row_context(p) == ClearStackTo(p, {"html", "tr", "template"})
clear_stack_to_table_context(p) == ClearStackTo(p, {"html", "table", "template"})
clear_stack_to_table_body_context(p) ==
  ClearStackTo(p, {"html", "tbody", "tfoot", "thead", "template"})

AppendNewest(p, parent) == append_node(p, parent, Newest(p))
append_comment_node(p, parent) ==
  [AppendNewest(create_node(maybe_flush_text_node_buffer(p), "comment", "", "", {}), parent)
     EXCEPT !.tok.own = "node"]

insert_element(p, n, reconstructing) ==
  [Place(IF reconstructing THEN p ELSE maybe_flush_text_node_buffer(p), n, NULL)
     EXCEPT !.open = Append(@, n)]

(* An element takes the name and the attributes of its token.              *)
create_element_from_token(p, ns) ==
  LET kind == IF ns = "html" /\ p.tok.tag = "template" THEN "template" ELSE "element"
      q    == Check(p, p.tok.type = "start" /\ p.tok.own = "token", "token owns its buffers")
  IN [create_node(q, kind, ns, p.tok.tag, p.tok.attrs) EXCEPT !.tok.own = "node"]

InsertNewest(p) == insert_element(p, Newest(p), FALSE)
InsertFromToken(p, ns) == InsertNewest(create_element_from_token(p, ns))
insert_element_from_token(p) == InsertFromToken(p, "html")
insert_foreign_element(p, ns) == InsertFromToken(p, ns)

insert_element_of_tag_type(p, tag) == InsertNewest(create_node(p, "element", "html", tag, {}))

InsertVoid(p) == pop_current_node(insert_element_from_token(p))

ignore_token(p) ==
  [Check(p, p.tok.own = "token", "token owns its buffers") EXCEPT !.tok.own = "freed"]

(* The attributes the element lacks move to it, the others are freed.      *)
\* mutant: the attributes that are not used are forgotten.
MergeOnly(p, n) == [p EXCEPT !.node[n].attrs = @ \cup p.tok.attrs]

merge_attributes(p, n) ==
  [Check(p, p.tok.own = "token" /\ p.node[n].kind = "element", "token owns its buffers")
     EXCEPT !.node[n].attrs = @ \cup p.tok.attrs, !.tok.own = "freed"]

-----------------------------------------------------------------------------
(* Scopes *)

(* The wanted elements, looked for from the current node up to a barrier.  *)
InScope(p, wanted, barrier) ==
  LET at == LastWhere(p.open, LAMBDA n : TagOf(p, n) \in wanted \cup barrier)
  IN at # 0 /\ TagOf(p, p.open[at]) \in wanted

ForeignScope == Q("mathml", {"mi", "annotation-xml"}) \cup Q("svg", {"foreignobject", "desc"})
DefaultScope ==
  Html({"applet", "caption", "html", "table", "td", "th", "object", "template"}) \cup ForeignScope

has_open_element(p, tag) == InScope(p, Html({tag}), Html({"html"}))
has_an_element_in_scope(p, tag) == InScope(p, Html({tag}), DefaultScope)
has_an_element_in_scope_with_tagname(p, tags) == InScope(p, Html(tags), DefaultScope)
has_an_element_in_list_scope(p, tag) == InScope(p, Html({tag}), DefaultScope \cup Html({"ol", "ul"}))
has_an_element_in_button_scope(p, tag) == InScope(p, Html({tag}), DefaultScope \cup Html({"button"}))
has_an_element_in_table_scope(p, tag) == InScope(p, Html({tag}), Html({"html", "table", "template"}))
has_an_element_in_select_scope(p, tag) ==
  LET at == LastWhere(p.open, LAMBDA n : ~NodeTagIn(p, n, Html({"optgroup", "option"})))
  IN at # 0 /\ NodeIs(p, p.open[at], tag)
has_node_in_scope(p, node) ==
  LET at == LastWhere(p.open, LAMBDA n : n = node \/ NodeTagIn(p, n, DefaultScope))
  IN at # 0 /\ p.open[at] = node

Implied == {"dd", "dt", "li", "optgroup", "option", "p", "rb", "rp", "rt", "rtc"}
generate_implied_end_tags(p, except) ==
  PopWhile(p, LAMBDA n : NodeTagIn(p, n, Html(Implied \ {except})))
generate_all_implied_end_tags_thoroughly(p) ==
  PopWhile(p, LAMBDA n : NodeTagIn(p, n, Html(Implied \cup
    {"caption", "colgroup", "tbody", "td", "tfoot", "th", "thead", "tr"})))

implicitly_close_tags(p, tag) == PopThroughTag(generate_implied_end_tags(p, tag), tag)

maybe_implicitly_close_p_tag(p) ==
  IF has_an_element_in_button_scope(p, "p") THEN implicitly_close_tags(p, "p") ELSE p

Special ==
  Html({"address", "applet", "base", "body", "br", "button", "caption", "col", "colgroup", "dd",
    "div", "dt", "form", "frame", "frameset", "h1", "h2", "head", "hr", "html", "iframe", "img",
    "input", "li", "noframes", "noscript", "object", "ol", "p", "param", "plaintext", "pre",
    "script", "select", "table", "tbody", "td", "template", "textarea", "tfoot", "th", "thead",
    "title", "tr", "ul", "xmp"})
  \cup ForeignScope \cup Q("svg", {"title"})
is_special_node(p, n) == NodeTagIn(p, n, Special)

set_frameset_not_ok(p) == [p EXCEPT !.frameset_ok = FALSE]

maybe_implicitly_close_list_tag(p, tags) ==
  LET at == LastWhere(p.open, LAMBDA n : NodeTagIn(p, n,
              Html(tags) \cup (Special \ Html({"address", "div", "p"}))))
  IN set_frameset_not_ok(IF at # 0 /\ NodeTagIn(p, p.open[at], Html(tags))
                         THEN implicitly_close_tags(p, p.node[p.open[at]].tag) ELSE p)

=============================================================================
