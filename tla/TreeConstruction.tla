--------------------------- MODULE TreeConstruction ---------------------------
(***************************************************************************)
(* One parse of the HTML5 parser: gumbo_parse_with_options draws tokens    *)
(* from the tokenizer and hands each to its insertion mode, again while    *)
(* the mode asks for it to be reprocessed, until the end of the file; then *)
(* the caller frees the result with gumbo_destroy_output.                  *)
(*                                                                         *)
(* A suite is one choice of input: the fragment context, the tokens read   *)
(* first, the tokens that may follow in any order, how many in all, and    *)
(* the option max_tree_depth, which ends the parse wherever it is.         *)
(***************************************************************************)
EXTENDS GumboTables

CONSTANT Suites   \* the inputs

VARIABLES suite,  \* the input, fixed by Init
          p,      \* the parser: its state, its output and the current token
          phase,  \* "lex", "handle", "parsed" (gumbo_parse returned), "done" (output destroyed)
          read,   \* tokens drawn
          turns   \* how often the current token has been handled

vars == <<suite, p, phase, read, turns>>

Token(type, tag, attrs, self) ==
  [type |-> type, tag |-> tag, attrs |-> attrs, self |-> self, own |-> "token"]
Eof == Token("eof", "", {}, FALSE)

NewParser(s) ==
  [node |-> <<>>, freed |-> {}, bad |-> {}, open |-> <<>>, active |-> <<>>, tmodes |-> <<>>,
   mode |-> "initial", orig |-> "initial", head |-> NULL, form |-> NULL, ctx |-> NULL,
   root |-> NULL, doc |-> 1, reprocess |-> FALSE, frameset_ok |-> TRUE, ignore_lf |-> FALSE,
   foster |-> FALSE, text |-> "none", chars |-> FALSE, quirks |-> FALSE, lexer |-> "data",
   noscript |-> s.noscript, status |-> "ok", tok |-> Token("none", "", {}, FALSE)]

(* The static form element that stands for an ancestor of the context.     *)
FormAncestor == -1

fragment_parser_init(q, s) ==
  LET kind == IF s.ctx = <<"html", "template">> THEN "template" ELSE "element"
      c == create_node(q, kind, s.ctx[1], s.ctx[2], {})
      d == [c EXCEPT !.ctx = Newest(c),
              !.lexer = CASE s.ctx[1] # "html" -> "data"
                          [] s.ctx[2] \in {"title", "textarea", "style", "xmp", "iframe", "script"} -> "text"
                          [] s.ctx[2] = "plaintext" -> "plaintext"
                          [] OTHER -> "data"]
      h == insert_element_of_tag_type(d, "html")
      r == [h EXCEPT !.root = Newest(h), !.tmodes = IF s.ctx[2] = "template" THEN <<"in_template">> ELSE @]
  IN [reset_insertion_mode_appropriately(r)
        EXCEPT !.form = IF s.ctx = <<"html", "form">> THEN FormAncestor ELSE @]

Started(s) ==
  LET q == create_node(NewParser(s), "document", "", "", {})
  IN IF s.ctx = <<>> THEN q ELSE fragment_parser_init(q, s)

Init == /\ suite \in Suites
        /\ p = Started(suite)
        /\ phase = "lex"
        /\ read = 0
        /\ turns = 0

(* What the tokenizer can emit in the state it is in.                      *)
Lexable(t) ==
  LET n == get_adjusted_current_node(p) IN
  /\ t.type = "cdata" => n # NULL /\ p.node[n].ns # "html"
  /\ p.lexer = "text" =>
       \/ t.type \in {"char", "ws", "eof"}
       \/ p.mode = "text" /\ t.type = "end" /\ t.tag = p.node[n].tag
  /\ p.lexer = "plaintext" => t.type \in {"char", "ws", "eof"}

TooDeep == Len(p.open) > suite.max_tree_depth

Draws ==
  IF TooDeep THEN {Eof}
  ELSE IF read < Len(suite.prefix) THEN {suite.prefix[read + 1]}
  ELSE {t \in suite.tokens : read < suite.length /\ Lexable(t)} \cup {Eof}

Lex ==
  /\ phase = "lex"
  /\ \E t \in Draws :
       p' = [p EXCEPT !.tok = t,
               !.lexer = IF @ = "text" /\ t.type = "end" THEN "data" ELSE @,
               !.status = IF TooDeep THEN "too deep" ELSE @]
  /\ phase' = "handle"
  /\ read' = read + 1
  /\ turns' = 0
  /\ UNCHANGED suite

(* One turn of the main loop: the token goes to its handler.               *)
Turn(Handler(_)) ==
  /\ p' = Handler([p EXCEPT !.reprocess = FALSE, !.ignore_lf = FALSE])
  /\ phase' = IF p'.reprocess THEN "handle" ELSE IF p'.tok.type = "eof" THEN "finish" ELSE "lex"
  /\ turns' = turns + 1
  /\ UNCHANGED <<suite, read>>

Handle(rules, Handler(_)) ==
  /\ phase = "handle"
  /\ ~SkipsLinefeed(p)
  /\ RulesFor(p) = rules
  /\ Turn(Handler)

SkipLinefeed == phase = "handle" /\ SkipsLinefeed(p) /\ Turn(ignore_token)

handle_token ==
  \/ SkipLinefeed
  \/ Handle("initial", handle_initial)
  \/ Handle("before_html", handle_before_html)
  \/ Handle("before_head", handle_before_head)
  \/ Handle("in_head", handle_in_head)
  \/ Handle("in_head_noscript", handle_in_head_noscript)
  \/ Handle("after_head", handle_after_head)
  \/ Handle("in_body", handle_in_body)
  \/ Handle("text", handle_text)
  \/ Handle("in_table", handle_in_table)
  \/ Handle("in_table_text", handle_in_table_text)
  \/ Handle("in_caption", handle_in_caption)
  \/ Handle("in_column_group", handle_in_column_group)
  \/ Handle("in_table_body", handle_in_table_body)
  \/ Handle("in_row", handle_in_row)
  \/ Handle("in_cell", handle_in_cell)
  \/ Handle("in_select", handle_in_select)
  \/ Handle("in_select_in_table", handle_in_select_in_table)
  \/ Handle("in_template", handle_in_template)
  \/ Handle("after_body", handle_after_body)
  \/ Handle("in_frameset", handle_in_frameset)
  \/ Handle("after_frameset", handle_after_frameset)
  \/ Handle("after_after_body", handle_after_after_body)
  \/ Handle("after_after_frameset", handle_after_after_frameset)
  \/ Handle("foreign", handle_in_foreign_content)

\* mutant: the context of a fragment is not freed.
FinishKeepingContext ==
  /\ phase = "finish"
  /\ p' = PopFrom(p, 1)
  /\ phase' = "parsed"
  /\ UNCHANGED <<suite, read, turns>>

finish_parsing ==
  /\ phase = "finish"
  /\ p' = LET q == PopFrom(p, 1)
          IN [q EXCEPT !.freed = IF q.ctx = NULL THEN @ ELSE @ \cup {q.ctx}]
  /\ phase' = "parsed"
  /\ UNCHANGED <<suite, read, turns>>

gumbo_destroy_output ==
  /\ phase = "parsed"
  /\ p' = destroy_node(p, p.doc)
  /\ phase' = "done"
  /\ UNCHANGED <<suite, read, turns>>

Step == \/ Lex
        \/ handle_token
        \/ finish_parsing
        \/ gumbo_destroy_output

(* The caller is done with the output.                                     *)
Stop == phase = "done" /\ UNCHANGED vars

Next == Step \/ Stop

Spec == Init /\ [][Next]_vars

-----------------------------------------------------------------------------
Nodes == DOMAIN p.node
Live == Nodes \ p.freed
Elements(kinds) == {n \in Nodes : p.node[n].kind \in kinds}
Opened == ToSet(p.open)

Below(q) ==
  LET in[n \in DOMAIN q.node] == {n} \cup UNION {in[c] : c \in ToSet(q.node[n].kids)} IN in[q.doc]

TypeOK ==
  /\ phase \in {"lex", "handle", "finish", "parsed", "done"}
  /\ p.mode \in Modes /\ p.orig \in Modes
  /\ p.freed \subseteq Nodes
  /\ Opened \subseteq Elements({"element", "template"})
  /\ ToSet(p.active) \subseteq Elements({"element"}) \cup {Marker}
  /\ p.head \in Nodes \cup {NULL} /\ p.form \in Nodes \cup {NULL, FormAncestor}
  /\ p.tok.own \in {"token", "node", "freed"}

(* No assertion of the parser fails: placing, removing and freeing nodes,  *)
(* walking the stack, the bookmarks of the adoption agency, the pending    *)
(* characters of tables and the ownership of the buffers of a token.       *)
AssertionsHold == p.bad = {}

(* "parent", "children" and "index_within_parent" of the tree agree, and   *)
(* the tree has no cycle, whatever was moved, adopted or foster parented.  *)
TreeAgrees ==
  phase # "done" =>
  \A n \in Live : LET e == p.node[n] IN
    /\ \A i \in DOMAIN e.kids : p.node[e.kids[i]].parent = n /\ p.node[e.kids[i]].idx = i
    /\ e.parent # NULL => e.idx \in DOMAIN p.node[e.parent].kids /\ p.node[e.parent].kids[e.idx] = n
    /\ n # p.doc /\ n # p.ctx => n \in Below(p)

(* The stack starts with the root, holds no element twice, and nothing it  *)
(* or the list of active formatting elements holds has been freed.         *)
ReferencesLive ==
  phase \in {"lex", "handle", "finish"} =>
  /\ p.open # <<>> => p.open[1] = p.root
  /\ Cardinality(Opened) = Len(p.open)
  /\ (Opened \cup ToSet(p.active)) \cap p.freed = {}
  /\ Cardinality(ToSet(p.active) \ {Marker}) = Len(SelectSeq(p.active, LAMBDA n : n # Marker))

(* Noah's Ark: at most three identical active formatting elements since    *)
(* the last marker, even after elements were cloned and replaced.          *)
NoahsArk ==
  \A i \in SinceMarker(p) :
    Cardinality({j \in SinceMarker(p) : Alike(p, p.active[i], p.active[j])}) <= 3

(* Every open element that keeps formatting out has its marker: formatting *)
(* that was opened outside is not reconstructed inside.                    *)
Walls == Html({"applet", "object", "template", "td", "th", "caption"})
MarkersSuffice ==
  phase \in {"lex", "handle"} =>
    Len(SelectSeq(p.open, LAMBDA n : NodeTagIn(p, n, Walls)))
      <= Len(SelectSeq(p.active, LAMBDA n : n = Marker))

(* There is one template insertion mode per open template.                 *)
TemplateModesAgree ==
  phase \in {"lex", "handle"} =>
    Len(p.tmodes) = Len(SelectSeq(p.open, LAMBDA n : NodeIs(p, n, "template")))
                    + (IF suite.ctx # <<>> /\ suite.ctx[2] = "template" THEN 1 ELSE 0)

(* The list of active formatting elements and the stack of template modes  *)
(* keep pace with the stack of open elements: clones stay within the ark,  *)
(* no formatting leaks through a wall, and no template lacks its mode.     *)
FormattingAgrees == NoahsArk /\ MarkersSuffice /\ TemplateModesAgree

(* When the parser draws the next token, the buffers of the last one       *)
(* belong to a node or are freed: none is lost.                            *)
TokensConsumed ==
  phase = "lex" => (Type(p, {"start", "comment", "doctype"}) => p.tok.own # "token")

(* A document has one root; the root of a whole document holds one head,   *)
(* followed by one body or frameset (noframes may follow a frameset).      *)
ResultShape ==
  phase = "parsed" =>
    LET tops == SelectSeq(p.node[p.doc].kids, LAMBDA n : p.node[n].kind # "comment")
        main == SelectSeq(p.node[p.root].kids,
                          LAMBDA n : p.node[n].kind = "element" /\ ~NodeIs(p, n, "noframes"))
    IN /\ tops = <<p.root>>
       /\ p.open = <<>> /\ p.text = "none" /\ ~p.chars /\ ~p.foster
       /\ suite.ctx = <<>> =>
            /\ Len(main) = 2
            /\ NodeIs(p, main[1], "head")
            /\ NodeTagIn(p, main[2], Html({"body", "frameset"}))

(* Nothing that a parse allocates is lost: no buffer of a token while it   *)
(* runs, and gumbo_destroy_output frees every node there was.              *)
AllFreed == TokensConsumed /\ (phase = "done" => p.freed = Nodes)

(* A node of the tree stays in it, unless a frameset replaced the body     *)
(* with all it held.                                                       *)
NothingLost == [][phase' # "done" => Below(p) \subseteq Below(p') \cup p'.freed]_vars

(* The parse ends: no two modes pass a token to each other for ever. Seven *)
(* turns take it through the modes a token may ask for, and the end of the *)
(* file comes back once for each open template.                            *)
Turns == 7
TurnsBounded == turns <= Turns + Len(SelectSeq(p.node, LAMBDA e : e.kind = "template"))

=============================================================================
