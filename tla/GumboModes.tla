------------------------------- MODULE GumboModes -------------------------------
(***************************************************************************)
(* The insertion modes of the HTML5 parser (gumbo-parser/src/parser.c):    *)
(* one operator per handle_... function, from the parser that holds the    *)
(* current token to the parser after the call.  handle_in_body is split by *)
(* the kind of token it answers; the tests of a chain of ifs are disjoint  *)
(* unless an arm of the CASE negates the ones before it.                   *)
(***************************************************************************)
EXTENDS GumboFormatting

(* The rules of the head use those of the body, and the other way round.   *)
RECURSIVE handle_in_body(_), handle_in_head(_)

Start(p, tags) == p.tok.type = "start" /\ p.tok.tag \in tags
End(p, tags) == p.tok.type = "end" /\ p.tok.tag \in tags
Type(p, types) == p.tok.type \in types

set_insertion_mode(p, mode) == [p EXCEPT !.mode = mode]
Reprocess(p, mode) == [p EXCEPT !.mode = mode, !.reprocess = TRUE]
push_template_insertion_mode(p, mode) == [p EXCEPT !.tmodes = Append(@, mode)]
pop_template_insertion_mode(p) == [p EXCEPT !.tmodes = IF @ = <<>> THEN @ ELSE Front(@)]
get_current_template_insertion_mode(p) == IF p.tmodes = <<>> THEN "initial" ELSE Last(p.tmodes)
CommentIn(p) == append_comment_node(p, get_current_node(p))

(* The mode an open element calls for, "initial" when it calls for none.   *)
get_appropriate_insertion_mode(p, i) ==
  LET last == i = 1
      node == IF last /\ p.ctx # NULL THEN p.ctx ELSE p.open[i]
      tag  == p.node[node].tag
      over == LastWhere(SubSeq(p.open, 2, i), LAMBDA n : NodeTagIn(p, n, Html({"template", "table"})))
      none == IF last THEN "in_body" ELSE "initial"
  IN CASE p.node[node].ns # "html" -> none
       [] NodeIs(p, node, "select") ->
            IF ~last /\ over # 0 /\ NodeIs(p, p.open[over + 1], "table")
            THEN "in_select_in_table" ELSE "in_select"
       [] NodeTagIn(p, node, Html({"td", "th"})) -> IF last THEN none ELSE "in_cell"
       [] NodeIs(p, node, "tr") -> "in_row"
       [] NodeTagIn(p, node, Html({"tbody", "thead", "tfoot"})) -> "in_table_body"
       [] NodeIs(p, node, "caption") -> "in_caption"
       [] NodeIs(p, node, "colgroup") -> "in_column_group"
       [] NodeIs(p, node, "table") -> "in_table"
       [] NodeIs(p, node, "template") -> get_current_template_insertion_mode(p)
       [] NodeIs(p, node, "head") -> IF last THEN none ELSE "in_head"
       [] NodeIs(p, node, "body") -> "in_body"
       [] NodeIs(p, node, "frameset") -> "in_frameset"
       [] NodeIs(p, node, "html") -> IF p.head # NULL THEN "after_head" ELSE "before_head"
       [] OTHER -> none

reset_insertion_mode_appropriately(p) ==
  LET at == SelectLastInSeq([i \in DOMAIN p.open |-> get_appropriate_insertion_mode(p, i)],
                            LAMBDA mode : mode # "initial")
  IN IF at = 0 THEN Check(p, FALSE, "some open element has a mode")
     ELSE set_insertion_mode(p, get_appropriate_insertion_mode(p, at))

run_generic_parsing_algorithm(p) ==
  [insert_element_from_token(p) EXCEPT !.orig = p.mode, !.mode = "text", !.lexer = "text"]

-----------------------------------------------------------------------------
(* in body, by kind of token *)

HeadTags == {"base", "link", "meta", "noframes", "script", "style", "template", "title"}
Raw(p) == {"noframes", "style"} \cup IF p.noscript THEN {"noscript"} ELSE {}

handle_in_head(p) ==
  CASE Type(p, {"ws"}) -> insert_text_token(p)
    [] Type(p, {"comment"}) -> CommentIn(p)
    [] Start(p, {"html"}) -> handle_in_body(p)
    [] Start(p, {"base", "link", "meta"}) -> InsertVoid(p)
    [] Start(p, {"title", "script"} \cup Raw(p)) -> run_generic_parsing_algorithm(p)
    [] Start(p, {"noscript"} \ Raw(p)) -> set_insertion_mode(insert_element_from_token(p), "in_head_noscript")
    [] End(p, {"head"}) ->
         set_insertion_mode(Check(pop_current_node(p), CurrentIs(p, "head"), "head is current"), "after_head")
    [] Start(p, {"template"}) ->
         LET q == AddMarker(insert_element_from_token(p))
         IN push_template_insertion_mode(set_insertion_mode(set_frameset_not_ok(q), "in_template"), "in_template")
    [] End(p, {"template"}) /\ has_open_element(p, "template") ->
         LET q == PopThroughTag(generate_all_implied_end_tags_thoroughly(p), "template")
         IN reset_insertion_mode_appropriately(
              pop_template_insertion_mode(clear_active_formatting_elements(q)))
    [] Type(p, {"doctype"}) \/ Start(p, {"head"})
       \/ (Type(p, {"end"}) /\ ~End(p, {"head", "body", "html", "br"})
           /\ ~(End(p, {"template"}) /\ has_open_element(p, "template"))) -> ignore_token(p)
    [] OTHER -> Reprocess(pop_current_node(p), "after_head")

InBodyCharacters(p) ==
  LET q == insert_text_token(reconstruct_active_formatting_elements(p))
  IN IF Type(p, {"null"}) THEN ignore_token(p)
     ELSE IF Type(p, {"ws"}) THEN q ELSE set_frameset_not_ok(q)

(* A frameset replaces the body when nothing in it was worth keeping.      *)
\* mutant: what the list holds of the body stays in it.
FramesetKeepsFormatting(p) ==
  LET body == p.open[2]
      q    == [PopFrom(p, 2) EXCEPT !.node[p.root].kids = Drop(@, body)]
  IN set_insertion_mode(insert_element_from_token(destroy_node(q, body)), "in_frameset")
\* mutant: the frameset goes after the body.
FramesetAfterBody(p) ==
  set_insertion_mode(insert_element_from_token(clear_active_formatting_elements(PopFrom(p, 2))), "in_frameset")

FramesetForBody(p) ==
  LET body == p.open[2]
      q    == clear_active_formatting_elements(PopFrom(p, 2))
      r    == destroy_node([q EXCEPT !.node[q.root].kids = Drop(@, body)], body)
  IN set_insertion_mode(insert_element_from_token(r), "in_frameset")

BodyIsSecond(p) == Len(p.open) >= 2 /\ NodeIs(p, p.open[2], "body")

InBodySkeletonTags(p) ==
  CASE Start(p, {"html"}) /\ ~has_open_element(p, "template") -> merge_attributes(p, p.root)
    [] Start(p, {"body"}) /\ BodyIsSecond(p) /\ ~has_open_element(p, "template") ->
         merge_attributes(set_frameset_not_ok(p), p.open[2])
    [] Start(p, {"frameset"}) /\ BodyIsSecond(p) /\ p.frameset_ok -> FramesetForBody(p)
    [] End(p, {"body"}) /\ has_an_element_in_scope(p, "body") ->
         set_insertion_mode(Check(p, BodyIsSecond(p), "body is second"), "after_body")
    [] End(p, {"html"}) /\ has_an_element_in_scope(p, "body") -> Reprocess(p, "after_body")
    [] OTHER -> ignore_token(p)

Headings == {"h1", "h2"}
Blocks == {"address", "div", "ol", "ul"}
ClosesP == Blocks \cup {"p", "pre", "plaintext", "xmp", "hr", "form", "li", "dd", "dt"} \cup Headings

InBodyBlockStart(p) ==
  LET q == maybe_implicitly_close_p_tag(p) IN
  CASE Start(p, Blocks \cup {"p"}) -> insert_element_from_token(q)
    [] Start(p, Headings) ->
         insert_element_from_token(
           IF NodeTagIn(q, get_current_node(q), Html(Headings)) THEN pop_current_node(q) ELSE q)
    [] Start(p, {"pre"}) -> set_frameset_not_ok([insert_element_from_token(q) EXCEPT !.ignore_lf = TRUE])
    [] Start(p, {"form"}) ->
         LET nested == has_open_element(p, "template")
             r == insert_element_from_token(q)
         IN IF p.form # NULL /\ ~nested THEN ignore_token(p)
            ELSE [r EXCEPT !.form = IF nested THEN @ ELSE get_current_node(r)]
    [] Start(p, {"li"}) ->
         insert_element_from_token(maybe_implicitly_close_p_tag(maybe_implicitly_close_list_tag(p, {"li"})))
    [] Start(p, {"dd", "dt"}) ->
         insert_element_from_token(maybe_implicitly_close_p_tag(maybe_implicitly_close_list_tag(p, {"dd", "dt"})))
    [] Start(p, {"plaintext"}) -> [insert_element_from_token(q) EXCEPT !.lexer = "plaintext"]
    [] Start(p, {"hr"}) -> set_frameset_not_ok(InsertVoid(q))
    [] Start(p, {"xmp"}) ->
         run_generic_parsing_algorithm(set_frameset_not_ok(reconstruct_active_formatting_elements(q)))

Objects == {"applet", "object"}
InBodyBlockEnd(p) ==
  LET tag == p.tok.tag
      Close(q) == implicitly_close_tags(q, tag)
  IN CASE tag \in Blocks \cup {"button", "pre", "dd", "dt"} ->
            IF has_an_element_in_scope(p, tag) THEN Close(p) ELSE ignore_token(p)
       [] tag \in Objects ->
            IF has_an_element_in_scope(p, tag) THEN clear_active_formatting_elements(Close(p)) ELSE ignore_token(p)
       [] tag = "li" -> IF has_an_element_in_list_scope(p, "li") THEN Close(p) ELSE ignore_token(p)
       [] tag = "p" -> Close(IF has_an_element_in_button_scope(p, "p") THEN p
                             ELSE insert_element_of_tag_type(p, "p"))
       [] tag \in Headings ->
            IF has_an_element_in_scope_with_tagname(p, Headings)
            THEN PopThrough(generate_implied_end_tags(p, ""), Html(Headings)) ELSE ignore_token(p)

(* The form element may be anywhere on the stack: it leaves it without the *)
(* elements above it.                                                      *)
InBodyFormEnd(p) ==
  LET q == [p EXCEPT !.form = NULL]
      r == generate_implied_end_tags(maybe_flush_text_node_buffer(q), "")
  IN IF has_open_element(p, "template")
     THEN IF has_an_element_in_scope(p, "form")
          THEN PopThroughTag(generate_implied_end_tags(p, ""), "form") ELSE ignore_token(p)
     ELSE IF p.form = NULL \/ ~has_node_in_scope(p, p.form) THEN ignore_token(q)
     ELSE [Check(r, Contains(r.open, p.form), "the form is open") EXCEPT !.open = Drop(@, p.form)]

Formatting == {"b", "i", "u", "font"}
\* mutant: text that was pending is listed for the element.
ListNewest(p) ==
  LET Listed(q) == add_formatting_element(q, Newest(q))
  IN Listed(insert_element_from_token(reconstruct_active_formatting_elements(p)))

OpenFormatting(p) ==
  LET Listed(q) == add_formatting_element(q, get_current_node(q))
  IN Listed(insert_element_from_token(reconstruct_active_formatting_elements(p)))

ForgetAnchor(p) ==
  LET at == find_last_anchor_index(p)
  IN IF at = 0 THEN p
     ELSE [p EXCEPT !.active = RemoveAt(@, at), !.open = Drop(@, p.active[at])]

InBodyFormattingStart(p) ==
  LET Adopted(q, cond) == IF cond THEN adoption_agency_algorithm(q) ELSE q
      Alone(q) == Adopted(q, has_an_element_in_scope(q, "nobr"))
  IN CASE Start(p, Formatting) -> OpenFormatting(p)
       [] Start(p, {"a"}) -> OpenFormatting(ForgetAnchor(Adopted(p, find_last_anchor_index(p) # 0)))
       [] Start(p, {"nobr"}) -> OpenFormatting(Alone(reconstruct_active_formatting_elements(p)))

InBodyTableModes == {"in_table", "in_caption", "in_table_body", "in_row", "in_cell"}
InBodyPhrasingStart(p) ==
  LET q == reconstruct_active_formatting_elements(p)
      ruby(except) == IF has_an_element_in_scope(p, "ruby") THEN generate_implied_end_tags(p, except) ELSE p
      foreign(ns) == LET r == insert_foreign_element(q, ns)
                     IN IF p.tok.self THEN pop_current_node(r) ELSE r
  IN CASE Start(p, {"button"}) ->
            LET r == IF has_an_element_in_scope(p, "button")
                     THEN PopThroughTag(generate_implied_end_tags(p, ""), "button") ELSE p
            IN set_frameset_not_ok(insert_element_from_token(reconstruct_active_formatting_elements(r)))
       [] Start(p, Objects) -> set_frameset_not_ok(AddMarker(insert_element_from_token(q)))
       [] Start(p, {"table"}) ->
            LET r == IF p.quirks THEN p ELSE maybe_implicitly_close_p_tag(p)
            IN set_insertion_mode(set_frameset_not_ok(insert_element_from_token(r)), "in_table")
       [] Start(p, {"br", "img"}) -> set_frameset_not_ok(InsertVoid(q))
       [] Start(p, {"image"}) -> set_frameset_not_ok(InsertVoid([q EXCEPT !.tok.tag = "img"]))
       [] Start(p, {"input"}) ->
            LET r == InsertVoid(q) IN IF "hidden" \in p.tok.attrs THEN r ELSE set_frameset_not_ok(r)
       [] Start(p, {"param"}) -> InsertVoid(p)
       [] Start(p, {"textarea"}) ->
            set_frameset_not_ok([run_generic_parsing_algorithm(p) EXCEPT !.ignore_lf = TRUE])
       [] Start(p, {"iframe"}) -> run_generic_parsing_algorithm(set_frameset_not_ok(p))
       [] Start(p, {"noscript"}) /\ p.noscript -> run_generic_parsing_algorithm(p)
       [] Start(p, {"select"}) ->
            set_insertion_mode(set_frameset_not_ok(insert_element_from_token(q)),
              IF p.mode \in InBodyTableModes THEN "in_select_in_table" ELSE "in_select")
       [] Start(p, {"optgroup", "option"}) ->
            LET r == IF CurrentIs(p, "option") THEN pop_current_node(p) ELSE p
            IN insert_element_from_token(reconstruct_active_formatting_elements(r))
       [] Start(p, {"rb", "rtc"}) -> insert_element_from_token(ruby(""))
       [] Start(p, {"rp", "rt"}) -> insert_element_from_token(ruby("rtc"))
       [] Start(p, {"math"}) -> foreign("mathml")
       [] Start(p, {"svg"}) -> foreign("svg")
       [] Start(p, {"caption", "col", "colgroup", "frame", "head", "tbody", "td", "tfoot", "th", "thead", "tr"}) ->
            ignore_token(p)
       [] OTHER -> insert_element_from_token(q)

\* mutant: the mode of the template stays.
TemplateEofKeepsMode(p) ==
  IF has_open_element(p, "template")
  THEN LET q == clear_active_formatting_elements(PopThroughTag(p, "template"))
       IN [reset_insertion_mode_appropriately(q) EXCEPT !.reprocess = TRUE]
  ELSE p
\* mutant: the template stays open.
TemplateEofKeepsOpen(p) == [p EXCEPT !.reprocess = TRUE]

(* The end of the file closes the open templates one by one.               *)
TemplateEof(p) ==
  IF has_open_element(p, "template")
  THEN LET q == clear_active_formatting_elements(PopThroughTag(p, "template"))
       IN [reset_insertion_mode_appropriately(pop_template_insertion_mode(q)) EXCEPT !.reprocess = TRUE]
  ELSE p

BrForEnd(p) ==
  LET q == insert_element_of_tag_type(reconstruct_active_formatting_elements(p), "br")
  IN set_frameset_not_ok(pop_current_node(q))

BlockEnds == Blocks \cup Headings \cup Objects \cup {"button", "pre", "dd", "dt", "li", "p"}
SkeletonTag(p) == Start(p, {"html", "body", "frameset"}) \/ End(p, {"html", "body"})
HeadTag(p) == Start(p, HeadTags) \/ End(p, {"template"})

InBodyTags(p) ==
  CASE SkeletonTag(p) -> InBodySkeletonTags(p)
    [] Start(p, ClosesP) -> InBodyBlockStart(p)
    [] Start(p, Formatting \cup {"a", "nobr"}) -> InBodyFormattingStart(p)
    [] End(p, BlockEnds) -> InBodyBlockEnd(p)
    [] End(p, {"form"}) -> InBodyFormEnd(p)
    [] End(p, {"br"}) -> BrForEnd(p)
    [] End(p, Formatting \cup {"a", "nobr"}) -> adoption_agency_algorithm(p)
    [] Type(p, {"start"}) /\ ~SkeletonTag(p) /\ ~Start(p, ClosesP \cup Formatting \cup {"a", "nobr"}) ->
         InBodyPhrasingStart(p)
    [] OTHER -> in_body_any_other_end_tag(p)

handle_in_body(p) ==
  CASE Type(p, {"null", "ws", "char", "cdata"}) -> InBodyCharacters(p)
    [] Type(p, {"comment"}) -> CommentIn(p)
    [] Type(p, {"doctype"}) -> ignore_token(p)
    [] Type(p, {"eof"}) -> IF p.tmodes # <<>> THEN TemplateEof(p) ELSE p
    [] HeadTag(p) -> handle_in_head(p)
    [] OTHER -> InBodyTags(p)

-----------------------------------------------------------------------------
(* Before, between and after head and body *)

Ending == {"head", "body", "html", "br"}
StrayEnd(p, tags) == Type(p, {"end"}) /\ ~End(p, tags)

handle_initial(p) ==
  CASE Type(p, {"ws"}) -> ignore_token(p)
    [] Type(p, {"comment"}) -> append_comment_node(p, p.doc)
    [] Type(p, {"doctype"}) -> [set_insertion_mode(p, "before_html") EXCEPT !.tok.own = "node"]
    [] OTHER -> [Reprocess(p, "before_html") EXCEPT !.quirks = TRUE]

handle_before_html(p) ==
  LET Rooted(q) == [set_insertion_mode(q, "before_head") EXCEPT !.root = Newest(q)]
  IN CASE Type(p, {"comment"}) -> append_comment_node(p, p.doc)
       [] Type(p, {"doctype", "ws"}) \/ StrayEnd(p, Ending) -> ignore_token(p)
       [] Start(p, {"html"}) -> Rooted(insert_element_from_token(p))
       [] OTHER -> Reprocess(Rooted(insert_element_of_tag_type(p, "html")), "before_head")

handle_before_head(p) ==
  LET Headed(q) == [set_insertion_mode(q, "in_head") EXCEPT !.head = Newest(q)]
  IN CASE Type(p, {"comment"}) -> CommentIn(p)
       [] Type(p, {"doctype", "ws"}) \/ StrayEnd(p, Ending) -> ignore_token(p)
       [] Start(p, {"html"}) -> handle_in_body(p)
       [] Start(p, {"head"}) -> Headed(insert_element_from_token(p))
       [] OTHER -> Reprocess(Headed(insert_element_of_tag_type(p, "head")), "in_head")

handle_in_head_noscript(p) ==
  LET q == Check(pop_current_node(p), CurrentIs(p, "noscript"), "noscript is current")
  IN CASE Start(p, {"html"}) -> handle_in_body(p)
       [] End(p, {"noscript"}) -> set_insertion_mode(q, "in_head")
       [] Type(p, {"ws", "comment"}) \/ Start(p, {"link", "meta", "noframes", "style"}) -> handle_in_head(p)
       [] Type(p, {"doctype"}) \/ Start(p, {"head", "noscript"}) \/ StrayEnd(p, {"noscript", "br"}) -> ignore_token(p)
       [] OTHER -> Reprocess(q, "in_head")

(* A head element found late goes into the head, back on the stack for it. *)
handle_after_head(p) ==
  LET late == [maybe_flush_text_node_buffer(p) EXCEPT !.open = Append(@, p.head)]
  IN CASE Type(p, {"ws"}) -> insert_text_token(p)
       [] Type(p, {"comment"}) -> CommentIn(p)
       [] Start(p, {"html"}) -> handle_in_body(p)
       [] Start(p, {"body"}) ->
            set_insertion_mode(set_frameset_not_ok(insert_element_from_token(p)), "in_body")
       [] Start(p, {"frameset"}) -> set_insertion_mode(insert_element_from_token(p), "in_frameset")
       [] Start(p, HeadTags) ->
            [handle_in_head(Check(late, p.head # NULL, "there is a head")) EXCEPT !.open = Drop(@, p.head)]
       [] End(p, {"template"}) -> handle_in_head(p)
       [] Type(p, {"doctype"}) \/ Start(p, {"head"}) \/ StrayEnd(p, {"body", "html", "br", "template"}) ->
            ignore_token(p)
       [] OTHER -> Reprocess(insert_element_of_tag_type(p, "body"), "in_body")

handle_text(p) ==
  IF Type(p, {"char", "ws"}) THEN insert_text_token(p)
  ELSE [set_insertion_mode(pop_current_node(p), p.orig) EXCEPT !.reprocess = Type(p, {"eof"})]

handle_after_body(p) ==
  CASE Type(p, {"ws"}) \/ Start(p, {"html"}) -> handle_in_body(p)
    [] Type(p, {"comment"}) -> append_comment_node(p, p.root)
    [] Type(p, {"doctype"}) \/ (End(p, {"html"}) /\ p.ctx # NULL) -> ignore_token(p)
    [] End(p, {"html"}) /\ p.ctx = NULL -> set_insertion_mode(p, "after_after_body")
    [] Type(p, {"eof"}) -> p
    [] OTHER -> Reprocess(p, "in_body")

handle_after_after_body(p) ==
  CASE Type(p, {"comment"}) -> append_comment_node(p, p.doc)
    [] Type(p, {"doctype", "ws"}) \/ Start(p, {"html"}) -> handle_in_body(p)
    [] Type(p, {"eof"}) -> p
    [] OTHER -> Reprocess(p, "in_body")

handle_in_frameset(p) ==
  LET closed == pop_current_node(p)
      after  == p.ctx = NULL /\ ~CurrentIs(closed, "frameset")
  IN CASE Type(p, {"ws"}) -> insert_text_token(p)
       [] Type(p, {"comment"}) -> CommentIn(p)
       [] Start(p, {"html"}) -> handle_in_body(p)
       [] Start(p, {"frameset"}) -> insert_element_from_token(p)
       [] End(p, {"frameset"}) /\ ~CurrentIs(p, "html") ->
            IF after THEN set_insertion_mode(closed, "after_frameset") ELSE closed
       [] Start(p, {"frame"}) -> InsertVoid(p)
       [] Start(p, {"noframes"}) -> handle_in_head(p)
       [] Type(p, {"eof"}) -> p
       [] OTHER -> ignore_token(p)

handle_after_frameset(p) ==
  CASE Type(p, {"ws"}) -> insert_text_token(p)
    [] Type(p, {"comment"}) -> CommentIn(p)
    [] Start(p, {"html"}) -> handle_in_body(p)
    [] End(p, {"html"}) -> set_insertion_mode(p, "after_after_frameset")
    [] Start(p, {"noframes"}) -> handle_in_head(p)
    [] Type(p, {"eof"}) -> p
    [] OTHER -> ignore_token(p)

handle_after_after_frameset(p) ==
  CASE Type(p, {"comment"}) -> append_comment_node(p, p.doc)
    [] Type(p, {"doctype", "ws"}) \/ Start(p, {"html"}) -> handle_in_body(p)
    [] Start(p, {"noframes"}) -> handle_in_head(p)
    [] Type(p, {"eof"}) -> p
    [] OTHER -> ignore_token(p)

=============================================================================
