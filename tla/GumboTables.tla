------------------------------ MODULE GumboTables ------------------------------
(***************************************************************************)
(* The insertion modes of tables, selects, templates and foreign content   *)
(* of the HTML5 parser, and the dispatch of a token to a mode              *)
(* (gumbo-parser/src/parser.c).                                            *)
(***************************************************************************)
EXTENDS GumboModes

Bodies == {"tbody", "tfoot", "thead"}
Cells == {"td", "th"}
Structure == {"caption", "col", "colgroup", "tr"} \cup Bodies \cup Cells

close_table(p) == reset_insertion_mode_appropriately(PopThroughTag(p, "table"))

(* Elements a table does not hold go in front of it (foster parenting).    *)
handle_in_table(p) ==
  LET q == clear_stack_to_table_context(p)
      open == has_an_element_in_table_scope(p, "table")
      foster == [handle_in_body([p EXCEPT !.foster = TRUE]) EXCEPT !.foster = FALSE]
  IN CASE Type(p, {"char", "ws", "null"})
          /\ NodeTagIn(p, get_current_node(p), TableParts \cup Html({"template"})) ->
            Reprocess(Check([p EXCEPT !.orig = p.mode], p.text = "none" /\ ~p.chars,
                            "no text is pending"), "in_table_text")
       [] Type(p, {"comment"}) -> CommentIn(p)
       [] Start(p, {"caption"}) -> set_insertion_mode(insert_element_from_token(AddMarker(q)), "in_caption")
       [] Start(p, {"colgroup"}) -> set_insertion_mode(insert_element_from_token(q), "in_column_group")
       [] Start(p, {"col"}) -> Reprocess(insert_element_of_tag_type(q, "colgroup"), "in_column_group")
       [] Start(p, Bodies) -> set_insertion_mode(insert_element_from_token(q), "in_table_body")
       [] Start(p, Cells \cup {"tr"}) -> Reprocess(insert_element_of_tag_type(q, "tbody"), "in_table_body")
       [] Start(p, {"table"}) ->
            IF open THEN [close_table(p) EXCEPT !.reprocess = TRUE] ELSE ignore_token(p)
       [] End(p, {"table"}) -> IF open THEN close_table(p) ELSE p
       [] Type(p, {"doctype"}) \/ End(p, {"body", "html"} \cup Structure) -> ignore_token(p)
       [] Start(p, {"style", "script", "template"}) \/ End(p, {"template"}) -> handle_in_head(p)
       [] Start(p, {"input"}) /\ "hidden" \in p.tok.attrs -> InsertVoid(p)
       [] Start(p, {"form"}) ->
            LET r == insert_element_from_token(p)
            IN IF p.form # NULL \/ has_open_element(p, "template") THEN ignore_token(p)
               ELSE pop_current_node([r EXCEPT !.form = get_current_node(r)])
       [] Type(p, {"eof"}) -> handle_in_body(p)
       [] OTHER -> foster

handle_in_table_text(p) ==
  LET fostered == reconstruct_active_formatting_elements(set_frameset_not_ok([p EXCEPT !.foster = TRUE]))
      q == maybe_flush_text_node_buffer(IF p.text \notin {"none", "whitespace"} THEN fostered ELSE p)
  IN CASE Type(p, {"null"}) -> ignore_token(p)
       [] Type(p, {"ws", "char"}) -> [insert_text_token(p) EXCEPT !.chars = TRUE]
       [] OTHER -> Reprocess([q EXCEPT !.chars = FALSE, !.foster = FALSE], p.orig)

handle_in_caption(p) ==
  LET scope  == has_an_element_in_table_scope(p, "caption")
      closed == clear_active_formatting_elements(PopThroughTag(generate_implied_end_tags(p, ""), "caption"))
      ends   == End(p, {"caption"})
      next   == Start(p, Structure) \/ End(p, {"table"})
  IN CASE ends /\ scope -> set_insertion_mode(closed, "in_table")
       [] next /\ scope -> Reprocess(closed, "in_table")
       [] (ends \/ next) /\ ~scope -> ignore_token(p)
       [] End(p, {"body", "html"} \cup (Structure \ {"caption"})) -> ignore_token(p)
       [] OTHER -> handle_in_body(p)

handle_in_column_group(p) ==
  LET q == pop_current_node(p)
      current == CurrentIs(p, "colgroup")
  IN CASE Type(p, {"ws"}) -> insert_text_token(p)
       [] Type(p, {"comment"}) -> CommentIn(p)
       [] Start(p, {"html"}) \/ Type(p, {"eof"}) -> handle_in_body(p)
       [] Start(p, {"col"}) -> InsertVoid(p)
       [] End(p, {"colgroup"}) /\ current -> set_insertion_mode(q, "in_table")
       [] Start(p, {"template"}) \/ End(p, {"template"}) -> handle_in_head(p)
       [] Type(p, {"doctype"}) \/ End(p, {"col"}) \/ (End(p, {"colgroup"}) /\ ~current) -> ignore_token(p)
       [] OTHER -> IF current THEN Reprocess(q, "in_table") ELSE ignore_token(p)

handle_in_table_body(p) ==
  LET q == clear_stack_to_table_body_context(p)
      closed == set_insertion_mode(pop_current_node(q), "in_table")
      scope  == \E tag \in Bodies : has_an_element_in_table_scope(p, tag)
  IN CASE Start(p, {"tr"}) -> set_insertion_mode(insert_element_from_token(q), "in_row")
       [] Start(p, Cells) -> Reprocess(insert_element_of_tag_type(q, "tr"), "in_row")
       [] End(p, Bodies) -> IF has_an_element_in_table_scope(p, p.tok.tag) THEN closed ELSE ignore_token(p)
       [] Start(p, {"caption", "col", "colgroup"} \cup Bodies) \/ End(p, {"table"}) ->
            IF scope THEN Reprocess(closed, "in_table") ELSE ignore_token(p)
       [] End(p, {"body", "html"} \cup (Structure \ Bodies)) -> ignore_token(p)
       [] OTHER -> handle_in_table(p)

handle_in_row(p) ==
  LET q == clear_stack_to_table_row_context(p)
      closed == set_insertion_mode(pop_current_node(q), "in_table_body")
      row == has_an_element_in_table_scope(p, "tr")
  IN CASE Start(p, Cells) -> AddMarker(set_insertion_mode(insert_element_from_token(q), "in_cell"))
       [] End(p, {"tr"}) -> IF row THEN closed ELSE ignore_token(p)
       [] Start(p, Structure \ Cells) \/ End(p, {"table"}) ->
            IF row THEN Reprocess(closed, "in_table_body") ELSE ignore_token(p)
       [] End(p, Bodies) ->
            IF has_an_element_in_table_scope(p, p.tok.tag) /\ row
            THEN Reprocess(closed, "in_table_body") ELSE ignore_token(p)
       [] End(p, {"body", "html", "caption", "col", "colgroup"} \cup Cells) -> ignore_token(p)
       [] OTHER -> handle_in_table(p)

close_table_cell(p, tag) ==
  set_insertion_mode(clear_active_formatting_elements(
    PopThroughTag(generate_implied_end_tags(p, ""), tag)), "in_row")

close_current_cell(p) ==
  LET td == has_an_element_in_table_scope(p, "td")
      th == has_an_element_in_table_scope(p, "th")
  IN close_table_cell(Check(p, td # th, "one cell is in scope"), IF td THEN "td" ELSE "th")

handle_in_cell(p) ==
  LET scope == has_an_element_in_table_scope(p, p.tok.tag)
      cell  == \E tag \in Cells : has_an_element_in_table_scope(p, tag)
      next  == [close_current_cell(p) EXCEPT !.reprocess = TRUE]
  IN CASE End(p, Cells) -> IF scope THEN close_table_cell(p, p.tok.tag) ELSE ignore_token(p)
       [] Start(p, Structure) -> IF cell THEN next ELSE ignore_token(p)
       [] End(p, {"body", "html", "caption", "col", "colgroup"}) -> ignore_token(p)
       [] End(p, {"table", "tr"} \cup Bodies) -> IF scope THEN next ELSE ignore_token(p)
       [] OTHER -> handle_in_body(p)

-----------------------------------------------------------------------------
close_current_select(p) == reset_insertion_mode_appropriately(PopThroughTag(p, "select"))

PopCurrent(p, tag) == IF CurrentIs(p, tag) THEN pop_current_node(p) ELSE p

handle_in_select(p) ==
  LET q == PopCurrent(PopCurrent(p, "option"), "optgroup")
      scope == has_an_element_in_select_scope(p, "select")
      inner == CurrentIs(p, "option") /\ NodeIs(p, p.open[Len(p.open) - 1], "optgroup")
      group == IF inner THEN pop_current_node(p) ELSE p
  IN CASE Type(p, {"char", "ws"}) -> insert_text_token(p)
       [] Type(p, {"comment"}) -> CommentIn(p)
       [] Start(p, {"html"}) \/ Type(p, {"eof"}) -> handle_in_body(p)
       [] Start(p, {"option"}) -> insert_element_from_token(PopCurrent(p, "option"))
       [] Start(p, {"optgroup"}) -> insert_element_from_token(q)
       [] Start(p, {"hr"}) -> InsertVoid(q)
       [] End(p, {"optgroup"}) ->
            IF CurrentIs(group, "optgroup") THEN pop_current_node(group) ELSE ignore_token(group)
       [] End(p, {"option"}) -> IF CurrentIs(p, "option") THEN pop_current_node(p) ELSE ignore_token(p)
       [] End(p, {"select"}) -> IF scope THEN close_current_select(p) ELSE ignore_token(p)
       [] Start(p, {"select"}) -> IF scope THEN close_current_select(ignore_token(p)) ELSE ignore_token(p)
       [] Start(p, {"input", "textarea"}) ->
            IF scope THEN [close_current_select(p) EXCEPT !.reprocess = TRUE] ELSE ignore_token(p)
       [] Start(p, {"script", "template"}) \/ End(p, {"template"}) -> handle_in_head(p)
       [] OTHER -> ignore_token(p)

handle_in_select_in_table(p) ==
  LET tags == {"caption", "table", "tr"} \cup Bodies \cup Cells
      closed == [close_current_select(p) EXCEPT !.reprocess = TRUE]
  IN CASE Start(p, tags) -> closed
       [] End(p, tags) -> IF has_an_element_in_table_scope(p, p.tok.tag) THEN closed ELSE ignore_token(p)
       [] OTHER -> handle_in_select(p)

(* The template takes the mode its first content asks for.                 *)
handle_in_template(p) ==
  LET As(mode) == Reprocess(push_template_insertion_mode(pop_template_insertion_mode(p), mode), mode)
  IN CASE Type(p, {"ws", "char", "comment", "null", "doctype"}) -> handle_in_body(p)
       [] HeadTag(p) -> handle_in_head(p)
       [] Start(p, {"caption", "colgroup"} \cup Bodies) -> As("in_table")
       [] Start(p, {"col"}) -> As("in_column_group")
       [] Start(p, {"tr"}) -> As("in_table_body")
       [] Start(p, Cells) -> As("in_row")
       [] Start(p, {p.tok.tag} \ (HeadTags \cup Structure)) -> As("in_body")
       [] StrayEnd(p, {"template"}) -> ignore_token(p)
       [] Type(p, {"eof"}) -> TemplateEof(p)

-----------------------------------------------------------------------------
(* Dispatch *)

Modes == {"initial", "before_html", "before_head", "in_head", "in_head_noscript", "after_head",
  "in_body", "text", "in_table", "in_table_text", "in_caption", "in_column_group",
  "in_table_body", "in_row", "in_cell", "in_select", "in_select_in_table", "in_template",
  "after_body", "in_frameset", "after_frameset", "after_after_body", "after_after_frameset"}

handle_html_content(p) ==
  CASE p.mode = "initial" -> handle_initial(p)
    [] p.mode = "before_html" -> handle_before_html(p)
    [] p.mode = "before_head" -> handle_before_head(p)
    [] p.mode = "in_head" -> handle_in_head(p)
    [] p.mode = "in_head_noscript" -> handle_in_head_noscript(p)
    [] p.mode = "after_head" -> handle_after_head(p)
    [] p.mode = "in_body" -> handle_in_body(p)
    [] p.mode = "text" -> handle_text(p)
    [] p.mode = "in_table" -> handle_in_table(p)
    [] p.mode = "in_table_text" -> handle_in_table_text(p)
    [] p.mode = "in_caption" -> handle_in_caption(p)
    [] p.mode = "in_column_group" -> handle_in_column_group(p)
    [] p.mode = "in_table_body" -> handle_in_table_body(p)
    [] p.mode = "in_row" -> handle_in_row(p)
    [] p.mode = "in_cell" -> handle_in_cell(p)
    [] p.mode = "in_select" -> handle_in_select(p)
    [] p.mode = "in_select_in_table" -> handle_in_select_in_table(p)
    [] p.mode = "in_template" -> handle_in_template(p)
    [] p.mode = "after_body" -> handle_after_body(p)
    [] p.mode = "in_frameset" -> handle_in_frameset(p)
    [] p.mode = "after_frameset" -> handle_after_frameset(p)
    [] p.mode = "after_after_body" -> handle_after_after_body(p)
    [] p.mode = "after_after_frameset" -> handle_after_after_frameset(p)

is_mathml_integration_point(p, n) == NodeTagIn(p, n, Q("mathml", {"mi"}))
is_html_integration_point(p, n) ==
  \/ NodeTagIn(p, n, Q("svg", {"foreignobject", "desc", "title"}))
  \/ TagOf(p, n) = <<"mathml", "annotation-xml">> /\ "encoding" \in p.node[n].attrs

Breakout == {"b", "body", "br", "dd", "div", "dt", "h1", "h2", "head", "hr", "i", "img", "li",
  "meta", "nobr", "ol", "p", "pre", "ruby", "table", "u", "ul"}

handle_in_foreign_content(p) ==
  LET breaks == \/ Start(p, Breakout) \/ End(p, {"br", "p"})
                \/ Start(p, {"font"}) /\ "color" \in p.tok.attrs
      outside == PopWhile(p, LAMBDA n : ~(\/ is_mathml_integration_point(p, n)
                                          \/ is_html_integration_point(p, n)
                                          \/ p.node[n].ns = "html"))
      inserted == insert_foreign_element(p, p.node[get_adjusted_current_node(p)].ns)
      at == LastWhere(p.open, LAMBDA n : \/ p.node[n].tag = p.tok.tag
                                         \/ p.node[n].ns = "html" /\ n # get_current_node(p))
  IN CASE Type(p, {"null"}) -> insert_text_token([p EXCEPT !.tok.type = "ws"])
       [] Type(p, {"ws"}) -> insert_text_token(p)
       [] Type(p, {"cdata", "char"}) -> set_frameset_not_ok(insert_text_token(p))
       [] Type(p, {"comment"}) -> CommentIn(p)
       [] Type(p, {"doctype"}) -> ignore_token(p)
       [] breaks -> handle_html_content(outside)
       [] Type(p, {"start"}) /\ ~breaks -> IF p.tok.self THEN pop_current_node(inserted) ELSE inserted
       [] Type(p, {"end"}) /\ ~breaks ->
            IF at <= 1 THEN p
            ELSE IF at = Len(p.open) \/ p.node[p.open[at]].ns # "html" THEN PopFrom(p, at)
            ELSE handle_html_content(p)

(* Which rules apply: those of the mode or those of foreign content.       *)
RulesFor(p) ==
  LET n == get_adjusted_current_node(p) IN
  IF \/ n = NULL
     \/ p.node[n].ns = "html"
     \/ is_mathml_integration_point(p, n)
        /\ (Type(p, {"char", "ws", "null"}) \/ (Type(p, {"start"}) /\ ~Start(p, {"mglyph"})))
     \/ TagOf(p, n) = <<"mathml", "annotation-xml">> /\ Start(p, {"svg"})
     \/ is_html_integration_point(p, n) /\ Type(p, {"start", "char", "null", "ws"})
     \/ Type(p, {"eof"})
  THEN p.mode ELSE "foreign"

SkipsLinefeed(p) == p.ignore_lf /\ Type(p, {"ws"}) /\ p.tok.tag = "lf"

=============================================================================
