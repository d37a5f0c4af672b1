---------------------------- MODULE TokenizerMarkup ----------------------------
(* The states in which gumbo_lex reads markup: tags and their attributes,      *)
(* comments and doctypes.                                                      *)
EXTENDS TokenizerText

(* Tags *)
handle_tag_open_state(s, c) ==
  CASE c = "!" -> clear_temporary_buffer(gumbo_tokenizer_set_state(s, "MARKUP_DECLARATION_OPEN"))
    [] c = "/" -> gumbo_tokenizer_set_state(s, "END_TAG_OPEN")
    [] c = "?" -> reconsume_in_state(clear_temporary_buffer(tokenizer_add_parse_error(s)),
                                     "BOGUS_COMMENT")
    [] is_alpha(c) -> start_new_tag(reconsume_in_state(s, "TAG_NAME"), TRUE)
    [] OTHER   -> Back(tokenizer_add_parse_error(s), "DATA")

\* Of </> nothing is emitted, and the next token starts at its <.
handle_end_tag_open_state(s, c) ==
  CASE c = ">" -> gumbo_tokenizer_set_state(tokenizer_add_parse_error(s), "DATA")
    [] c = EOF -> Back(tokenizer_add_parse_error(s), "DATA")
    [] is_alpha(c) -> start_new_tag(reconsume_in_state(s, "TAG_NAME"), FALSE)
    [] OTHER   -> reconsume_in_state(clear_temporary_buffer(tokenizer_add_parse_error(s)),
                                     "BOGUS_COMMENT")

EofInTag(s) == emit_eof(abandon_current_tag(tokenizer_add_parse_error(s)))

TagDone(s) == emit_current_tag(gumbo_tokenizer_set_state(s, "DATA"))

NullInTag(s) == append_to_tag_buffer(tokenizer_add_parse_error(s), <<REPL>>)

handle_tag_name_state(s, c) ==
  CASE c \in Space -> gumbo_tokenizer_set_state(finish_tag_name(s), "BEFORE_ATTR_NAME")
    [] c = "/" -> gumbo_tokenizer_set_state(finish_tag_name(s), "SELF_CLOSING_START_TAG")
    [] c = ">" -> TagDone(finish_tag_name(s))
    [] c = NUL -> NullInTag(s)
    [] c = EOF -> EofInTag(s)
    [] OTHER   -> append_to_tag_buffer(s, <<ensure_lowercase(c)>>)

handle_before_attr_name_state(s, c) ==
  CASE c \in Space -> s
    [] c \in {"/", ">", EOF} -> reconsume_in_state(s, "AFTER_ATTR_NAME")
    [] c = "=" -> append_to_tag_buffer(gumbo_tokenizer_set_state(tokenizer_add_parse_error(s),
                                                                 "ATTR_NAME"), <<c>>)
    [] OTHER   -> reconsume_in_state(s, "ATTR_NAME")

handle_attr_name_state(s, c) ==
  CASE c \in Space \cup {"/", ">", EOF} ->
               reconsume_in_state(finish_attribute_name(s), "AFTER_ATTR_NAME")
    [] c = "=" -> gumbo_tokenizer_set_state(finish_attribute_name(s), "BEFORE_ATTR_VALUE")
    [] c = NUL -> NullInTag(s)
    [] c \in {"\"", "'", "<"} -> append_to_tag_buffer(tokenizer_add_parse_error(s), <<c>>)
    [] OTHER   -> append_to_tag_buffer(s, <<ensure_lowercase(c)>>)

handle_after_attr_name_state(s, c) ==
  CASE c \in Space -> s
    [] c = "/" -> gumbo_tokenizer_set_state(s, "SELF_CLOSING_START_TAG")
    [] c = "=" -> gumbo_tokenizer_set_state(s, "BEFORE_ATTR_VALUE")
    [] c = ">" -> TagDone(s)
    [] c = EOF -> EofInTag(s)
    [] OTHER   -> reconsume_in_state(s, "ATTR_NAME")

handle_before_attr_value_state(s, c) ==
  CASE c \in Space -> s
    [] c = "\"" -> gumbo_tokenizer_set_state(s, "ATTR_VALUE_DOUBLE_QUOTED")
    [] c = "'"  -> gumbo_tokenizer_set_state(s, "ATTR_VALUE_SINGLE_QUOTED")
    [] c = ">"  -> TagDone(tokenizer_add_parse_error(s))
    [] OTHER    -> reconsume_in_state(s, "ATTR_VALUE_UNQUOTED")

QuotedValue(s, c, quote, state) ==
  CASE c = quote -> gumbo_tokenizer_set_state(s, "AFTER_ATTR_VALUE_QUOTED")
    [] c = "&" -> StartsReference(s, state)
    [] c = NUL -> NullInTag(s)
    [] c = EOF -> EofInTag(s)
    [] OTHER   -> append_to_tag_buffer(s, <<c>>)

handle_attr_value_double_quoted_state(s, c) == QuotedValue(s, c, "\"", "ATTR_VALUE_DOUBLE_QUOTED")
handle_attr_value_single_quoted_state(s, c) == QuotedValue(s, c, "'", "ATTR_VALUE_SINGLE_QUOTED")

handle_attr_value_unquoted_state(s, c) ==
  CASE c \in Space -> finish_attribute_value(gumbo_tokenizer_set_state(s, "BEFORE_ATTR_NAME"))
    [] c = "&" -> StartsReference(s, "ATTR_VALUE_UNQUOTED")
    [] c = ">" -> TagDone(finish_attribute_value(s))
    [] c = NUL -> NullInTag(s)
    [] c = EOF -> EofInTag(s)
    [] c \in {"\"", "'", "<", "=", "grave accent"} ->
               append_to_tag_buffer(tokenizer_add_parse_error(s), <<c>>)
    [] OTHER   -> append_to_tag_buffer(s, <<c>>)

AfterValue(s, c) ==
  CASE c \in Space -> gumbo_tokenizer_set_state(s, "BEFORE_ATTR_NAME")
    [] c = "/" -> gumbo_tokenizer_set_state(s, "SELF_CLOSING_START_TAG")
    [] c = ">" -> TagDone(s)
    [] c = EOF -> EofInTag(s)
    [] OTHER   -> reconsume_in_state(tokenizer_add_parse_error(s), "BEFORE_ATTR_NAME")

handle_after_attr_value_quoted_state(s, c) == AfterValue(finish_attribute_value(s), c)

handle_self_closing_start_tag_state(s, c) ==
  CASE c = ">" -> TagDone([s EXCEPT !.tag.self_closing = TRUE])
    [] c = EOF -> EofInTag(s)
    [] OTHER   -> reconsume_in_state(tokenizer_add_parse_error(s), "BEFORE_ATTR_NAME")

(* Comments.  At the end of the text some states reconsume and some do not:    *)
(* there the iterator does not move.                                           *)
handle_markup_declaration_open_state(s, c) ==
  LET rest == Rest(s)
      bogus == reconsume_in_state(tokenizer_add_parse_error(clear_temporary_buffer(s)),
                                  "BOGUS_COMMENT")
  IN  CASE Begins(<<"-", "-">>, rest) -> reconsume_in_state(Advance(s, 2), "COMMENT_START")
        [] Begins(<<"DOCTYPE">>, rest) ->
             [reconsume_in_state(Advance(s, 1), "DOCTYPE") EXCEPT !.doctype.owned = TRUE]
        [] Begins(<<"[CDATA[">>, rest) /\ s.foreign ->
             [reset_token_start_point(reconsume_in_state(Advance(s, 1), "CDATA_SECTION"))
              EXCEPT !.cdata = TRUE]
        [] Begins(<<"[CDATA[">>, rest) /\ ~s.foreign ->
             append_to_temporary_buffer(Advance(bogus, 1), <<"[CDATA[">>)
        [] OTHER -> bogus

CommentDone(s) == emit_comment(gumbo_tokenizer_set_state(s, "DATA"))

EofInComment(s) == emit_comment(reconsume_in_state(tokenizer_add_parse_error(s), "DATA"))

handle_bogus_comment_state(s, c) ==
  CASE c = ">" -> CommentDone(s)
    [] c = EOF -> emit_comment(reconsume_in_state(s, "DATA"))
    [] c = NUL -> append_to_temporary_buffer(tokenizer_add_parse_error(s), <<REPL>>)
    [] OTHER   -> append_to_temporary_buffer(s, <<c>>)

handle_comment_start_state(s, c) ==
  CASE c = "-" -> gumbo_tokenizer_set_state(s, "COMMENT_START_DASH")
    [] c = ">" -> CommentDone(tokenizer_add_parse_error(s))
    [] OTHER   -> reconsume_in_state(s, "COMMENT")

\* the dashes were text after all
CommentGoesOn(s, chars) == append_to_temporary_buffer(reconsume_in_state(s, "COMMENT"), chars)

handle_comment_start_dash_state(s, c) ==
  CASE c = "-" -> gumbo_tokenizer_set_state(s, "COMMENT_END")
    [] c = ">" -> CommentDone(tokenizer_add_parse_error(s))
    [] c = EOF -> EofInComment(s)
    [] OTHER   -> CommentGoesOn(s, <<"-">>)

handle_comment_state(s, c) ==
  CASE c = "<" -> append_to_temporary_buffer(gumbo_tokenizer_set_state(s, "COMMENT_LT"), <<c>>)
    [] c = "-" -> gumbo_tokenizer_set_state(s, "COMMENT_END_DASH")
    [] c = NUL -> append_to_temporary_buffer(tokenizer_add_parse_error(s), <<REPL>>)
    [] c = EOF -> EofInComment(s)
    [] OTHER   -> append_to_temporary_buffer(s, <<c>>)

handle_comment_lt_state(s, c) ==
  CASE c = "!" -> append_to_temporary_buffer(gumbo_tokenizer_set_state(s, "COMMENT_LT_BANG"), <<c>>)
    [] c = "<" -> append_to_temporary_buffer(s, <<c>>)
    [] OTHER   -> reconsume_in_state(s, "COMMENT")

handle_comment_lt_bang_state(s, c) ==
  IF c = "-" THEN gumbo_tokenizer_set_state(s, "COMMENT_LT_BANG_DASH")
  ELSE reconsume_in_state(s, "COMMENT")

\* mutant: the dash is lost
DashIsLost(s, c) ==
  reconsume_in_state(s, IF c = "-" THEN "COMMENT_END_DASH" ELSE "COMMENT")

handle_comment_lt_bang_dash_state(s, c) ==
  IF c = "-" THEN gumbo_tokenizer_set_state(s, "COMMENT_LT_BANG_DASH_DASH")
  ELSE reconsume_in_state(s, "COMMENT_END_DASH")

handle_comment_lt_bang_dash_dash_state(s, c) ==
  reconsume_in_state(IF c \in {">", EOF} THEN s ELSE tokenizer_add_parse_error(s), "COMMENT_END")

EofAfterDashes(s) == CommentDone(tokenizer_add_parse_error(s))

handle_comment_end_dash_state(s, c) ==
  CASE c = "-" -> gumbo_tokenizer_set_state(s, "COMMENT_END")
    [] c = EOF -> EofAfterDashes(s)
    [] OTHER   -> CommentGoesOn(s, <<"-">>)

handle_comment_end_state(s, c) ==
  CASE c = ">" -> CommentDone(s)
    [] c = "!" -> gumbo_tokenizer_set_state(s, "COMMENT_END_BANG")
    [] c = "-" -> append_to_temporary_buffer(s, <<"-">>)
    [] c = EOF -> EofAfterDashes(s)
    [] OTHER   -> CommentGoesOn(s, <<"-", "-">>)

handle_comment_end_bang_state(s, c) ==
  CASE c = "-" -> append_to_temporary_buffer(gumbo_tokenizer_set_state(s, "COMMENT_END_DASH"),
                                             <<"-", "-", "!">>)
    [] c = ">" -> CommentDone(tokenizer_add_parse_error(s))
    [] c = EOF -> EofAfterDashes(s)
    [] OTHER   -> CommentGoesOn(s, <<"-", "-", "!">>)

(* Doctypes *)
Quirks(s) == [tokenizer_add_parse_error(s) EXCEPT !.doctype.force_quirks = TRUE]

DoctypeDone(s) == emit_doctype(gumbo_tokenizer_set_state(s, "DATA"))

EofInDoctype(s) == emit_doctype(reconsume_in_state(Quirks(s), "DATA"))

BogusDoctype(s) == reconsume_in_state(Quirks(s), "BOGUS_DOCTYPE")

\* gumbo_free and finish_temporary_buffer on one of the strings
finish_doctype_name(s) ==
  [clear_temporary_buffer(assert(s, s.doctype.owned)) EXCEPT !.doctype.name = s.tmp]
finish_doctype_public_id(s) ==
  [clear_temporary_buffer(assert(s, s.doctype.owned)) EXCEPT !.doctype.public = s.tmp,
                                                             !.doctype.has_public = TRUE]
finish_doctype_system_id(s) ==
  [clear_temporary_buffer(assert(s, s.doctype.owned)) EXCEPT !.doctype.system = s.tmp,
                                                             !.doctype.has_system = TRUE]

DoctypeEntered(s, c) ==
  CASE c \in Space -> gumbo_tokenizer_set_state(s, "BEFORE_DOCTYPE_NAME")
    [] c = ">" -> reconsume_in_state(s, "BEFORE_DOCTYPE_NAME")
    [] c = EOF -> EofInDoctype(s)
    [] OTHER   -> reconsume_in_state(tokenizer_add_parse_error(s), "BEFORE_DOCTYPE_NAME")

handle_doctype_state(s, c) == DoctypeEntered(assert(s, temporary_buffer_is_empty(s)), c)

DoctypeName(s, chars) ==
  append_to_temporary_buffer(gumbo_tokenizer_set_state(s, "DOCTYPE_NAME"), chars)

handle_before_doctype_name_state(s, c) ==
  CASE c \in Space -> s
    [] c = NUL -> DoctypeName(tokenizer_add_parse_error(s), <<REPL>>)
    [] c = ">" -> DoctypeDone(Quirks(s))
    [] c = EOF -> EofInDoctype(s)
    [] OTHER   -> DoctypeName(s, <<ensure_lowercase(c)>>)

handle_doctype_name_state(s, c) ==
  CASE c \in Space -> finish_doctype_name(gumbo_tokenizer_set_state(s, "AFTER_DOCTYPE_NAME"))
    [] c = ">" -> DoctypeDone(finish_doctype_name(s))
    [] c = NUL -> append_to_temporary_buffer(tokenizer_add_parse_error(s), <<REPL>>)
    [] c = EOF -> EofInDoctype(finish_doctype_name(s))
    [] OTHER   -> append_to_temporary_buffer(s, <<ensure_lowercase(c)>>)

handle_after_doctype_name_state(s, c) ==
  CASE c \in Space -> s
    [] c = ">" -> DoctypeDone(s)
    [] c = EOF -> DoctypeDone(Quirks(s))
    [] c = "PUBLIC" -> reconsume_in_state(Advance(s, 1), "AFTER_DOCTYPE_PUBLIC_KEYWORD")
    [] c = "SYSTEM" -> reconsume_in_state(Advance(s, 1), "AFTER_DOCTYPE_SYSTEM_KEYWORD")
    [] OTHER   -> BogusDoctype(s)

Quoted(s, state) == gumbo_tokenizer_set_state(assert(s, temporary_buffer_is_empty(s)), state)

\* An identifier must follow; white space before it is missing if tight.
IdExpected(s, c, tight, spaceState, doubleQuoted, singleQuoted) ==
  CASE c \in Space -> gumbo_tokenizer_set_state(s, spaceState)
    [] c = "\"" -> Quoted(IF tight THEN tokenizer_add_parse_error(s) ELSE s, doubleQuoted)
    [] c = "'"  -> Quoted(IF tight THEN tokenizer_add_parse_error(s) ELSE s, singleQuoted)
    [] c = ">"  -> DoctypeDone(Quirks(s))
    [] c = EOF  -> EofInDoctype(s)
    [] OTHER    -> BogusDoctype(s)

\* An identifier, to its quote.
handle_doctype_public_id_quoted_state(s, c, quote) ==
  CASE c = quote -> finish_doctype_public_id(gumbo_tokenizer_set_state(s, "AFTER_DOCTYPE_PUBLIC_ID"))
    [] c = NUL -> append_to_temporary_buffer(tokenizer_add_parse_error(s), <<REPL>>)
    [] c = ">" -> DoctypeDone(finish_doctype_public_id(Quirks(s)))
    [] c = EOF -> EofInDoctype(finish_doctype_public_id(s))
    [] OTHER   -> append_to_temporary_buffer(s, <<c>>)

handle_doctype_system_id_quoted_state(s, c, quote) ==
  CASE c = quote -> finish_doctype_system_id(gumbo_tokenizer_set_state(s, "AFTER_DOCTYPE_SYSTEM_ID"))
    [] c = NUL -> append_to_temporary_buffer(tokenizer_add_parse_error(s), <<REPL>>)
    [] c = ">" -> DoctypeDone(finish_doctype_system_id(Quirks(s)))
    [] c = EOF -> EofInDoctype(finish_doctype_system_id(s))
    [] OTHER   -> append_to_temporary_buffer(s, <<c>>)

handle_after_doctype_public_keyword_state(s, c) ==
  IdExpected(s, c, TRUE, "BEFORE_DOCTYPE_PUBLIC_ID",
             "DOCTYPE_PUBLIC_ID_DOUBLE_QUOTED", "DOCTYPE_PUBLIC_ID_SINGLE_QUOTED")
handle_before_doctype_public_id_state(s, c) ==
  IdExpected(s, c, FALSE, "BEFORE_DOCTYPE_PUBLIC_ID",
             "DOCTYPE_PUBLIC_ID_DOUBLE_QUOTED", "DOCTYPE_PUBLIC_ID_SINGLE_QUOTED")
handle_after_doctype_system_keyword_state(s, c) ==
  IdExpected(s, c, TRUE, "BEFORE_DOCTYPE_SYSTEM_ID",
             "DOCTYPE_SYSTEM_ID_DOUBLE_QUOTED", "DOCTYPE_SYSTEM_ID_SINGLE_QUOTED")
handle_before_doctype_system_id_state(s, c) ==
  IdExpected(s, c, FALSE, "BEFORE_DOCTYPE_SYSTEM_ID",
             "DOCTYPE_SYSTEM_ID_DOUBLE_QUOTED", "DOCTYPE_SYSTEM_ID_SINGLE_QUOTED")

\* After the public identifier the doctype may end.
handle_after_doctype_public_id_state(s, c) ==
  IF c = ">" THEN DoctypeDone(s)
  ELSE IdExpected(s, c, TRUE, "BETWEEN_DOCTYPE_PUBLIC_SYSTEM_ID",
                  "DOCTYPE_SYSTEM_ID_DOUBLE_QUOTED", "DOCTYPE_SYSTEM_ID_SINGLE_QUOTED")
handle_between_doctype_public_system_id_state(s, c) ==
  IF c = ">" THEN DoctypeDone(s)
  ELSE IdExpected(s, c, FALSE, "BETWEEN_DOCTYPE_PUBLIC_SYSTEM_ID",
                  "DOCTYPE_SYSTEM_ID_DOUBLE_QUOTED", "DOCTYPE_SYSTEM_ID_SINGLE_QUOTED")

handle_after_doctype_system_id_state(s, c) ==
  CASE c \in Space -> s
    [] c = ">" -> DoctypeDone(s)
    [] c = EOF -> EofInDoctype(s)
    [] OTHER   -> reconsume_in_state(tokenizer_add_parse_error(s), "BOGUS_DOCTYPE")

\* mutant: the end of the text is not looked for
BogusDoctypeHasNoEnd(s, c) == IF c = ">" THEN DoctypeDone(s) ELSE s

handle_bogus_doctype_state(s, c) ==
  CASE c = ">" -> DoctypeDone(s)
    [] c = NUL -> tokenizer_add_parse_error(s)
    [] c = EOF -> emit_doctype(reconsume_in_state(s, "DATA"))
    [] OTHER   -> s
=============================================================================
