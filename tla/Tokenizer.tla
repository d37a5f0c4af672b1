------------------------------- MODULE Tokenizer -------------------------------
(* gumbo_lex of gumbo-parser/src/tokenizer.c: one step is one character handled *)
(* by the handler of the state, or one character emitted again from the mark.   *)
(* Between two tokens the tree construction may switch the tokenizer.           *)
EXTENDS TokenizerMarkup

Texts == {"DATA", "RCDATA", "RAWTEXT", "SCRIPT_DATA", "PLAINTEXT"}

EndTags == {"RCDATA_LT", "RCDATA_END_TAG_OPEN", "RCDATA_END_TAG_NAME",
            "RAWTEXT_LT", "RAWTEXT_END_TAG_OPEN", "RAWTEXT_END_TAG_NAME",
            "SCRIPT_DATA_LT", "SCRIPT_DATA_END_TAG_OPEN", "SCRIPT_DATA_END_TAG_NAME"}

Scripts == {"SCRIPT_DATA_ESCAPED_START", "SCRIPT_DATA_ESCAPED_START_DASH",
            "SCRIPT_DATA_ESCAPED", "SCRIPT_DATA_ESCAPED_DASH", "SCRIPT_DATA_ESCAPED_DASH_DASH",
            "SCRIPT_DATA_ESCAPED_LT", "SCRIPT_DATA_ESCAPED_END_TAG_OPEN",
            "SCRIPT_DATA_ESCAPED_END_TAG_NAME", "SCRIPT_DATA_DOUBLE_ESCAPED_START",
            "SCRIPT_DATA_DOUBLE_ESCAPED", "SCRIPT_DATA_DOUBLE_ESCAPED_DASH",
            "SCRIPT_DATA_DOUBLE_ESCAPED_DASH_DASH", "SCRIPT_DATA_DOUBLE_ESCAPED_LT",
            "SCRIPT_DATA_DOUBLE_ESCAPED_END"}

Attributes == {"BEFORE_ATTR_NAME", "ATTR_NAME", "AFTER_ATTR_NAME", "BEFORE_ATTR_VALUE",
               "ATTR_VALUE_DOUBLE_QUOTED", "ATTR_VALUE_SINGLE_QUOTED", "ATTR_VALUE_UNQUOTED",
               "AFTER_ATTR_VALUE_QUOTED", "SELF_CLOSING_START_TAG"}

Tags == {"TAG_OPEN", "END_TAG_OPEN", "TAG_NAME"} \cup Attributes

Comments == {"MARKUP_DECLARATION_OPEN", "BOGUS_COMMENT", "COMMENT_START", "COMMENT_START_DASH",
             "COMMENT", "COMMENT_LT", "COMMENT_LT_BANG", "COMMENT_LT_BANG_DASH",
             "COMMENT_LT_BANG_DASH_DASH", "COMMENT_END_DASH", "COMMENT_END", "COMMENT_END_BANG"}

Doctypes == {"DOCTYPE", "BEFORE_DOCTYPE_NAME", "DOCTYPE_NAME", "AFTER_DOCTYPE_NAME",
             "AFTER_DOCTYPE_PUBLIC_KEYWORD", "BEFORE_DOCTYPE_PUBLIC_ID",
             "DOCTYPE_PUBLIC_ID_DOUBLE_QUOTED", "DOCTYPE_PUBLIC_ID_SINGLE_QUOTED",
             "AFTER_DOCTYPE_PUBLIC_ID", "BETWEEN_DOCTYPE_PUBLIC_SYSTEM_ID",
             "AFTER_DOCTYPE_SYSTEM_KEYWORD", "BEFORE_DOCTYPE_SYSTEM_ID",
             "DOCTYPE_SYSTEM_ID_DOUBLE_QUOTED", "DOCTYPE_SYSTEM_ID_SINGLE_QUOTED",
             "AFTER_DOCTYPE_SYSTEM_ID", "BOGUS_DOCTYPE"}

CDatas == {"CDATA_SECTION", "CDATA_SECTION_BRACKET", "CDATA_SECTION_END"}

References == {"CHARACTER_REFERENCE", "NAMED_CHARACTER_REFERENCE", "AMBIGUOUS_AMPERSAND",
               "NUMERIC_CHARACTER_REFERENCE", "HEXADECIMAL_CHARACTER_REFERENCE_START",
               "DECIMAL_CHARACTER_REFERENCE_START", "HEXADECIMAL_CHARACTER_REFERENCE",
               "DECIMAL_CHARACTER_REFERENCE", "NUMERIC_CHARACTER_REFERENCE_END"}

(* dispatch_table, family by family *)
LexText(s, c) ==
  CASE s.state = "DATA"        -> handle_data_state(s, c)
    [] s.state = "RCDATA"      -> handle_rcdata_state(s, c)
    [] s.state = "RAWTEXT"     -> handle_rawtext_state(s, c)
    [] s.state = "SCRIPT_DATA" -> handle_script_data_state(s, c)
    [] s.state = "PLAINTEXT"   -> handle_plaintext_state(s, c)

LexEndTag(s, c) ==
  CASE s.state = "RCDATA_LT"                -> handle_rcdata_lt_state(s, c)
    [] s.state = "RCDATA_END_TAG_OPEN"      -> handle_rcdata_end_tag_open_state(s, c)
    [] s.state = "RCDATA_END_TAG_NAME"      -> handle_rcdata_end_tag_name_state(s, c)
    [] s.state = "RAWTEXT_LT"               -> handle_rawtext_lt_state(s, c)
    [] s.state = "RAWTEXT_END_TAG_OPEN"     -> handle_rawtext_end_tag_open_state(s, c)
    [] s.state = "RAWTEXT_END_TAG_NAME"     -> handle_rawtext_end_tag_name_state(s, c)
    [] s.state = "SCRIPT_DATA_LT"           -> handle_script_data_lt_state(s, c)
    [] s.state = "SCRIPT_DATA_END_TAG_OPEN" -> handle_script_data_end_tag_open_state(s, c)
    [] s.state = "SCRIPT_DATA_END_TAG_NAME" -> handle_script_data_end_tag_name_state(s, c)

LexScript(s, c) ==
  CASE s.state = "SCRIPT_DATA_ESCAPED_START" -> handle_script_data_escaped_start_state(s, c)
    [] s.state = "SCRIPT_DATA_ESCAPED_START_DASH" ->
         handle_script_data_escaped_start_dash_state(s, c)
    [] s.state = "SCRIPT_DATA_ESCAPED" -> handle_script_data_escaped_state(s, c)
    [] s.state = "SCRIPT_DATA_ESCAPED_DASH" -> handle_script_data_escaped_dash_state(s, c)
    [] s.state = "SCRIPT_DATA_ESCAPED_DASH_DASH" ->
         handle_script_data_escaped_dash_dash_state(s, c)
    [] s.state = "SCRIPT_DATA_ESCAPED_LT" -> handle_script_data_escaped_lt_state(s, c)
    [] s.state = "SCRIPT_DATA_ESCAPED_END_TAG_OPEN" ->
         handle_script_data_escaped_end_tag_open_state(s, c)
    [] s.state = "SCRIPT_DATA_ESCAPED_END_TAG_NAME" ->
         handle_script_data_escaped_end_tag_name_state(s, c)
    [] s.state = "SCRIPT_DATA_DOUBLE_ESCAPED_START" ->
         handle_script_data_double_escaped_start_state(s, c)
    [] s.state = "SCRIPT_DATA_DOUBLE_ESCAPED" -> handle_script_data_double_escaped_state(s, c)
    [] s.state = "SCRIPT_DATA_DOUBLE_ESCAPED_DASH" ->
         handle_script_data_double_escaped_dash_state(s, c)
    [] s.state = "SCRIPT_DATA_DOUBLE_ESCAPED_DASH_DASH" ->
         handle_script_data_double_escaped_dash_dash_state(s, c)
    [] s.state = "SCRIPT_DATA_DOUBLE_ESCAPED_LT" ->
         handle_script_data_double_escaped_lt_state(s, c)
    [] s.state = "SCRIPT_DATA_DOUBLE_ESCAPED_END" ->
         handle_script_data_double_escaped_end_state(s, c)

LexTag(s, c) ==
  CASE s.state = "TAG_OPEN"                 -> handle_tag_open_state(s, c)
    [] s.state = "END_TAG_OPEN"             -> handle_end_tag_open_state(s, c)
    [] s.state = "TAG_NAME"                 -> handle_tag_name_state(s, c)
    [] s.state = "BEFORE_ATTR_NAME"         -> handle_before_attr_name_state(s, c)
    [] s.state = "ATTR_NAME"                -> handle_attr_name_state(s, c)
    [] s.state = "AFTER_ATTR_NAME"          -> handle_after_attr_name_state(s, c)
    [] s.state = "BEFORE_ATTR_VALUE"        -> handle_before_attr_value_state(s, c)
    [] s.state = "ATTR_VALUE_DOUBLE_QUOTED" -> handle_attr_value_double_quoted_state(s, c)
    [] s.state = "ATTR_VALUE_SINGLE_QUOTED" -> handle_attr_value_single_quoted_state(s, c)
    [] s.state = "ATTR_VALUE_UNQUOTED"      -> handle_attr_value_unquoted_state(s, c)
    [] s.state = "AFTER_ATTR_VALUE_QUOTED"  -> handle_after_attr_value_quoted_state(s, c)
    [] s.state = "SELF_CLOSING_START_TAG"   -> handle_self_closing_start_tag_state(s, c)

LexComment(s, c) ==
  CASE s.state = "MARKUP_DECLARATION_OPEN"   -> handle_markup_declaration_open_state(s, c)
    [] s.state = "BOGUS_COMMENT"             -> handle_bogus_comment_state(s, c)
    [] s.state = "COMMENT_START"             -> handle_comment_start_state(s, c)
    [] s.state = "COMMENT_START_DASH"        -> handle_comment_start_dash_state(s, c)
    [] s.state = "COMMENT"                   -> handle_comment_state(s, c)
    [] s.state = "COMMENT_LT"                -> handle_comment_lt_state(s, c)
    [] s.state = "COMMENT_LT_BANG"           -> handle_comment_lt_bang_state(s, c)
    [] s.state = "COMMENT_LT_BANG_DASH"      -> handle_comment_lt_bang_dash_state(s, c)
    [] s.state = "COMMENT_LT_BANG_DASH_DASH" -> handle_comment_lt_bang_dash_dash_state(s, c)
    [] s.state = "COMMENT_END_DASH"          -> handle_comment_end_dash_state(s, c)
    [] s.state = "COMMENT_END"               -> handle_comment_end_state(s, c)
    [] s.state = "COMMENT_END_BANG"          -> handle_comment_end_bang_state(s, c)

LexDoctype(s, c) ==
  CASE s.state = "DOCTYPE"             -> handle_doctype_state(s, c)
    [] s.state = "BEFORE_DOCTYPE_NAME" -> handle_before_doctype_name_state(s, c)
    [] s.state = "DOCTYPE_NAME"        -> handle_doctype_name_state(s, c)
    [] s.state = "AFTER_DOCTYPE_NAME"  -> handle_after_doctype_name_state(s, c)
    [] s.state = "AFTER_DOCTYPE_PUBLIC_KEYWORD" -> handle_after_doctype_public_keyword_state(s, c)
    [] s.state = "BEFORE_DOCTYPE_PUBLIC_ID" -> handle_before_doctype_public_id_state(s, c)
    [] s.state = "DOCTYPE_PUBLIC_ID_DOUBLE_QUOTED" ->
         handle_doctype_public_id_quoted_state(s, c, "\"")
    [] s.state = "DOCTYPE_PUBLIC_ID_SINGLE_QUOTED" ->
         handle_doctype_public_id_quoted_state(s, c, "'")
    [] s.state = "AFTER_DOCTYPE_PUBLIC_ID" -> handle_after_doctype_public_id_state(s, c)
    [] s.state = "BETWEEN_DOCTYPE_PUBLIC_SYSTEM_ID" ->
         handle_between_doctype_public_system_id_state(s, c)
    [] s.state = "AFTER_DOCTYPE_SYSTEM_KEYWORD" -> handle_after_doctype_system_keyword_state(s, c)
    [] s.state = "BEFORE_DOCTYPE_SYSTEM_ID" -> handle_before_doctype_system_id_state(s, c)
    [] s.state = "DOCTYPE_SYSTEM_ID_DOUBLE_QUOTED" ->
         handle_doctype_system_id_quoted_state(s, c, "\"")
    [] s.state = "DOCTYPE_SYSTEM_ID_SINGLE_QUOTED" ->
         handle_doctype_system_id_quoted_state(s, c, "'")
    [] s.state = "AFTER_DOCTYPE_SYSTEM_ID" -> handle_after_doctype_system_id_state(s, c)
    [] s.state = "BOGUS_DOCTYPE" -> handle_bogus_doctype_state(s, c)

LexCData(s, c) ==
  CASE s.state = "CDATA_SECTION"         -> handle_cdata_section_state(s, c)
    [] s.state = "CDATA_SECTION_BRACKET" -> handle_cdata_section_bracket_state(s, c)
    [] s.state = "CDATA_SECTION_END"     -> handle_cdata_section_end_state(s, c)

LexReference(s, c) ==
  CASE s.state = "CHARACTER_REFERENCE" -> handle_character_reference_state(s, c)
    [] s.state = "NAMED_CHARACTER_REFERENCE" -> handle_named_character_reference_state(s, c)
    [] s.state = "AMBIGUOUS_AMPERSAND" -> handle_ambiguous_ampersand_state(s, c)
    [] s.state = "NUMERIC_CHARACTER_REFERENCE" -> handle_numeric_character_reference_state(s, c)
    [] s.state = "HEXADECIMAL_CHARACTER_REFERENCE_START" ->
         handle_hexadecimal_character_reference_start_state(s, c)
    [] s.state = "DECIMAL_CHARACTER_REFERENCE_START" ->
         handle_decimal_character_reference_start_state(s, c)
    [] s.state = "HEXADECIMAL_CHARACTER_REFERENCE" ->
         handle_hexadecimal_character_reference_state(s, c)
    [] s.state = "DECIMAL_CHARACTER_REFERENCE" -> handle_decimal_character_reference_state(s, c)
    [] s.state = "NUMERIC_CHARACTER_REFERENCE_END" ->
         handle_numeric_character_reference_end_state(s, c)

Done == t.emitted /\ t.out[Len(t.out)].type = "EOF"

\* The end of an iteration of gumbo_lex: unless the handler emitted or asked
\* to reconsume, the input advances.
Advanced(s) ==
  IF s.emitted \/ s.reconsume THEN [s EXCEPT !.reconsume = FALSE]
  ELSE utf8iterator_next(s)

Lexing(states) == /\ ~t.emitted
                  /\ t.buffered = NoChar
                  /\ t.resume = 0 \/ t.pos >= t.resume
                  /\ t.state \in states

Lex(s) == [s EXCEPT !.resume = 0]

Step(handled) == /\ t' = Advanced(handled)
                 /\ UNCHANGED text

BufferedCharacter ==
  /\ ~t.emitted /\ t.buffered # NoChar
  /\ t' = [emit_char([t EXCEPT !.reconsume = TRUE], t.buffered)
           EXCEPT !.reconsume = FALSE, !.buffered = NoChar]
  /\ UNCHANGED text

FromMark == /\ ~t.emitted /\ t.buffered = NoChar
            /\ t.resume # 0 /\ t.pos < t.resume
            /\ t' = maybe_emit_from_mark(t)
            /\ UNCHANGED text

Text      == Lexing(Texts)      /\ Step(LexText(Lex(t), Current(t)))
EndTag    == Lexing(EndTags)    /\ Step(LexEndTag(Lex(t), Current(t)))
Script    == Lexing(Scripts)    /\ Step(LexScript(Lex(t), Current(t)))
TagPart   == Lexing(Tags)       /\ Step(LexTag(Lex(t), Current(t)))
Comment   == Lexing(Comments)   /\ Step(LexComment(Lex(t), Current(t)))
Doctype   == Lexing(Doctypes)   /\ Step(LexDoctype(Lex(t), Current(t)))
CData     == Lexing(CDatas)     /\ Step(LexCData(Lex(t), Current(t)))
Reference == Lexing(References) /\ Step(LexReference(Lex(t), Current(t)))

\* The state in which the contents of an element are read.
ContentState(name) ==
  CASE name = <<"title">>     -> "RCDATA"
    [] name = <<"style">>     -> "RAWTEXT"
    [] name = <<"script">>    -> "SCRIPT_DATA"
    [] name = <<"plaintext">> -> "PLAINTEXT"
    [] OTHER                  -> "DATA"

\* The tree construction has handled the token. It may have ignored the tag of
\* such an element. It also says whether the current node is a foreign one.
Construct ==
  /\ t.emitted /\ ~Done
  /\ LET token == t.out[Len(t.out)]
         tag   == token.type \in {"START_TAG", "END_TAG"}
     IN  \E state \in {t.state} \cup (IF token.type = "START_TAG"
                                      THEN {ContentState(token.value.name)} ELSE {}),
            foreign \in {t.foreign} \cup (IF tag /\ <<"svg">> = token.value.name
                                          THEN {token.type = "START_TAG"} ELSE {}) :
           t' = [t EXCEPT !.emitted = FALSE, !.state = state, !.foreign = foreign,
                          !.content = IF token.type = "START_TAG"
                                      THEN [from |-> t.pos, state |-> state, name |-> t.last]
                                      ELSE @]
  /\ UNCHANGED text

Next == \/ BufferedCharacter
        \/ FromMark
        \/ Text
        \/ EndTag
        \/ Script
        \/ TagPart
        \/ Comment
        \/ Doctype
        \/ CData
        \/ Reference
        \/ Construct

vars == <<text, t>>

\* A fragment is read in the state of its context, which no tag has opened.
InitWith(documents, states) ==
  /\ text \in documents
  /\ \E state \in states :
       t = [gumbo_tokenizer_state_init EXCEPT !.state = state, !.content.state = state]

\* any text, read as a document or in any of the states of a context
Symbols == STRING \ {EOF}

Init == InitWith(Seq(Symbols), Texts)

Spec == Init /\ [][Next]_vars

(* ------------------------------ Properties ------------------------------- *)

TypeOK ==
  /\ t.state \in UNION {Texts, EndTags, Scripts, Tags, Comments, Doctypes, CDatas, References}
  /\ {t.pos, t.mark, t.start} \subseteq 1..(Len(text) + 1)
  /\ t.resume \in 0..(Len(text) + 1)
  /\ t.code \in 0..(MaxChar + 1)
  /\ t.start <= t.pos

\* The assertions of tokenizer.c hold: names begin with a letter, no tag or
\* doctype is abandoned with its strings, the text of a tag is between < and >,
\* nothing is reconsumed while the mark is emitted, and an attribute's value
\* has an attribute. After any token the tokenizer may be destroyed.
AssertionsHold == ~t.failed /\ (t.emitted => gumbo_tokenizer_state_destroy(t))

BuildsTag == {"TAG_NAME", "RCDATA_END_TAG_NAME", "RAWTEXT_END_TAG_NAME",
              "SCRIPT_DATA_END_TAG_NAME", "SCRIPT_DATA_ESCAPED_END_TAG_NAME"} \cup Attributes

\* The buffers of a tag are allocated exactly while a tag is read, the strings
\* of a doctype while a doctype is: nothing leaks and nothing is freed twice,
\* however the tag or the doctype ends.
OwnsWhatItBuilds ==
  /\ t.tag.open = t.tag.listed
  /\ t.tag.open <=> /\ ~t.emitted
                    /\ \/ t.state \in BuildsTag
                       \/ t.state \in References /\ character_reference_part_of_attribute(t)
  /\ t.doctype.owned <=> ~t.emitted /\ t.state \in Doctypes

Characters == {"CHARACTER", "WHITESPACE", "NULL", "CDATA"}

\* every symbol is in an occurrence of one of the words
MadeOf(seq, words) ==
  \A k \in DOMAIN seq : \E word \in words, i \in DOMAIN seq :
     /\ i <= k /\ k < i + Len(word)
     /\ Begins(word, SubSeq(seq, i, Len(seq)))

Dropped == {<<"<", "/", ">">>}
Brackets == {<<"<", "!", "[CDATA[">>, <<"]", "]", ">">>}

ReadOnce(token) ==
  token.to = token.at + 1 =>
    /\ token.from <= token.at
    /\ token.value = IF text[token.at] = NUL /\ token.type # "NULL" THEN REPL ELSE text[token.at]
    /\ MadeOf(SubSeq(text, token.from, token.at - 1), Dropped)

ReadAsReference(token) ==
  token.to = token.at /\ token.type # "EOF" /\ token.from < token.to =>
    \E i \in token.from..(token.to - 1) :
       /\ text[i] = "&"
       /\ MadeOf(SubSeq(text, token.from, i - 1), Dropped)

\* What is text is emitted once, in order, whatever the tokenizer took it for
\* at first: a character token is about one character or one reference, the
\* tokens follow each other without a gap, and only </> and the brackets of
\* a CDATA section belong to no token.
EveryCharacterOnce ==
  /\ \A i \in DOMAIN t.out :
       t.out[i].type \in Characters => ReadOnce(t.out[i]) /\ ReadAsReference(t.out[i])
  /\ \A i \in 1..(Len(t.out) - 1) :
       /\ t.out[i].to <= t.out[i + 1].from
       /\ MadeOf(SubSeq(text, t.out[i].to, t.out[i + 1].from - 1), Dropped \cup Brackets)

Shown(seq) == [i \in DOMAIN seq |-> IF seq[i] = NUL THEN REPL ELSE seq[i]]

IsAt(word, k) == k >= 1 /\ k + Len(word) - 1 <= Len(text) /\ SubSeq(text, k, k + Len(word) - 1) = word

Least(S) == CHOOSE k \in S : \A other \in S : k <= other

\* where the comment that starts at from ends: at -->, at --!>, at once, or
\* with the text, of which dashes at the very end are not a part
CommentEnds(from) ==
  {k \in from..(Len(text) + 1) :
     \/ IsAt(<<"-", "-", ">">>, k) \/ IsAt(<<"-", "-", "!", ">">>, k)
     \/ k = from /\ (IsAt(<<">">>, k) \/ IsAt(<<"-", ">">>, k))
     \/ SubSeq(text, k, Len(text)) \in {<<>>, <<"-">>, <<"-", "-">>, <<"-", "-", "!">>}}

BogusEnds(from) == {k \in from..(Len(text) + 1) : k = Len(text) + 1 \/ text[k] = ">"}

\* where markup starts in the text of a token: after what was dropped
Markup(token) == Least({i \in token.from..Len(text) :
                          (i - token.from) % 3 = 0 /\ ~IsAt(<<"<", "/", ">">>, i)})

CommentText(start) ==
  CASE IsAt(<<"<", "!", "-", "-">>, start) ->
         SubSeq(text, start + 4, Least(CommentEnds(start + 4)) - 1)
    [] IsAt(<<"<", "?">>, start) -> SubSeq(text, start + 1, Least(BogusEnds(start + 1)) - 1)
    [] OTHER -> SubSeq(text, start + 2, Least(BogusEnds(start + 2)) - 1)

\* A comment has the text between its delimiters: nothing left in the
\* temporary buffer by what was read before, no dash too many or too few.
CommentsAgree ==
  \A i \in DOMAIN t.out :
    t.out[i].type = "COMMENT" => t.out[i].value = Shown(CommentText(Markup(t.out[i])))

Ends(word, k) == IsAt(word, k) /\ k + Len(word) <= Len(text) /\ text[k + Len(word)] \in {" ", "/", ">"}

\* in a script read from from, position k is after <!-- and before its -->
InEscaped(from, k) ==
  \E i \in from..(k - 1) : /\ IsAt(<<"<", "!", "-", "-">>, i) /\ i + 3 < k
                          /\ \A j \in (i + 2)..(k - 3) : ~IsAt(<<"-", "-", ">">>, j)

\* ... and there after <script> and before its </script>
InDouble(from, k) ==
  \E i \in from..(k - 1) :
    /\ Ends(<<"<", "script">>, i) /\ i + 2 < k /\ InEscaped(from, i)
    /\ \A j \in i..(k - 3) : ~IsAt(<<"-", "-", ">">>, j)
    /\ \A j \in i..(k - 4) : ~Ends(<<"<", "/", "script">>, j)

ContentEnd(c) ==
  Least({Len(text) + 1} \cup
        {k \in c.from..Len(text) : /\ c.name # <<>> /\ Ends(<<"<", "/">> \o c.name, k)
                                  /\ ~(c.state = "SCRIPT_DATA" /\ InDouble(c.from, k))})

\* The contents of title, style and script are text up to their own end tag,
\* which a script also hides between <!--<script> and </script> or -->: no
\* token lies across that place, only characters before it.
ElementContentIsText ==
  t.emitted /\ t.content.state \in {"RCDATA", "RAWTEXT", "SCRIPT_DATA"} =>
    LET token == t.out[Len(t.out)]
        end   == ContentEnd(t.content)
    IN  \/ token.type = "EOF" \/ token.from < t.content.from \/ token.from > end
        \/ token.type \in Characters /\ token.to <= end
        \/ token.type = "END_TAG" /\ token.from = end

\* A CDATA section is text up to the first ]]>, and none after it.
SectionsEnd ==
  \A i \in DOMAIN t.out :
    t.out[i].type = "CDATA" =>
      \E b \in 1..t.out[i].at :
        /\ IsAt(<<"<", "!", "[CDATA[">>, b) /\ b + 2 < t.out[i].at
        /\ \A e \in (b + 3)..t.out[i].at : ~IsAt(<<"]", "]", ">">>, e)

\* What is text by its place is text to its end, and markup after it: in the
\* elements whose contents are not parsed, and in CDATA sections.
ContentIsText == ElementContentIsText /\ SectionsEnd

\* A tag has no two attributes of one name, and not more than allowed.
AttributesDiffer ==
  \A i \in DOMAIN t.out :
    t.out[i].type = "START_TAG" =>
      LET attributes == t.out[i].value.attributes
      IN  Cardinality(Names(attributes)) = Len(attributes) /\ Len(attributes) <= MaxAttributes

\* Every text is read to its end: no handler reconsumes a character for ever,
\* and none waits for an end tag, a quote or a bracket that does not come.
ReadsToTheEnd == <>Done

=============================================================================
