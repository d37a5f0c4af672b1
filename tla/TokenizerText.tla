----------------------------- MODULE TokenizerText -----------------------------
(* The states in which gumbo_lex reads text: data, RCDATA, RAWTEXT, scripts    *)
(* with their escaped parts, CDATA sections and character references.  Each    *)
(* handler maps the tokenizer and the current character to the tokenizer.      *)
EXTENDS TokenizerState

\* mutant: the mark stays where it was
MarkIsNotSet(s, ltState) == gumbo_tokenizer_set_state(s, ltState)

Opens(s, ltState) == set_mark(gumbo_tokenizer_set_state(s, ltState))

StartsReference(s, from) ==
  [set_mark(gumbo_tokenizer_set_state(s, "CHARACTER_REFERENCE")) EXCEPT !.return = from]

handle_data_state(s, c) ==
  CASE c = "&" -> StartsReference(s, "DATA")
    [] c = "<" -> Opens(s, "TAG_OPEN")
    [] c = NUL -> emit_char(tokenizer_add_parse_error(s), c)
    [] OTHER   -> emit_char(s, c)

handle_rcdata_state(s, c) ==
  CASE c = "&" -> StartsReference(s, "RCDATA")
    [] c = "<" -> Opens(s, "RCDATA_LT")
    [] c = NUL -> emit_replacement_char(s)
    [] OTHER   -> emit_char(s, c)

handle_rawtext_state(s, c) ==
  CASE c = "<" -> Opens(s, "RAWTEXT_LT")
    [] c = NUL -> emit_replacement_char(s)
    [] OTHER   -> emit_char(s, c)

handle_script_data_state(s, c) ==
  CASE c = "<" -> Opens(s, "SCRIPT_DATA_LT")
    [] c = NUL -> emit_replacement_char(s)
    [] OTHER   -> emit_char(s, c)

handle_plaintext_state(s, c) ==
  IF c = NUL THEN emit_replacement_char(s) ELSE emit_char(s, c)

(* An end tag in RCDATA, RAWTEXT or a script ends the element only if it is   *)
(* appropriate; else it is emitted as text, from the mark.                    *)
Back(s, state) == emit_from_mark(reconsume_in_state(s, state))

LessThan(s, c, state, endTagOpen) ==
  IF c = "/" THEN gumbo_tokenizer_set_state(s, endTagOpen) ELSE Back(s, state)

EndTagOpen(s, c, state, endTagName) ==
  IF is_alpha(c) THEN start_new_tag(reconsume_in_state(s, endTagName), FALSE) ELSE Back(s, state)

\* mutant: the tag that was begun is not abandoned
EndTagIsForgotten(s, c, state) ==
  IF is_alpha(c) THEN append_to_tag_buffer(s, <<ensure_lowercase(c)>>)
  ELSE IF c = ">" /\ is_appropriate_end_tag(s)
  THEN emit_current_tag(gumbo_tokenizer_set_state(finish_tag_name(s), "DATA"))
  ELSE Back(s, state)

EndTagName(s, c, state) ==
  LET ends == is_appropriate_end_tag(s)
  IN  CASE is_alpha(c) -> append_to_tag_buffer(s, <<ensure_lowercase(c)>>)
        [] c \in Space /\ ends ->
             gumbo_tokenizer_set_state(finish_tag_name(s), "BEFORE_ATTR_NAME")
        [] c = "/" /\ ends ->
             gumbo_tokenizer_set_state(finish_tag_name(s), "SELF_CLOSING_START_TAG")
        [] c = ">" /\ ends ->
             emit_current_tag(gumbo_tokenizer_set_state(finish_tag_name(s), "DATA"))
        [] OTHER -> Back(abandon_current_tag(s), state)

handle_rcdata_lt_state(s, c) == LessThan(s, c, "RCDATA", "RCDATA_END_TAG_OPEN")
handle_rcdata_end_tag_open_state(s, c) == EndTagOpen(s, c, "RCDATA", "RCDATA_END_TAG_NAME")
handle_rcdata_end_tag_name_state(s, c) == EndTagName(s, c, "RCDATA")

handle_rawtext_lt_state(s, c) == LessThan(s, c, "RAWTEXT", "RAWTEXT_END_TAG_OPEN")
handle_rawtext_end_tag_open_state(s, c) == EndTagOpen(s, c, "RAWTEXT", "RAWTEXT_END_TAG_NAME")
handle_rawtext_end_tag_name_state(s, c) == EndTagName(s, c, "RAWTEXT")

handle_script_data_lt_state(s, c) ==
  IF c = "!"
  THEN Back(utf8iterator_next(s), "SCRIPT_DATA_ESCAPED_START")
  ELSE LessThan(s, c, "SCRIPT_DATA", "SCRIPT_DATA_END_TAG_OPEN")
handle_script_data_end_tag_open_state(s, c) ==
  EndTagOpen(s, c, "SCRIPT_DATA", "SCRIPT_DATA_END_TAG_NAME")
handle_script_data_end_tag_name_state(s, c) == EndTagName(s, c, "SCRIPT_DATA")

(* <!-- in a script: escaped, until -->; <script> in there: double escaped.   *)
handle_script_data_escaped_start_state(s, c) ==
  IF c = "-"
  THEN emit_char(gumbo_tokenizer_set_state(s, "SCRIPT_DATA_ESCAPED_START_DASH"), c)
  ELSE reconsume_in_state(s, "SCRIPT_DATA")

handle_script_data_escaped_start_dash_state(s, c) ==
  IF c = "-"
  THEN emit_char(gumbo_tokenizer_set_state(s, "SCRIPT_DATA_ESCAPED_DASH_DASH"), c)
  ELSE reconsume_in_state(s, "SCRIPT_DATA")

EscapedLessThan(s) == clear_temporary_buffer(Opens(s, "SCRIPT_DATA_ESCAPED_LT"))

\* a character of an escaped script, after which the tokenizer is in state next
Escaped(s, c, next) ==
  CASE c = NUL -> emit_replacement_char(gumbo_tokenizer_set_state(s, next))
    [] c = EOF -> emit_eof(tokenizer_add_parse_error(s))
    [] OTHER   -> emit_char(gumbo_tokenizer_set_state(s, next), c)

handle_script_data_escaped_state(s, c) ==
  CASE c = "<" -> EscapedLessThan(s)
    [] OTHER   -> Escaped(s, c, IF c = "-" THEN "SCRIPT_DATA_ESCAPED_DASH"
                                ELSE "SCRIPT_DATA_ESCAPED")

handle_script_data_escaped_dash_state(s, c) ==
  CASE c = "<" -> EscapedLessThan(s)
    [] OTHER   -> Escaped(s, c, IF c = "-" THEN "SCRIPT_DATA_ESCAPED_DASH_DASH"
                                ELSE "SCRIPT_DATA_ESCAPED")

handle_script_data_escaped_dash_dash_state(s, c) ==
  CASE c = "<" -> EscapedLessThan(s)
    [] c = ">" -> emit_char(gumbo_tokenizer_set_state(s, "SCRIPT_DATA"), c)
    [] OTHER   -> Escaped(s, c, IF c = "-" THEN "SCRIPT_DATA_ESCAPED_DASH_DASH"
                                ELSE "SCRIPT_DATA_ESCAPED")

handle_script_data_escaped_lt_state(s, c) ==
  LET a == assert(s, temporary_buffer_is_empty(s))
  IN  IF is_alpha(c) THEN Back(a, "SCRIPT_DATA_DOUBLE_ESCAPED_START")
      ELSE LessThan(a, c, "SCRIPT_DATA_ESCAPED", "SCRIPT_DATA_ESCAPED_END_TAG_OPEN")

handle_script_data_escaped_end_tag_open_state(s, c) ==
  EndTagOpen(s, c, "SCRIPT_DATA_ESCAPED", "SCRIPT_DATA_ESCAPED_END_TAG_NAME")
handle_script_data_escaped_end_tag_name_state(s, c) == EndTagName(s, c, "SCRIPT_DATA_ESCAPED")

\* kScriptTag
IsScript(s) == s.tmp = <<"script">>

DoubleEscape(s, c, inside, outside, otherwise) ==
  CASE c \in Space \cup {"/", ">"} ->
         emit_char(gumbo_tokenizer_set_state(s, IF IsScript(s) THEN inside ELSE outside), c)
    [] is_alpha(c) -> emit_char(append_to_temporary_buffer(s, <<ensure_lowercase(c)>>), c)
    [] OTHER       -> reconsume_in_state(s, otherwise)

handle_script_data_double_escaped_start_state(s, c) ==
  DoubleEscape(s, c, "SCRIPT_DATA_DOUBLE_ESCAPED", "SCRIPT_DATA_ESCAPED", "SCRIPT_DATA_ESCAPED")

handle_script_data_double_escaped_state(s, c) ==
  Escaped(s, c, CASE c = "-" -> "SCRIPT_DATA_DOUBLE_ESCAPED_DASH"
                  [] c = "<" -> "SCRIPT_DATA_DOUBLE_ESCAPED_LT"
                  [] OTHER   -> "SCRIPT_DATA_DOUBLE_ESCAPED")

handle_script_data_double_escaped_dash_state(s, c) ==
  Escaped(s, c, CASE c = "-" -> "SCRIPT_DATA_DOUBLE_ESCAPED_DASH_DASH"
                  [] c = "<" -> "SCRIPT_DATA_DOUBLE_ESCAPED_LT"
                  [] OTHER   -> "SCRIPT_DATA_DOUBLE_ESCAPED")

handle_script_data_double_escaped_dash_dash_state(s, c) ==
  Escaped(s, c, CASE c = "-" -> "SCRIPT_DATA_DOUBLE_ESCAPED_DASH_DASH"
                  [] c = "<" -> "SCRIPT_DATA_DOUBLE_ESCAPED_LT"
                  [] c = ">" -> "SCRIPT_DATA"
                  [] OTHER   -> "SCRIPT_DATA_DOUBLE_ESCAPED")

\* mutant: the buffer still has the name of the start tag
NameIsKept(s, c) ==
  IF c = "/"
  THEN emit_char(gumbo_tokenizer_set_state(s, "SCRIPT_DATA_DOUBLE_ESCAPED_END"), c)
  ELSE reconsume_in_state(s, "SCRIPT_DATA_DOUBLE_ESCAPED")

handle_script_data_double_escaped_lt_state(s, c) ==
  IF c = "/"
  THEN emit_char(clear_temporary_buffer(
                   gumbo_tokenizer_set_state(s, "SCRIPT_DATA_DOUBLE_ESCAPED_END")), c)
  ELSE reconsume_in_state(s, "SCRIPT_DATA_DOUBLE_ESCAPED")

handle_script_data_double_escaped_end_state(s, c) ==
  DoubleEscape(s, c, "SCRIPT_DATA_ESCAPED", "SCRIPT_DATA_DOUBLE_ESCAPED",
               "SCRIPT_DATA_DOUBLE_ESCAPED")

(* CDATA sections *)
handle_cdata_section_state(s, c) ==
  CASE c = "]" -> Opens(s, "CDATA_SECTION_BRACKET")
    [] c = EOF -> emit_eof(tokenizer_add_parse_error(s))
    [] OTHER   -> emit_char(s, c)

handle_cdata_section_bracket_state(s, c) ==
  IF c = "]" THEN gumbo_tokenizer_set_state(s, "CDATA_SECTION_END") ELSE Back(s, "CDATA_SECTION")

\* mutant: after three brackets the second is emitted from the mark too
BracketsFromMark(s, c) ==
  CASE c = "]" -> emit_from_mark(gumbo_tokenizer_set_state(s, "CDATA_SECTION"))
    [] c = ">" -> [reconsume_in_state(reset_token_start_point(utf8iterator_next(s)), "DATA")
                   EXCEPT !.cdata = FALSE]
    [] OTHER   -> Back(s, "CDATA_SECTION")

\* After three brackets the first is emitted, and the second is read again.
handle_cdata_section_end_state(s, c) ==
  CASE c = "]" -> set_mark([emit_from_mark(gumbo_tokenizer_set_state(s, "CDATA_SECTION"))
                            EXCEPT !.resume = 0])
    [] c = ">" -> [reconsume_in_state(reset_token_start_point(utf8iterator_next(s)), "DATA")
                   EXCEPT !.cdata = FALSE]
    [] OTHER   -> Back(s, "CDATA_SECTION")

(* Character references *)
character_reference_part_of_attribute(s) ==
  s.return \in {"ATTR_VALUE_DOUBLE_QUOTED", "ATTR_VALUE_SINGLE_QUOTED", "ATTR_VALUE_UNQUOTED"}

flush_code_points_consumed_as_character_reference(s) ==
  IF character_reference_part_of_attribute(s)
  THEN append_to_tag_buffer(s, SubSeq(text, s.mark, s.pos - 1))
  ELSE emit_from_mark(s)

flush_char_ref(s, first, second) ==
  IF character_reference_part_of_attribute(s)
  THEN append_to_tag_buffer(s, IF second = NoChar THEN <<first>> ELSE <<first, second>>)
  ELSE emit_char([s EXCEPT !.buffered = second], first)

handle_character_reference_state(s, c) ==
  CASE c \in Alnum -> reconsume_in_state(s, "NAMED_CHARACTER_REFERENCE")
    [] c = "#"     -> gumbo_tokenizer_set_state(s, "NUMERIC_CHARACTER_REFERENCE")
    [] OTHER       -> flush_code_points_consumed_as_character_reference(
                        reconsume_in_state(s, s.return))

Named(name, first, second) == [name |-> name, first |-> first, second |-> second]

\* The names in the table that the words can form: with and without a semicolon,
\* one that begins another, and one of two code points.
NamedReferences ==
  { Named(<<"amp">>, "U+26", NoChar),      Named(<<"amp", ";">>, "U+26", NoChar),
    Named(<<"not">>, "U+AC", NoChar),      Named(<<"not", ";">>, "U+AC", NoChar),
    Named(<<"not", "in", ";">>, "U+2209", NoChar), Named(<<"b", "not", ";">>, "U+2310", NoChar),
    Named(<<"in", ";">>, "U+2208", NoChar), Named(<<"nGg", ";">>, "U+22D9", "U+338") }

NotNamed == Named(<<>>, NoChar, NoChar)

\* the longest name that the symbols begin with
match_named_char_ref(symbols) ==
  LET found == {reference \in NamedReferences : Begins(reference.name, symbols)}
  IN  IF found = {} THEN NotNamed
      ELSE CHOOSE reference \in found :
             \A other \in found : Len(other.name) <= Len(reference.name)

Advance(s, n) == [s EXCEPT !.pos = @ + n]     \* utf8iterator_maybe_consume_match

NamedReference(s, reference) ==
  LET name  == reference.name
      after == reconsume_in_state(Advance(s, Len(name)), s.return)
      complete == name[Len(name)] = ";"
  IN  IF /\ character_reference_part_of_attribute(s)
         /\ ~complete
         /\ Current(after) \in Alnum \cup {"="}
      THEN flush_code_points_consumed_as_character_reference(
             append_to_temporary_buffer(after, name))
      ELSE flush_char_ref(IF complete THEN after ELSE tokenizer_add_parse_error(after),
                          reference.first, reference.second)

handle_named_character_reference_state(s, c) ==
  LET reference == match_named_char_ref(Rest(s))
  IN  IF reference = NotNamed
      THEN flush_code_points_consumed_as_character_reference(
             reconsume_in_state(s, "AMBIGUOUS_AMPERSAND"))
      ELSE NamedReference(s, reference)

handle_ambiguous_ampersand_state(s, c) ==
  CASE c \in Alnum -> IF character_reference_part_of_attribute(s)
                      THEN append_to_tag_buffer(s, <<c>>) ELSE emit_char(s, c)
    [] c = ";"     -> reconsume_in_state(tokenizer_add_parse_error(s), s.return)
    [] OTHER       -> reconsume_in_state(s, s.return)

\* The digits of each symbol; the letters of a hexadecimal number count too.
DigitsOf(c) ==
  CASE c = "0" -> <<0>> [] c = "9" -> <<9>> [] c = "31" -> <<3, 1>> [] c = "65" -> <<6, 5>>
    [] c = "128" -> <<1, 2, 8>> [] c = "55296" -> <<5, 5, 2, 9, 6>>
    [] c = "1114112" -> <<1, 1, 1, 4, 1, 1, 2>>
    [] c = "11111111111" -> <<1, 1, 1, 1, 1, 1, 1, 1, 1, 1, 1>>
    [] c \in {"a", "A"} -> <<10>> [] c = "b" -> <<11>>

MaxChar == 1114111     \* kUtf8MaxChar

AddDigit(code, base, digit) ==
  IF code * base + digit > MaxChar THEN MaxChar + 1 ELSE code * base + digit

AddDigits(code, base, digits) ==
  LET sum[i \in 0..Len(digits)] == IF i = 0 THEN code ELSE AddDigit(sum[i - 1], base, digits[i])
  IN  sum[Len(digits)]

handle_numeric_character_reference_state(s, c) ==
  LET zero == [s EXCEPT !.code = 0]
  IN  IF c \in {"x", "X"}
      THEN gumbo_tokenizer_set_state(zero, "HEXADECIMAL_CHARACTER_REFERENCE_START")
      ELSE reconsume_in_state(zero, "DECIMAL_CHARACTER_REFERENCE_START")

HexDigits == Digits \cup {"a", "A", "b"}

NumberStart(s, c, digits, state) ==
  IF c \in digits THEN reconsume_in_state(s, state)
  ELSE flush_code_points_consumed_as_character_reference(
         reconsume_in_state(tokenizer_add_parse_error(s), s.return))

handle_hexadecimal_character_reference_start_state(s, c) ==
  NumberStart(s, c, HexDigits, "HEXADECIMAL_CHARACTER_REFERENCE")
handle_decimal_character_reference_start_state(s, c) ==
  NumberStart(s, c, Digits, "DECIMAL_CHARACTER_REFERENCE")

Number(s, c, digits, base) ==
  CASE c \in digits -> [s EXCEPT !.code = AddDigits(@, base, DigitsOf(c))]
    [] c = ";"      -> gumbo_tokenizer_set_state(s, "NUMERIC_CHARACTER_REFERENCE_END")
    [] OTHER        -> reconsume_in_state(tokenizer_add_parse_error(s),
                                          "NUMERIC_CHARACTER_REFERENCE_END")

handle_hexadecimal_character_reference_state(s, c) == Number(s, c, HexDigits, 16)
handle_decimal_character_reference_state(s, c) == Number(s, c, Digits, 10)

\* What windows-1252 has in the place of C1 controls.
Windows1252 ==
  (128 :> 8364 @@ 130 :> 8218 @@ 131 :> 402 @@ 132 :> 8222 @@ 133 :> 8230 @@ 134 :> 8224
   @@ 135 :> 8225 @@ 136 :> 710 @@ 137 :> 8240 @@ 138 :> 352 @@ 139 :> 8249 @@ 140 :> 338
   @@ 142 :> 381 @@ 145 :> 8216 @@ 146 :> 8217 @@ 147 :> 8220 @@ 148 :> 8221 @@ 149 :> 8226
   @@ 150 :> 8211 @@ 151 :> 8212 @@ 152 :> 732 @@ 153 :> 8482 @@ 154 :> 353 @@ 155 :> 8250
   @@ 156 :> 339 @@ 158 :> 382 @@ 159 :> 376)

utf8_is_surrogate(code) == code \in 55296..57343

utf8_is_noncharacter(code) == code \in 64976..65007 \/ code % 65536 \in {65534, 65535}

utf8_is_control(code) == code \in 0..30 \/ code \in 127..159

\* the code point that a number stands for
Referenced(code) ==
  CASE code = 0 \/ code > MaxChar \/ utf8_is_surrogate(code) -> 65533
    [] code \in DOMAIN Windows1252 -> Windows1252[code]
    [] OTHER -> code

IsBadReference(code) ==
  \/ code = 0 \/ code > MaxChar \/ utf8_is_surrogate(code) \/ utf8_is_noncharacter(code)
  \/ code = 13 \/ (utf8_is_control(code) /\ code \notin {9, 10, 12, 32})

CodePoint(code) == "&#" \o ToString(code)

handle_numeric_character_reference_end_state(s, c) ==
  LET r == reconsume_in_state(s, s.return)
  IN  flush_char_ref(IF IsBadReference(s.code) THEN tokenizer_add_parse_error(r) ELSE r,
                     CodePoint(Referenced(s.code)), NoChar)
=============================================================================
