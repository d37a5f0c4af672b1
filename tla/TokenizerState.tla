---------------------------- MODULE TokenizerState ----------------------------
(* What gumbo-parser/src/tokenizer.c keeps between two characters, and how it *)
(* emits: the current token, the tag and the doctype that are being built,    *)
(* and the mark, to which it returns when what looked like markup turns out   *)
(* to be text.                                                                *)
(*                                                                            *)
(* The text is a sequence of symbols.  A symbol is a character, or a word     *)
(* that the tokenizer compares as a whole ("script", "[CDATA[", "DOCTYPE").   *)
(* One space stands for the four characters of white space.  Positions are    *)
(* indices into the text: _start of the iterator.                             *)
EXTENDS Naturals, Sequences, FiniteSets, TLC

CONSTANTS MaxAttributes,   \* options->max_attributes
          LookupMinSize    \* GUMBO_ATTRIBUTES_LOOKUP_MIN_SIZE, 16 in the code

ASSUME LimitsAssumption == MaxAttributes \in Nat /\ LookupMinSize \in Nat

VARIABLES text,    \* the document
          t        \* GumboTokenizerState, and the tokens emitted so far

EOF  == "EOF"
NUL  == "NUL"
REPL == "U+FFFD"       \* kUtf8ReplacementChar
NoChar == "none"       \* kGumboNoChar, and NULL

Space  == {" "}
Digits == {"0", "9", "31", "65", "128", "55296", "1114112", "11111111111"}
Upper  == {"A", "X"}
Words  == {"script", "title", "style", "plaintext", "svg", "DOCTYPE", "PUBLIC",
           "SYSTEM", "amp", "not", "in", "nGg"}
Letters == {"a", "b", "x"} \cup Upper \cup Words
Alnum  == Letters \cup Digits

is_alpha(c) == c \in Letters

ensure_lowercase(c) ==
  CASE c = "A" -> "a" [] c = "X" -> "x"
    [] c = "DOCTYPE" -> "doctype" [] c = "PUBLIC" -> "public" [] c = "SYSTEM" -> "system"
    [] c = "nGg" -> "ngg" [] c = "[CDATA[" -> "[cdata["
    [] OTHER -> c

Current(s) == IF s.pos > Len(text) THEN EOF ELSE text[s.pos]

\* mutant: the end of the text is not looked at
PastTheEnd(s) == [s EXCEPT !.pos = @ + 1]

utf8iterator_next(s) == IF s.pos > Len(text) THEN s ELSE [s EXCEPT !.pos = @ + 1]

\* the symbols from the current one on
Rest(s) == SubSeq(text, s.pos, Len(text))

Begins(word, seq) == Len(word) <= Len(seq) /\ SubSeq(seq, 1, Len(word)) = word

assert(s, condition) == IF condition THEN s ELSE [s EXCEPT !.failed = TRUE]

tokenizer_add_parse_error(s) == [s EXCEPT !.errors = @ + 1]

gumbo_tokenizer_set_state(s, state) == [s EXCEPT !.state = state]

reconsume_in_state(s, state) == [s EXCEPT !.state = state, !.reconsume = TRUE]

(* The temporary buffer. *)
clear_temporary_buffer(s) == [s EXCEPT !.tmp = <<>>]

append_to_temporary_buffer(s, chars) == [s EXCEPT !.tmp = @ \o chars]

temporary_buffer_is_empty(s) == s.tmp = <<>>

(* Emission.  from and to delimit original_text; at is where the iterator     *)
(* stood, the place of the character itself.                                  *)
reset_token_start_point(s) == [s EXCEPT !.start = s.pos]

finish_token(s, type, value) ==
  LET after == IF s.reconsume THEN s ELSE utf8iterator_next(s)
  IN  [after EXCEPT !.out = Append(@, [type |-> type, value |-> value,
                                       from |-> s.start, to |-> after.pos, at |-> s.pos]),
                    !.start = after.pos,
                    !.emitted = TRUE]

\* the characters of white space, also when a number stands for them
WhiteSpace == Space \cup {"&#9", "&#10", "&#12", "&#13", "&#32"}

get_char_token_type(is_in_cdata, c) ==
  CASE is_in_cdata /\ c \notin {NUL, EOF} -> "CDATA"
    [] c \in WhiteSpace -> "WHITESPACE"
    [] c = NUL -> "NULL"
    [] c = EOF -> "EOF"
    [] OTHER -> "CHARACTER"

emit_char(s, c) == finish_token(s, get_char_token_type(s.cdata, c), c)

emit_replacement_char(s) == emit_char(tokenizer_add_parse_error(s), REPL)

emit_eof(s) == emit_char(s, EOF)

emit_comment(s) == finish_token(clear_temporary_buffer(s), "COMMENT", s.tmp)

NoDoctype == [owned |-> FALSE, name |-> <<>>, public |-> <<>>, system |-> <<>>,
              force_quirks |-> FALSE, has_public |-> FALSE, has_system |-> FALSE]

\* mutant: the strings stay with the tokenizer
DoctypeIsKept(s) == finish_token(s, "DOCTYPE", s.doctype)

emit_doctype(s) == [finish_token(s, "DOCTYPE", s.doctype) EXCEPT !.doctype = NoDoctype]

set_mark(s) == [s EXCEPT !.mark = s.pos]

maybe_emit_from_mark(s) ==
  IF s.resume = 0 THEN s
  ELSE IF s.pos >= s.resume THEN [s EXCEPT !.resume = 0]
  ELSE emit_char(assert(s, ~s.reconsume), Current(s))

Rewound(s) == [s EXCEPT !.resume = s.pos, !.pos = s.mark, !.reconsume = FALSE]

emit_from_mark(s) == LET r == maybe_emit_from_mark(Rewound(s)) IN assert(r, r.emitted)

(* The tag that is being built.  open says that the tag buffer is allocated,  *)
(* listed that the vector of attributes is.                                   *)
NoTag == [open |-> FALSE, listed |-> FALSE, buffer |-> <<>>, name |-> <<>>, attributes |-> <<>>,
          lookup |-> {}, looking |-> FALSE, drop |-> FALSE, is_start |-> FALSE,
          self_closing |-> FALSE]

start_new_tag(s, is_start_tag) ==
  [assert(s, is_alpha(Current(s)) /\ ~s.tag.open /\ ~s.tag.listed) EXCEPT
     !.tag = [NoTag EXCEPT !.open = TRUE, !.listed = TRUE, !.is_start = is_start_tag]]

abandon_current_tag(s) == [assert(s, s.tag.open) EXCEPT !.tag = NoTag]

append_to_tag_buffer(s, chars) == [s EXCEPT !.tag.buffer = @ \o chars]

reinitialize_tag_buffer(s) == [assert(s, s.tag.open) EXCEPT !.tag.buffer = <<>>]

finish_tag_name(s) == [reinitialize_tag_buffer(s) EXCEPT !.tag.name = s.tag.buffer]

\* gumbo_tagn_enum: all names that are not of HTML, SVG or MathML are one tag.
Tag(name) == IF name \in {<<"script">>, <<"title">>, <<"style">>, <<"plaintext">>, <<"a">>,
                          <<"b">>, <<"svg">>}
             THEN name ELSE <<"UNKNOWN">>

is_appropriate_end_tag(s) ==
  s.last # <<>> /\ s.last = Tag(s.tag.buffer)

TagToken(tag) == [name |-> tag.name, self_closing |-> tag.self_closing,
                  attributes |-> IF tag.is_start THEN tag.attributes ELSE <<>>]

\* what an end tag must not have
EndTagErrors(tag) ==
  {trait \in {"solidus", "attributes"} :
     /\ ~tag.is_start
     /\ IF trait = "solidus" THEN tag.self_closing ELSE tag.attributes # <<>>}

\* The assertions are about original_text.
emit_current_tag(s) ==
  LET tag  == s.tag
      done == finish_token([s EXCEPT !.tag = NoTag,
                                     !.errors = @ + Cardinality(EndTagErrors(tag)),
                                     !.last = IF tag.is_start THEN Tag(tag.name) ELSE @],
                           IF tag.is_start THEN "START_TAG" ELSE "END_TAG", TagToken(tag))
      from == s.start
      to   == done.pos
  IN  assert(done, tag.open /\ to - from >= 2 /\ text[from] = "<" /\ text[to - 1] = ">")

Names(attributes) == {attributes[i].name : i \in DOMAIN attributes}

TooMany(s) == Len(s.tag.attributes) >= MaxAttributes

\* the set of the names is built when the list grows long
WithLookup(tag) ==
  IF Len(tag.attributes) >= LookupMinSize /\ ~tag.looking
  THEN [tag EXCEPT !.looking = TRUE, !.lookup = Names(tag.attributes)]
  ELSE tag

IsDuplicate(tag) ==
  tag.buffer \in IF tag.looking THEN tag.lookup ELSE Names(tag.attributes)

\* mutants: the set of names is left as it was built; the flag is never reset
LookupIsBuiltOnce(tag) ==
  [tag EXCEPT !.attributes = Append(@, [name |-> tag.buffer, value |-> <<>>]), !.drop = FALSE]
ValuesStayDropped(tag) ==
  [tag EXCEPT !.attributes = Append(@, [name |-> tag.buffer, value |-> <<>>]),
              !.lookup = IF tag.looking THEN @ \cup {tag.buffer} ELSE @]

AddAttribute(tag) ==
  [tag EXCEPT !.attributes = Append(@, [name |-> tag.buffer, value |-> <<>>]),
              !.lookup = IF tag.looking THEN @ \cup {tag.buffer} ELSE @,
              !.drop = FALSE]

finish_attribute_name(s) ==
  LET tag == WithLookup(s.tag)
  IN  IF TooMany(s)
      THEN [reinitialize_tag_buffer(s) EXCEPT !.tag.drop = TRUE, !.too_many = TRUE]
      ELSE reinitialize_tag_buffer(
             [assert(s, tag.listed) EXCEPT
                !.tag = IF IsDuplicate(tag) THEN [tag EXCEPT !.drop = TRUE] ELSE AddAttribute(tag),
                !.errors = IF IsDuplicate(tag) THEN @ + 1 ELSE @])

\* _attributes.data[_attributes.length - 1] is read without a check.
finish_attribute_value(s) ==
  LET last == Len(s.tag.attributes)
  IN  reinitialize_tag_buffer(
        IF s.tag.drop THEN [s EXCEPT !.tag.drop = FALSE]
        ELSE IF last = 0 THEN assert(s, FALSE)
        ELSE [s EXCEPT !.tag.attributes[last].value = s.tag.buffer])

gumbo_tokenizer_state_init ==
  [ pos |-> 1, mark |-> 1, resume |-> 0, start |-> 1, state |-> "DATA", return |-> "DATA",
    reconsume |-> FALSE, buffered |-> NoChar, code |-> 0, foreign |-> FALSE, cdata |-> FALSE,
    tmp |-> <<>>, tag |-> NoTag, last |-> <<>>, doctype |-> NoDoctype, too_many |-> FALSE,
    out |-> <<>>, emitted |-> FALSE, errors |-> 0, failed |-> FALSE,
    content |-> [from |-> 1, state |-> "DATA", name |-> <<>>] ]

\* what gumbo_tokenizer_state_destroy asserts
gumbo_tokenizer_state_destroy(s) == ~s.doctype.owned /\ ~s.tag.listed
=============================================================================
