------------------------ MODULE TokenizerContentProofs ------------------------
(* Where the contents of title, style and script end, and CDATA sections, for  *)
(* every text.  First the invariant: what the state says of the text behind the *)
(* tokenizer.  Then what each operation and each group of states does to it, on *)
(* top of the invariant of TokenizerProofs, and the theorem.                   *)
EXTENDS TokenizerProofs

(* ------------------------------ The invariant ------------------------------ *)

\* the contents that are text
Hidden == {"RCDATA", "RAWTEXT", "SCRIPT_DATA"}

\* place k of the text is where the contents c end, if they did not before
EndsContents(c, k) ==
  /\ k \in c.from .. Len(text) /\ c.name # <<>> /\ Ends(<<"<", "/">> \o c.name, k)
  /\ ~(c.state = "SCRIPT_DATA" /\ InDouble(c.from, k))

\* the contents do not end before p
OpenUpTo(c, p) == \A k \in c.from .. p - 1 : ~EndsContents(c, k)

\* Up to here the state has read: after a mark that was returned to, up to resume.
ReadTo(s) == IF s.resume # 0 THEN s.resume ELSE s.pos

\* the states of the contents, in which everything behind is emitted
Emitting(kind) ==
  CASE kind = "RCDATA"  -> {"RCDATA"}
    [] kind = "RAWTEXT" -> {"RAWTEXT"}
    [] kind = "SCRIPT_DATA" -> {"SCRIPT_DATA"} \cup (Scripts \cap Plain)

\* the states that a < leads to, in which it may begin an end tag
LtStates == {"RCDATA_LT", "RAWTEXT_LT", "SCRIPT_DATA_LT", "SCRIPT_DATA_ESCAPED_LT"}
Marking(kind) ==
  CASE kind = "RCDATA"  -> {"RCDATA_LT", "RCDATA_END_TAG_OPEN", "RCDATA_END_TAG_NAME"}
    [] kind = "RAWTEXT" -> {"RAWTEXT_LT", "RAWTEXT_END_TAG_OPEN", "RAWTEXT_END_TAG_NAME"}
    [] kind = "SCRIPT_DATA" ->
         {"SCRIPT_DATA_LT", "SCRIPT_DATA_END_TAG_OPEN", "SCRIPT_DATA_END_TAG_NAME",
          "SCRIPT_DATA_ESCAPED_LT", "SCRIPT_DATA_ESCAPED_END_TAG_OPEN",
          "SCRIPT_DATA_ESCAPED_END_TAG_NAME"}

\* the word has the letters of the text from lo, before p, in lower case
Spells(word, lo, p) ==
  /\ IsSeq(word) /\ Len(word) = p - lo
  /\ \A k \in lo .. p - 1 : is_alpha(SymbolAt(k))
  /\ p > lo => word[1] = ensure_lowercase(SymbolAt(lo))

\* the states after <!-- in a script, and those after <script> in there
Outside == {"SCRIPT_DATA", "SCRIPT_DATA_LT", "SCRIPT_DATA_END_TAG_OPEN", "SCRIPT_DATA_END_TAG_NAME",
            "SCRIPT_DATA_ESCAPED_START", "SCRIPT_DATA_ESCAPED_START_DASH"}
Twice == {"SCRIPT_DATA_DOUBLE_ESCAPED", "SCRIPT_DATA_DOUBLE_ESCAPED_DASH",
          "SCRIPT_DATA_DOUBLE_ESCAPED_DASH_DASH", "SCRIPT_DATA_DOUBLE_ESCAPED_LT",
          "SCRIPT_DATA_DOUBLE_ESCAPED_END"}
Once == Scripts \ (Outside \cup Twice)

\* those outside where a comment may not have begun
Plainly == {"SCRIPT_DATA", "SCRIPT_DATA_END_TAG_OPEN", "SCRIPT_DATA_END_TAG_NAME"}

OneDash == {"SCRIPT_DATA_ESCAPED_DASH", "SCRIPT_DATA_DOUBLE_ESCAPED_DASH"}
TwoDashes == {"SCRIPT_DATA_ESCAPED_DASH_DASH", "SCRIPT_DATA_DOUBLE_ESCAPED_DASH_DASH"}
NoDash == {"SCRIPT_DATA_ESCAPED", "SCRIPT_DATA_DOUBLE_ESCAPED"}

\* the words that change what a script is, at a place of the text
Comments_ == <<"<", "!", "-", "-">>
CommentsEnd_ == <<"-", "-", ">">>
Starts_ == <<"<", "script">>
Stops_ == <<"<", "/", "script">>

\* what the state says of the script from from, read up to p
Escapes(from, p, state, tmp) ==
  /\ state \in Outside => ~InEscaped(from, p)
  /\ state \in Once => InEscaped(from, p) /\ ~InDouble(from, p)
  /\ state \in Twice => InDouble(from, p)
  /\ state \in Plainly => \A i \in from .. p - 1 : p <= i + 3 => ~IsAt(Comments_, i)
  /\ state = "SCRIPT_DATA_ESCAPED_START" =>
       p >= from + 2 /\ SymbolAt(p - 2) = "<" /\ SymbolAt(p - 1) = "!"
  /\ state = "SCRIPT_DATA_ESCAPED_START_DASH" =>
       /\ p >= from + 3 /\ SymbolAt(p - 3) = "<"
       /\ SymbolAt(p - 2) = "!" /\ SymbolAt(p - 1) = "-"
  /\ state \in NoDash => SymbolAt(p - 1) # "-"
  /\ state \in OneDash => SymbolAt(p - 1) = "-" /\ SymbolAt(p - 2) # "-"
  /\ state \in TwoDashes => SymbolAt(p - 1) = "-" /\ SymbolAt(p - 2) = "-"
  /\ state = "SCRIPT_DATA_ESCAPED" => ~Ends(Starts_, p - 2) /\ ~Ends(Starts_, p - 1)
  /\ state = "SCRIPT_DATA_DOUBLE_ESCAPED" =>
       ~Ends(Stops_, p - 3) /\ ~Ends(Stops_, p - 2) /\ ~Ends(Stops_, p - 1)
  /\ state = "SCRIPT_DATA_ESCAPED_LT" => InEscaped(from, p - 1)
  /\ state = "SCRIPT_DATA_DOUBLE_ESCAPED_LT" => SymbolAt(p - 1) = "<"
  /\ state = "SCRIPT_DATA_DOUBLE_ESCAPED_START" =>
       \E m \in from .. p - 1 : /\ SymbolAt(m) = "<" /\ Spells(tmp, m + 1, p)
                                /\ InEscaped(from, m)
  /\ state = "SCRIPT_DATA_DOUBLE_ESCAPED_END" =>
       \E m \in from .. p - 2 : /\ SymbolAt(m) = "<" /\ SymbolAt(m + 1) = "/"
                                /\ Spells(tmp, m + 2, p)

\* what a state that a < leads to says of it
Marks_(s) ==
  /\ s.start = s.mark /\ s.mark < s.pos /\ SymbolAt(s.mark) = "<"
  /\ OpenUpTo(s.content, s.mark)
  /\ s.content.state = "SCRIPT_DATA" => ~InDouble(s.content.from, s.mark)
  /\ s.state \in LtStates => s.pos = s.mark + 1
  /\ s.state \in EndTagOpens => s.pos = s.mark + 2 /\ SymbolAt(s.mark + 1) = "/"
  /\ s.state \in NamesEndTag => /\ s.pos >= s.mark + 2 /\ SymbolAt(s.mark + 1) = "/"
                                /\ Spells(s.tag.buffer, s.mark + 2, s.pos)
                                /\ s.tag.is_start = FALSE

\* the contents are read
Within(s) ==
  LET c == s.content
  IN  /\ s.last = c.name /\ c.from <= s.start
      /\ \/ /\ s.state \in Emitting(c.state) /\ s.start = s.pos
            /\ OpenUpTo(c, ReadTo(s))
         \/ s.state \in Marking(c.state) /\ s.resume = 0 /\ Marks_(s)
         \/ /\ c.state = "RCDATA" /\ s.state \in References /\ s.return = "RCDATA"
            /\ OpenUpTo(c, ReadTo(s))
      /\ c.state = "SCRIPT_DATA" => Escapes(c.from, ReadTo(s), s.state, s.tmp)

\* their end tag is read
InEndTag(s) ==
  LET c == s.content
  IN  /\ InTag(s) /\ s.state # "TAG_NAME" /\ s.state \notin NamesEndTag
      /\ s.tag.is_start = FALSE
      /\ EndsContents(c, s.start) /\ OpenUpTo(c, s.start)

\* they were read
Over(s) == \E k \in 1 .. s.start - 1 : EndsContents(s.content, k)

\* the element of these contents, which a fragment has not
Opener(c) == \/ c.name = <<>>
             \/ /\ c.name \in {<<"title">>, <<"style">>, <<"script">>}
                /\ c.state = ContentState(c.name)

\* the tree construction is told the name of the last start tag
Announced(s) ==
  s.emitted /\ s.out[Len(s.out)].type = "START_TAG" =>
    s.state = "DATA" /\ s.resume = 0 /\ s.last = Tag(s.out[Len(s.out)].value.name)

\* how the last token lies to the contents
LiesRight(s) ==
  s.emitted /\ s.content.state \in Hidden =>
    LET token == s.out[Len(s.out)]
        end   == ContentEnd(s.content)
    IN  \/ token.type = "EOF" \/ token.from < s.content.from \/ token.from > end
        \/ token.type \in Characters /\ token.to <= end
        \/ token.type = "END_TAG" /\ token.from = end

Contents(s) ==
  /\ s.content.from \in 1 .. Len(text) + 1
  /\ s.resume # 0 => s.pos <= s.resume
  /\ Announced(s) /\ LiesRight(s)
  /\ s.content.state \in Hidden =>
       /\ Opener(s.content)
       /\ Over(s) \/ (s.emitted /\ Ended(s)) \/ (~s.emitted /\ InEndTag(s)) \/ Within(s)

(* sections *)
SectionAt(b) == IsAt(<<"<", "!", "[CDATA[">>, b)
NoSectionEnd(lo, p) == \A e \in lo .. p - 1 : ~IsAt(<<"]", "]", ">">>, e)

\* the section whose text begins at lo is read
Section(s) ==
  \E b \in 1 .. s.pos :
    /\ SectionAt(b) /\ b + 3 <= s.pos
    /\ s.state = "CDATA_SECTION" => NoSectionEnd(b + 3, ReadTo(s))
    /\ s.state \in {"CDATA_SECTION_BRACKET", "CDATA_SECTION_END"} =>
         b + 3 <= s.mark /\ NoSectionEnd(b + 3, s.mark)

SectionToken(token) ==
  token.type = "CDATA" =>
    /\ token.at \in Nat
    /\ \E b \in 1 .. token.at : /\ SectionAt(b) /\ b + 2 < token.at
                               /\ NoSectionEnd(b + 3, token.at + 1)

Sections(s) ==
  /\ s.cdata \in BOOLEAN
  /\ s.cdata => s.state \in CDatas /\ ((s.emitted /\ Ended(s)) \/ Section(s))
  /\ s.buffered # NoChar => s.cdata = FALSE
  /\ \A i \in DOMAIN s.out : SectionToken(s.out[i])

ContentInv == Contents(t) /\ Sections(t)

(* ---------------------------- What handlers leave -------------------------- *)

\* x is z but for what these contents do not depend on
Calm(z, x) ==
  /\ DOMAIN x = StateFields
  /\ x.content = z.content /\ x.out = z.out /\ x.start = z.start /\ x.last = z.last
  /\ x.cdata = z.cdata /\ x.buffered = z.buffered /\ x.resume = z.resume
  /\ x.emitted = z.emitted /\ x.mark = z.mark /\ x.pos = z.pos /\ x.return = z.return

\* The operations of the handlers that emit nothing, move nothing and set no mark.
LEMMA CalmOps ==
  \A z, x : Calm(z, x) =>
    /\ Calm(z, tokenizer_add_parse_error(x))
    /\ Calm(z, Quirks(x))
    /\ \A state : /\ Calm(z, gumbo_tokenizer_set_state(x, state))
                  /\ Calm(z, reconsume_in_state(x, state))
    /\ Calm(z, clear_temporary_buffer(x))
    /\ \A word : /\ Calm(z, append_to_temporary_buffer(x, word))
                 /\ Calm(z, append_to_tag_buffer(x, word))
    /\ \A condition : Calm(z, assert(x, condition))
    /\ \A start : Calm(z, start_new_tag(x, start))
    /\ Calm(z, abandon_current_tag(x))
    /\ Calm(z, finish_tag_name(x))
    /\ Calm(z, finish_doctype_name(x))
    /\ Calm(z, finish_doctype_public_id(x))
    /\ Calm(z, finish_doctype_system_id(x))
<1> SUFFICES ASSUME NEW z, NEW x, Calm(z, x)
             PROVE  /\ Calm(z, tokenizer_add_parse_error(x))
    /\ Calm(z, Quirks(x))
    /\ \A state : /\ Calm(z, gumbo_tokenizer_set_state(x, state))
                  /\ Calm(z, reconsume_in_state(x, state))
    /\ Calm(z, clear_temporary_buffer(x))
    /\ \A word : /\ Calm(z, append_to_temporary_buffer(x, word))
                 /\ Calm(z, append_to_tag_buffer(x, word))
    /\ \A condition : Calm(z, assert(x, condition))
    /\ \A start : Calm(z, start_new_tag(x, start))
    /\ Calm(z, abandon_current_tag(x))
    /\ Calm(z, finish_tag_name(x))
    /\ Calm(z, finish_doctype_name(x))
    /\ Calm(z, finish_doctype_public_id(x))
    /\ Calm(z, finish_doctype_system_id(x))
  OBVIOUS
<1>1. Calm(z, tokenizer_add_parse_error(x)) /\ Calm(z, clear_temporary_buffer(x))
  BY DEF Calm, StateFields, tokenizer_add_parse_error, clear_temporary_buffer
<1>2. Calm(z, Quirks(x))
  BY DEF Calm, StateFields, tokenizer_add_parse_error, Quirks
<1>3. \A state : /\ Calm(z, gumbo_tokenizer_set_state(x, state))
                 /\ Calm(z, reconsume_in_state(x, state))
  BY DEF Calm, StateFields, gumbo_tokenizer_set_state, reconsume_in_state
<1>4. \A word : /\ Calm(z, append_to_temporary_buffer(x, word))
                /\ Calm(z, append_to_tag_buffer(x, word))
  BY DEF Calm, StateFields, append_to_temporary_buffer, append_to_tag_buffer
<1>5. \A y, condition : Calm(z, y) => Calm(z, assert(y, condition))
  BY DEF Calm, StateFields, assert
<1>6. \A start : Calm(z, start_new_tag(x, start))
  BY <1>5 DEF Calm, StateFields, start_new_tag
<1>7. Calm(z, abandon_current_tag(x)) /\ Calm(z, finish_tag_name(x))
  BY <1>5 DEF Calm, StateFields, abandon_current_tag, finish_tag_name, reinitialize_tag_buffer
<1>8. Calm(z, finish_doctype_name(x))
  BY <1>5 DEF Calm, StateFields, finish_doctype_name, clear_temporary_buffer
<1>9. Calm(z, finish_doctype_public_id(x)) /\ Calm(z, finish_doctype_system_id(x))
  BY <1>5 DEF Calm, StateFields, finish_doctype_public_id, finish_doctype_system_id,
              clear_temporary_buffer
<1>10. QED BY <1>1, <1>2, <1>3, <1>4, <1>5, <1>6, <1>7, <1>8, <1>9

\* Those that finish the name or the value of an attribute.
LEMMA CalmAttributes ==
  \A z, x : Calm(z, x) =>
    Calm(z, finish_attribute_name(x)) /\ Calm(z, finish_attribute_value(x))
<1> SUFFICES ASSUME NEW z, NEW x, Calm(z, x)
             PROVE  Calm(z, finish_attribute_name(x)) /\ Calm(z, finish_attribute_value(x))
  OBVIOUS
<1>1. \A y : Calm(z, y) => Calm(z, reinitialize_tag_buffer(y))
  BY DEF Calm, StateFields, reinitialize_tag_buffer, assert
<1>2. \A y, condition : Calm(z, y) => Calm(z, assert(y, condition))
  BY CalmOps
<1>3. Calm(z, finish_attribute_name(x))
  <2>1. CASE TooMany(x)
    BY <1>1, <2>1 DEF Calm, StateFields, finish_attribute_name
  <2>2. CASE ~TooMany(x)
    <3> DEFINE y == assert(x, WithLookup(x.tag).listed)
               u == [y EXCEPT !.tag = IF IsDuplicate(WithLookup(x.tag))
                                      THEN [WithLookup(x.tag) EXCEPT !.drop = TRUE]
                                      ELSE AddAttribute(WithLookup(x.tag)),
                              !.errors = IF IsDuplicate(WithLookup(x.tag)) THEN @ + 1 ELSE @]
    <3>1. Calm(z, y)
      BY <1>2
    <3> HIDE DEF y
    <3>2. Calm(z, u)
      BY <3>1 DEF Calm, StateFields
    <3>3. QED BY <1>1, <2>2, <3>2 DEF finish_attribute_name, y
  <2>3. QED BY <2>1, <2>2
<1>4. Calm(z, finish_attribute_value(x))
  <2> DEFINE last == Len(x.tag.attributes)
  <2>1. Calm(z, [x EXCEPT !.tag.drop = FALSE])
    BY DEF Calm, StateFields
  <2>2. Calm(z, [x EXCEPT !.tag.attributes[last].value = x.tag.buffer])
    BY DEF Calm, StateFields
  <2>3. QED BY <1>1, <1>2, <2>1, <2>2 DEF finish_attribute_value
<1>5. QED BY <1>3, <1>4

\* r is what the emission of a token leaves of x
Tells(x, r, type, value) ==
  /\ DOMAIN r = StateFields
  /\ r.content = x.content /\ r.cdata = x.cdata /\ r.buffered = x.buffered
  /\ r.resume = x.resume /\ r.mark = x.mark /\ r.state = x.state /\ r.return = x.return
  /\ r.reconsume = x.reconsume /\ r.emitted = TRUE
  /\ r.pos = Behind(x) /\ r.start = r.pos
  /\ r.out = Append(x.out, Token(type, value, x.start, r.pos, x.pos))

\* finish_token, but for the buffers.
LEMMA FinishTells ==
  ASSUME NEW x, DOMAIN x = StateFields, NEW type, NEW value
  PROVE  LET r == finish_token(x, type, value)
         IN  Tells(x, r, type, value) /\ r.last = x.last /\ r.tmp = x.tmp /\ r.tag = x.tag
BY DEF Tells, finish_token, utf8iterator_next, StateFields, Behind, Token

\* A character, and a comment and a doctype, which leave some buffers.
LEMMA CharTells ==
  ASSUME NEW x, DOMAIN x = StateFields
  PROVE  /\ \A c : LET r == emit_char(x, c)
                   IN  /\ Tells(x, r, get_char_token_type(x.cdata, c), c)
                       /\ r.last = x.last /\ r.tmp = x.tmp /\ r.tag = x.tag
         /\ Tells(x, emit_comment(x), "COMMENT", x.tmp) /\ emit_comment(x).last = x.last
         /\ Tells(x, emit_doctype(x), "DOCTYPE", x.doctype) /\ emit_doctype(x).last = x.last
<1>1. \A c : LET r == emit_char(x, c)
             IN  /\ Tells(x, r, get_char_token_type(x.cdata, c), c)
                 /\ r.last = x.last /\ r.tmp = x.tmp /\ r.tag = x.tag
  BY FinishTells DEF emit_char
<1>2. Tells(x, emit_comment(x), "COMMENT", x.tmp) /\ emit_comment(x).last = x.last
  <2> DEFINE y == clear_temporary_buffer(x)
             r == finish_token(y, "COMMENT", x.tmp)
  <2>1. Calm(x, y) /\ y.state = x.state /\ y.reconsume = x.reconsume
    BY DEF Calm, StateFields, clear_temporary_buffer
  <2> HIDE DEF y
  <2>2. Tells(y, r, "COMMENT", x.tmp) /\ r.last = y.last
    BY <2>1, FinishTells DEF Calm
  <2> HIDE DEF r
  <2>3. Tells(x, r, "COMMENT", x.tmp) /\ r.last = x.last
    BY <2>1, <2>2 DEF Calm, Tells, Behind
  <2>4. QED BY <2>3 DEF r, y, emit_comment
<1>3. Tells(x, emit_doctype(x), "DOCTYPE", x.doctype) /\ emit_doctype(x).last = x.last
  <2> DEFINE r == finish_token(x, "DOCTYPE", x.doctype)
             e == [r EXCEPT !.doctype = NoDoctype]
  <2>1. Tells(x, r, "DOCTYPE", x.doctype) /\ r.last = x.last
    BY FinishTells
  <2> HIDE DEF r
  <2>2. Tells(x, e, "DOCTYPE", x.doctype) /\ e.last = x.last
    BY <2>1 DEF Tells, StateFields
  <2>3. QED BY <2>2 DEF e, r, emit_doctype
<1>4. QED BY <1>1, <1>2, <1>3

\* A tag: the name of a start tag is remembered.
LEMMA TagTells ==
  ASSUME NEW x, DOMAIN x = StateFields
  PROVE  LET r == emit_current_tag(x)
             type == IF x.tag.is_start THEN "START_TAG" ELSE "END_TAG"
         IN  /\ \E value : Tells(x, r, type, value) /\ value.name = x.tag.name
             /\ r.last = IF x.tag.is_start THEN Tag(x.tag.name) ELSE x.last
<1> DEFINE tag == x.tag
           type == IF tag.is_start THEN "START_TAG" ELSE "END_TAG"
           last == IF tag.is_start THEN Tag(tag.name) ELSE x.last
           value == TagToken(tag)
           y == [x EXCEPT !.tag = NoTag, !.errors = @ + Cardinality(EndTagErrors(tag)),
                          !.last = IF tag.is_start THEN Tag(tag.name) ELSE @]
           done == finish_token(y, type, value)
           r == emit_current_tag(x)
<1>1. /\ DOMAIN y = StateFields /\ y.last = last
      /\ y.content = x.content /\ y.cdata = x.cdata /\ y.buffered = x.buffered
      /\ y.resume = x.resume /\ y.mark = x.mark /\ y.state = x.state /\ y.return = x.return
      /\ y.reconsume = x.reconsume /\ y.pos = x.pos /\ y.start = x.start /\ y.out = x.out
  BY DEF StateFields
<1> HIDE DEF y, value
<1>2. Tells(y, done, type, value) /\ done.last = last
  BY <1>1, FinishTells
<1>3. Tells(x, done, type, value)
  BY <1>1, <1>2 DEF Tells, Behind
<1> HIDE DEF done
<1>4. \A condition : LET e == assert(done, condition)
                     IN  Tells(x, e, type, value) /\ e.last = last
  BY <1>2, <1>3 DEF Tells, assert, StateFields
<1>5. Tells(x, r, type, value) /\ r.last = last
  BY <1>4 DEF emit_current_tag, done, y, value
<1>6. value.name = x.tag.name
  BY DEF value, TagToken
<1>7. QED BY <1>5, <1>6

\* From the mark, if it is behind.
LEMMA MarkTells ==
  ASSUME text \in Seq(Symbols), NEW x, DOMAIN x = StateFields, x.pos \in 1 .. Len(text) + 1,
         x.mark \in 1 .. x.pos - 1
  PROVE  LET r == emit_from_mark(x)
             c == SymbolAt(x.mark)
         IN  /\ DOMAIN r = StateFields /\ r.content = x.content /\ r.cdata = x.cdata
             /\ r.buffered = x.buffered /\ r.resume = x.pos /\ r.mark = x.mark
             /\ r.state = x.state /\ r.return = x.return /\ r.reconsume = FALSE
             /\ r.emitted = TRUE /\ r.pos = x.mark + 1 /\ r.start = x.mark + 1
             /\ r.out = Append(x.out, Token(get_char_token_type(x.cdata, c), c,
                                            x.start, x.mark + 1, x.mark))
             /\ r.last = x.last /\ r.tmp = x.tmp /\ r.tag = x.tag
<1> DEFINE y == Rewound(x)
           z == assert(y, ~y.reconsume)
           c == SymbolAt(x.mark)
           e == emit_char(z, c)
           r == assert(e, e.emitted)
<1>1. /\ DOMAIN y = StateFields /\ y.resume = x.pos /\ y.pos = x.mark /\ y.reconsume = FALSE
      /\ y.content = x.content /\ y.cdata = x.cdata /\ y.buffered = x.buffered
      /\ y.mark = x.mark /\ y.state = x.state /\ y.return = x.return /\ y.start = x.start
      /\ y.out = x.out /\ y.last = x.last /\ y.tmp = x.tmp /\ y.tag = x.tag
  BY DEF Rewound, StateFields
<1>2. x.mark \in Nat /\ x.mark <= Len(text) /\ Len(text) \in Nat /\ x.pos # 0
      /\ ~(x.mark >= x.pos)
  OBVIOUS
<1>3. Current(y) = c
  BY <1>1 DEF Current, SymbolAt
<1> HIDE DEF y, c
<1>4. z = y
  BY <1>1 DEF assert
<1>5. maybe_emit_from_mark(y) = e
  BY <1>1, <1>2, <1>3 DEF maybe_emit_from_mark
<1>6. emit_from_mark(x) = r
  BY <1>5 DEF emit_from_mark, y
<1>7. Tells(y, e, get_char_token_type(y.cdata, c), c) /\ e.last = y.last /\ e.tmp = y.tmp
      /\ e.tag = y.tag
  BY <1>1, <1>4, CharTells
<1> HIDE DEF e, z
<1>8. r = e
  BY <1>7 DEF Tells, assert
<1>9. Behind(y) = x.mark + 1
  BY <1>1, <1>2 DEF Behind
<1>10. QED BY <1>1, <1>6, <1>7, <1>8, <1>9 DEF Tells, c

(* ----------------------- What an iteration leaves -------------------------- *)

\* a handler is called: nothing is emitted yet, and nothing waits
Called(z) ==
  /\ DOMAIN z = StateFields /\ z.emitted = FALSE /\ z.resume = 0 /\ z.buffered = NoChar
  /\ z.reconsume = FALSE
  /\ z.pos \in Nat /\ z.start \in Nat /\ z.start <= z.pos

\* what a handler may do to the contents
Outcome(z, n) ==
  /\ n.content = z.content
  /\ n.resume # 0 => n.pos <= n.resume
  /\ z.cdata = FALSE => n.cdata = FALSE
  /\ \/ /\ n.emitted = FALSE /\ n.out = z.out /\ n.last = z.last /\ n.start = z.start
        /\ n.buffered = NoChar
     \/ /\ n.emitted = TRUE /\ n.start \in Nat /\ z.start <= n.start
        /\ \E type, value, to, at :
             /\ n.out = Append(z.out, Token(type, value, z.start, to, at))
             /\ type = "CDATA" => z.cdata
             /\ type = "START_TAG" =>
                  n.state = "DATA" /\ n.resume = 0 /\ n.last = Tag(value.name)
             /\ type # "START_TAG" => n.last = z.last

\* the end of an iteration
LEMMA AdvancedIs ==
  ASSUME NEW r, DOMAIN r = StateFields
  PROVE  LET n == Advanced(r)
         IN  /\ DOMAIN n = StateFields /\ n.content = r.content /\ n.out = r.out
             /\ n.start = r.start /\ n.last = r.last /\ n.cdata = r.cdata
             /\ n.buffered = r.buffered /\ n.resume = r.resume /\ n.emitted = r.emitted
             /\ n.mark = r.mark /\ n.state = r.state /\ n.tmp = r.tmp /\ n.tag = r.tag
             /\ n.return = r.return
             /\ n.pos = IF r.emitted \/ r.reconsume THEN r.pos ELSE Behind(r)
BY DEF Advanced, utf8iterator_next, Behind, StateFields

\* A handler that emitted nothing.
LEMMA CalmEnds ==
  ASSUME NEW z, Called(z)
  PROVE  \A x : Calm(z, x) => Outcome(z, Advanced(x))
<1>1. SUFFICES ASSUME NEW x, Calm(z, x) PROVE Outcome(z, Advanced(x))
  OBVIOUS
<1> DEFINE n == Advanced(x)
<1>2. /\ n.content = x.content /\ n.out = x.out /\ n.start = x.start /\ n.last = x.last
      /\ n.cdata = x.cdata /\ n.buffered = x.buffered /\ n.resume = x.resume
      /\ n.emitted = x.emitted
  BY <1>1, AdvancedIs DEF Calm
<1> HIDE DEF n
<1>3. Outcome(z, n)
  BY <1>1, <1>2 DEF Calm, Called, Outcome
<1>4. QED BY <1>3 DEF n

\* A handler that emitted a token.
LEMMA TellsEnds ==
  ASSUME NEW z, Called(z), NEW x, Calm(z, x), NEW r, NEW type, NEW value,
         Tells(x, r, type, value), type = "CDATA" => z.cdata,
         type = "START_TAG" => r.state = "DATA" /\ r.last = Tag(value.name),
         type # "START_TAG" => r.last = x.last
  PROVE  Outcome(z, Advanced(r))
<1> DEFINE n == Advanced(r)
<1>1. /\ n.content = x.content /\ n.resume = 0 /\ n.cdata = z.cdata /\ n.emitted = TRUE
      /\ n.out = Append(z.out, Token(type, value, z.start, r.pos, x.pos))
      /\ n.state = r.state /\ n.last = r.last /\ n.start = Behind(x)
  BY AdvancedIs DEF Tells, Calm, Called
<1> HIDE DEF n
<1>2. n.start \in Nat /\ z.start <= n.start
  BY <1>1 DEF Calm, Called, Behind
<1>3. Outcome(z, n)
  BY <1>1, <1>2 DEF Outcome, Calm
<1>4. QED BY <1>3 DEF n

\* Characters, comments, doctypes and tags.
LEMMA EmissionEnds ==
  ASSUME NEW z, Called(z), NEW x, Calm(z, x)
  PROVE  /\ \A c : Outcome(z, Advanced(emit_char(x, c)))
         /\ Outcome(z, Advanced(emit_replacement_char(x)))
         /\ Outcome(z, Advanced(emit_eof(x)))
         /\ Outcome(z, Advanced(emit_comment(x)))
         /\ Outcome(z, Advanced(emit_doctype(x)))
         /\ x.state = "DATA" => Outcome(z, Advanced(emit_current_tag(x)))
<1>1. \A y, c : Calm(z, y) => Outcome(z, Advanced(emit_char(y, c)))
  <2>1. SUFFICES ASSUME NEW y, NEW c, Calm(z, y) PROVE Outcome(z, Advanced(emit_char(y, c)))
    OBVIOUS
  <2> DEFINE type == get_char_token_type(y.cdata, c)
             r == emit_char(y, c)
  <2>2. Tells(y, r, type, c) /\ r.last = y.last
    BY <2>1, CharTells DEF Calm
  <2>3. type # "START_TAG" /\ (type = "CDATA" => z.cdata)
    BY <2>1 DEF get_char_token_type, Calm
  <2> HIDE DEF type, r
  <2>4. Outcome(z, Advanced(r))
    BY <2>1, <2>2, <2>3, TellsEnds
  <2>5. QED BY <2>4 DEF r
<1>2. Outcome(z, Advanced(emit_replacement_char(x))) /\ Outcome(z, Advanced(emit_eof(x)))
  BY <1>1, CalmOps DEF emit_replacement_char, emit_eof
<1>3. Outcome(z, Advanced(emit_comment(x))) /\ Outcome(z, Advanced(emit_doctype(x)))
  <2>1. /\ Tells(x, emit_comment(x), "COMMENT", x.tmp) /\ emit_comment(x).last = x.last
        /\ Tells(x, emit_doctype(x), "DOCTYPE", x.doctype) /\ emit_doctype(x).last = x.last
    BY CharTells DEF Calm
  <2>2. QED BY <2>1, TellsEnds
<1>4. ASSUME x.state = "DATA" PROVE Outcome(z, Advanced(emit_current_tag(x)))
  <2> DEFINE r == emit_current_tag(x)
             type == IF x.tag.is_start THEN "START_TAG" ELSE "END_TAG"
  <2>1. PICK value : Tells(x, r, type, value) /\ value.name = x.tag.name
    BY TagTells DEF Calm
  <2>2. r.last = IF x.tag.is_start THEN Tag(x.tag.name) ELSE x.last
    BY TagTells DEF Calm
  <2>3. r.state = "DATA"
    BY <1>4, <2>1 DEF Tells
  <2> HIDE DEF r
  <2>4. type # "CDATA" /\ (type = "START_TAG" <=> x.tag.is_start)
    OBVIOUS
  <2> HIDE DEF type
  <2>5. type = "START_TAG" => r.last = Tag(value.name)
    BY <2>1, <2>2, <2>4
  <2>6. type # "START_TAG" => r.last = x.last
    BY <2>2, <2>4
  <2>7. Outcome(z, Advanced(r))
    BY <2>1, <2>3, <2>4, <2>5, <2>6, TellsEnds
  <2>8. QED BY <2>7 DEF r
<1>5. QED BY <1>1, <1>2, <1>3, <1>4

\* What turns out to be text.
LEMMA MarkEnds ==
  ASSUME text \in Seq(Symbols), NEW z, Called(z), z.pos \in 1 .. Len(text) + 1,
         z.mark \in 1 .. z.pos - 1, z.start <= z.mark
  PROVE  \A x : Calm(z, x) => Outcome(z, Advanced(emit_from_mark(x)))
<1>1. SUFFICES ASSUME NEW x, Calm(z, x) PROVE Outcome(z, Advanced(emit_from_mark(x)))
  OBVIOUS
<1> DEFINE r == emit_from_mark(x)
           n == Advanced(r)
           c == SymbolAt(x.mark)
           type == get_char_token_type(x.cdata, c)
<1>2. /\ DOMAIN r = StateFields /\ r.content = x.content /\ r.cdata = x.cdata
      /\ r.resume = x.pos /\ r.emitted = TRUE /\ r.pos = x.mark + 1 /\ r.start = x.mark + 1
      /\ r.out = Append(x.out, Token(type, c, x.start, x.mark + 1, x.mark))
      /\ r.last = x.last
  <2>1. DOMAIN x = StateFields /\ x.pos \in 1 .. Len(text) + 1 /\ x.mark \in 1 .. x.pos - 1
    BY <1>1 DEF Calm
  <2>2. QED BY <2>1, MarkTells
<1>3. type # "START_TAG" /\ (type = "CDATA" => z.cdata)
  BY <1>1 DEF get_char_token_type, Calm
<1>4. r.pos <= r.resume /\ r.start \in Nat /\ z.start <= r.start
  BY <1>1, <1>2 DEF Calm, Called
<1> HIDE DEF r, type, c
<1>5. /\ n.content = x.content /\ n.cdata = x.cdata /\ n.resume = r.resume /\ n.emitted = TRUE
      /\ n.pos = r.pos /\ n.out = r.out /\ n.last = x.last /\ n.start = r.start
  BY <1>2, AdvancedIs
<1> HIDE DEF n
<1>6. /\ n.out = Append(z.out, Token(type, c, z.start, x.mark + 1, x.mark))
      /\ n.last = z.last /\ n.content = z.content /\ n.cdata = z.cdata
  BY <1>1, <1>2, <1>5 DEF Calm
<1>7. \E ty, value, to, at :
        /\ n.out = Append(z.out, Token(ty, value, z.start, to, at))
        /\ ty = "CDATA" => z.cdata
        /\ ty = "START_TAG" => n.state = "DATA" /\ n.resume = 0 /\ n.last = Tag(value.name)
        /\ ty # "START_TAG" => n.last = z.last
  BY <1>3, <1>6
<1>8. Outcome(z, n)
  BY <1>4, <1>5, <1>6, <1>7 DEF Outcome
<1>9. QED BY <1>8 DEF n, r
\* The ends of tags, comments and doctypes.
LEMMA MarkupEnds ==
  ASSUME NEW z, Called(z)
  PROVE  \A x : Calm(z, x) =>
           /\ Outcome(z, Advanced(TagDone(x))) /\ Outcome(z, Advanced(EofInTag(x)))
           /\ Outcome(z, Advanced(CommentDone(x))) /\ Outcome(z, Advanced(EofInComment(x)))
           /\ Outcome(z, Advanced(EofAfterDashes(x)))
           /\ Outcome(z, Advanced(DoctypeDone(x))) /\ Outcome(z, Advanced(EofInDoctype(x)))
           /\ Calm(z, NullInTag(x)) /\ Calm(z, BogusDoctype(x))
           /\ \A chars : Calm(z, CommentGoesOn(x, chars)) /\ Calm(z, DoctypeName(x, chars))
           /\ \A state : Calm(z, Quoted(x, state))
<1>1. SUFFICES ASSUME NEW x, Calm(z, x)
               PROVE
           /\ Outcome(z, Advanced(TagDone(x))) /\ Outcome(z, Advanced(EofInTag(x)))
           /\ Outcome(z, Advanced(CommentDone(x))) /\ Outcome(z, Advanced(EofInComment(x)))
           /\ Outcome(z, Advanced(EofAfterDashes(x)))
           /\ Outcome(z, Advanced(DoctypeDone(x))) /\ Outcome(z, Advanced(EofInDoctype(x)))
           /\ Calm(z, NullInTag(x)) /\ Calm(z, BogusDoctype(x))
           /\ \A chars : Calm(z, CommentGoesOn(x, chars)) /\ Calm(z, DoctypeName(x, chars))
           /\ \A state : Calm(z, Quoted(x, state))
  OBVIOUS
<1>2. Outcome(z, Advanced(TagDone(x)))
  <2> DEFINE y == gumbo_tokenizer_set_state(x, "DATA")
  <2>1. Calm(z, y)
    BY <1>1, CalmOps
  <2>2. y.state = "DATA"
    BY <1>1 DEF gumbo_tokenizer_set_state, Calm, StateFields
  <2> HIDE DEF y
  <2>3. Outcome(z, Advanced(emit_current_tag(y)))
    BY <2>1, <2>2, EmissionEnds
  <2>4. QED BY <2>3 DEF y, TagDone
<1>3. Outcome(z, Advanced(EofInTag(x)))
  <2>1. Calm(z, abandon_current_tag(tokenizer_add_parse_error(x)))
    BY <1>1, CalmOps
  <2>2. QED BY <2>1, EmissionEnds DEF EofInTag
<1>4. \A y : Calm(z, y) => Outcome(z, Advanced(CommentDone(y)))
  BY CalmOps, EmissionEnds DEF CommentDone
<1>5. Outcome(z, Advanced(EofInComment(x)))
  <2>1. Calm(z, reconsume_in_state(tokenizer_add_parse_error(x), "DATA"))
    BY <1>1, CalmOps
  <2>2. QED BY <2>1, EmissionEnds DEF EofInComment
<1>6. Outcome(z, Advanced(EofAfterDashes(x)))
  BY <1>1, <1>4, CalmOps DEF EofAfterDashes
<1>7. Outcome(z, Advanced(DoctypeDone(x)))
  BY <1>1, CalmOps, EmissionEnds DEF DoctypeDone
<1>8. Outcome(z, Advanced(EofInDoctype(x)))
  <2>1. Calm(z, reconsume_in_state(Quirks(x), "DATA"))
    BY <1>1, CalmOps
  <2>2. QED BY <2>1, EmissionEnds DEF EofInDoctype
<1>9. Calm(z, NullInTag(x))
  BY <1>1, CalmOps DEF NullInTag
<1>10. Calm(z, BogusDoctype(x))
  BY <1>1, CalmOps DEF BogusDoctype
<1>11. \A chars : Calm(z, CommentGoesOn(x, chars)) /\ Calm(z, DoctypeName(x, chars))
  <2>1. \A state : /\ Calm(z, reconsume_in_state(x, state))
                   /\ Calm(z, gumbo_tokenizer_set_state(x, state))
    BY <1>1, CalmOps
  <2>2. QED BY <2>1, CalmOps DEF CommentGoesOn, DoctypeName
<1>12. \A state : Calm(z, Quoted(x, state))
  <2>1. \A condition : Calm(z, assert(x, condition))
    BY <1>1, CalmOps
  <2>2. QED BY <2>1, CalmOps DEF Quoted
<1>13. QED BY <1>1, <1>2, <1>3, <1>4, <1>5, <1>6, <1>7, <1>8, <1>9, <1>10, <1>11, <1>12

\* What may be markup, and what the iterator goes on to.
LEMMA OpensEnd ==
  ASSUME NEW z, Called(z)
  PROVE  /\ \A state : Outcome(z, Advanced(Opens(z, state)))
         /\ \A from : Outcome(z, Advanced(StartsReference(z, from)))
         /\ Outcome(z, Advanced(EscapedLessThan(z)))
         /\ \A k \in Nat : /\ Called(Advance(z, k)) /\ Calm(Advance(z, k), Advance(z, k))
                         /\ \A n : Outcome(Advance(z, k), n) => Outcome(z, n)
<1>1. \A r : /\ DOMAIN r = StateFields /\ r.content = z.content /\ r.out = z.out
             /\ r.start = z.start /\ r.last = z.last /\ r.cdata = z.cdata
             /\ r.buffered = NoChar /\ r.resume = 0 /\ r.emitted = FALSE
             => Outcome(z, Advanced(r))
  <2>1. SUFFICES ASSUME NEW r,
                   /\ DOMAIN r = StateFields /\ r.content = z.content /\ r.out = z.out
                   /\ r.start = z.start /\ r.last = z.last /\ r.cdata = z.cdata
                   /\ r.buffered = NoChar /\ r.resume = 0 /\ r.emitted = FALSE
                 PROVE  Outcome(z, Advanced(r))
    OBVIOUS
  <2> DEFINE n == Advanced(r)
  <2>2. /\ n.content = r.content /\ n.out = r.out /\ n.start = r.start /\ n.last = r.last
        /\ n.cdata = r.cdata /\ n.buffered = r.buffered /\ n.resume = r.resume
        /\ n.emitted = r.emitted
    BY <2>1, AdvancedIs
  <2> HIDE DEF n
  <2>3. Outcome(z, n)
    BY <2>1, <2>2 DEF Outcome
  <2>4. QED BY <2>3 DEF n
<1>2. \A state : Outcome(z, Advanced(Opens(z, state)))
  BY <1>1 DEF Opens, set_mark, gumbo_tokenizer_set_state, Called, StateFields
<1>3. \A from : Outcome(z, Advanced(StartsReference(z, from)))
  BY <1>1 DEF StartsReference, set_mark, gumbo_tokenizer_set_state, Called, StateFields
<1>4. Outcome(z, Advanced(EscapedLessThan(z)))
  BY <1>1 DEF EscapedLessThan, clear_temporary_buffer, Opens, set_mark,
              gumbo_tokenizer_set_state, Called, StateFields
<1>5. ASSUME NEW k \in Nat
      PROVE  /\ Called(Advance(z, k)) /\ Calm(Advance(z, k), Advance(z, k))
             /\ \A n : Outcome(Advance(z, k), n) => Outcome(z, n)
  <2> DEFINE y == Advance(z, k)
  <2>1. /\ DOMAIN y = StateFields /\ y.content = z.content /\ y.out = z.out
        /\ y.start = z.start /\ y.last = z.last /\ y.cdata = z.cdata
        /\ y.buffered = z.buffered /\ y.resume = z.resume /\ y.emitted = z.emitted
        /\ y.reconsume = z.reconsume /\ y.pos = z.pos + k
    BY DEF Advance, Called, StateFields
  <2> HIDE DEF y
  <2>2. Called(y) /\ Calm(y, y)
    BY <2>1 DEF Called, Calm
  <2>3. \A n : Outcome(y, n) => Outcome(z, n)
    BY <2>1 DEF Outcome
  <2>4. QED BY <2>2, <2>3 DEF y
<1>6. QED BY <1>2, <1>3, <1>4, <1>5

(* --------------------- The handlers that read no contents ------------------ *)

\* Tags.
LEMMA TagsEnd ==
  ASSUME NEW z, Called(z), z.state \in Tags, NEW c,
         text \in Seq(Symbols), z.pos \in 1 .. Len(text) + 1,
         z.state \in {"TAG_OPEN", "END_TAG_OPEN"} =>
           z.mark \in 1 .. z.pos - 1 /\ z.start <= z.mark
  PROVE  Outcome(z, Advanced(LexTag(z, c)))
<1>1. Calm(z, z)
  BY DEF Called, Calm
<1>2. Outcome(z, Advanced(handle_before_attr_name_state(z, c)))
  BY <1>1, CalmOps, CalmEnds, MarkupEnds
     DEF handle_before_attr_name_state
<1>3. Outcome(z, Advanced(handle_attr_name_state(z, c)))
  BY <1>1, CalmOps, CalmEnds, MarkupEnds, CalmAttributes
     DEF handle_attr_name_state
<1>4. Outcome(z, Advanced(handle_after_attr_name_state(z, c)))
  BY <1>1, CalmOps, CalmEnds, MarkupEnds
     DEF handle_after_attr_name_state
<1>5. Outcome(z, Advanced(handle_before_attr_value_state(z, c)))
  BY <1>1, CalmOps, CalmEnds, MarkupEnds
     DEF handle_before_attr_value_state
<1>6. Outcome(z, Advanced(handle_attr_value_double_quoted_state(z, c)))
  BY <1>1, CalmOps, CalmEnds, MarkupEnds, OpensEnd
     DEF handle_attr_value_double_quoted_state, QuotedValue
<1>7. Outcome(z, Advanced(handle_attr_value_single_quoted_state(z, c)))
  BY <1>1, CalmOps, CalmEnds, MarkupEnds, OpensEnd
     DEF handle_attr_value_single_quoted_state, QuotedValue
<1>8. Outcome(z, Advanced(handle_attr_value_unquoted_state(z, c)))
  BY <1>1, CalmOps, CalmEnds, MarkupEnds, CalmAttributes, OpensEnd
     DEF handle_attr_value_unquoted_state
<1>9. Outcome(z, Advanced(handle_after_attr_value_quoted_state(z, c)))
  BY <1>1, CalmOps, CalmEnds, MarkupEnds, CalmAttributes
     DEF handle_after_attr_value_quoted_state, AfterValue
<1>10. Outcome(z, Advanced(handle_self_closing_start_tag_state(z, c)))
  <2>1. Calm(z, [z EXCEPT !.tag.self_closing = TRUE])
    BY DEF Called, Calm, StateFields
  <2>2. QED BY <1>1, <2>1, CalmOps, CalmEnds, MarkupEnds DEF handle_self_closing_start_tag_state
<1>11. Outcome(z, Advanced(handle_tag_name_state(z, c)))
  <2>1. Calm(z, finish_tag_name(z))
    BY <1>1, CalmOps
  <2>2. \A state : Outcome(z, Advanced(gumbo_tokenizer_set_state(finish_tag_name(z), state)))
    BY <2>1, CalmOps, CalmEnds
  <2>3. Outcome(z, Advanced(TagDone(finish_tag_name(z)))) /\ Outcome(z, Advanced(EofInTag(z)))
    BY <1>1, <2>1, MarkupEnds
  <2>4. /\ Outcome(z, Advanced(NullInTag(z)))
        /\ \A word : Outcome(z, Advanced(append_to_tag_buffer(z, word)))
    BY <1>1, CalmOps, CalmEnds, MarkupEnds
  <2>5. QED BY <2>2, <2>3, <2>4 DEF handle_tag_name_state
<1>12. CASE z.state = "END_TAG_OPEN"
  <2>1. \A x : Calm(z, x) => Outcome(z, Advanced(Back(x, "DATA")))
    BY <1>12, CalmOps, MarkEnds DEF Back
  <2>2. Outcome(z, Advanced(handle_end_tag_open_state(z, c)))
    BY <1>1, <2>1, CalmOps, CalmEnds DEF handle_end_tag_open_state
  <2>3. QED BY <1>12, <2>2 DEF LexTag
<1>13. CASE z.state = "TAG_OPEN"
  <2>1. \A x : Calm(z, x) => Outcome(z, Advanced(Back(x, "DATA")))
    BY <1>13, CalmOps, MarkEnds DEF Back
  <2>2. Outcome(z, Advanced(handle_tag_open_state(z, c)))
    BY <1>1, <2>1, CalmOps, CalmEnds DEF handle_tag_open_state
  <2>3. QED BY <1>13, <2>2 DEF LexTag
<1>14. QED BY <1>2, <1>3, <1>4, <1>5, <1>6, <1>7, <1>8, <1>9, <1>10, <1>11,
              <1>12, <1>13 DEF Tags, Attributes, LexTag
\* Comments, but for what may begin a CDATA section.
LEMMA CommentsEnd ==
  ASSUME NEW z, Called(z), z.state \in InComment, NEW c
  PROVE  Outcome(z, Advanced(LexComment(z, c)))
<1>1. Calm(z, z)
  BY DEF Called, Calm
<1>2. Outcome(z, Advanced(handle_bogus_comment_state(z, c)))
  BY <1>1, CalmOps, CalmEnds, MarkupEnds, EmissionEnds
     DEF handle_bogus_comment_state
<1>3. Outcome(z, Advanced(handle_comment_start_state(z, c)))
  BY <1>1, CalmOps, CalmEnds, MarkupEnds
     DEF handle_comment_start_state
<1>4. Outcome(z, Advanced(handle_comment_start_dash_state(z, c)))
  BY <1>1, CalmOps, CalmEnds, MarkupEnds
     DEF handle_comment_start_dash_state
<1>5. Outcome(z, Advanced(handle_comment_state(z, c)))
  BY <1>1, CalmOps, CalmEnds, MarkupEnds
     DEF handle_comment_state
<1>6. Outcome(z, Advanced(handle_comment_lt_state(z, c)))
  BY <1>1, CalmOps, CalmEnds, MarkupEnds
     DEF handle_comment_lt_state
<1>7. Outcome(z, Advanced(handle_comment_lt_bang_state(z, c)))
  BY <1>1, CalmOps, CalmEnds, MarkupEnds
     DEF handle_comment_lt_bang_state
<1>8. Outcome(z, Advanced(handle_comment_lt_bang_dash_state(z, c)))
  BY <1>1, CalmOps, CalmEnds, MarkupEnds
     DEF handle_comment_lt_bang_dash_state
<1>9. Outcome(z, Advanced(handle_comment_lt_bang_dash_dash_state(z, c)))
  BY <1>1, CalmOps, CalmEnds, MarkupEnds
     DEF handle_comment_lt_bang_dash_dash_state
<1>10. Outcome(z, Advanced(handle_comment_end_dash_state(z, c)))
  BY <1>1, CalmOps, CalmEnds, MarkupEnds
     DEF handle_comment_end_dash_state
<1>11. Outcome(z, Advanced(handle_comment_end_state(z, c)))
  BY <1>1, CalmOps, CalmEnds, MarkupEnds
     DEF handle_comment_end_state
<1>12. Outcome(z, Advanced(handle_comment_end_bang_state(z, c)))
  BY <1>1, CalmOps, CalmEnds, MarkupEnds
     DEF handle_comment_end_bang_state
<1>13. QED BY <1>2, <1>3, <1>4, <1>5, <1>6, <1>7,
              <1>8, <1>9, <1>10, <1>11, <1>12
           DEF InComment, Comments, LexComment

\* Doctypes.
LEMMA DoctypesEnd ==
  ASSUME NEW z, Called(z), z.state \in Doctypes, NEW c
  PROVE  Outcome(z, Advanced(LexDoctype(z, c)))
<1>1. Calm(z, z)
  BY DEF Called, Calm
<1>2. \A tight, spaceState, doubleQuoted, singleQuoted :
        Outcome(z, Advanced(IdExpected(z, c, tight, spaceState, doubleQuoted, singleQuoted)))
  BY <1>1, CalmOps, CalmEnds, MarkupEnds DEF IdExpected
<1>3. \A k \in Nat : \A state : Outcome(z, Advanced(reconsume_in_state(Advance(z, k), state)))
  BY CalmOps, CalmEnds, OpensEnd
<1>4. Outcome(z, Advanced(handle_doctype_state(z, c)))
  BY <1>1, CalmOps, CalmEnds, MarkupEnds DEF handle_doctype_state, DoctypeEntered
<1>5. Outcome(z, Advanced(handle_before_doctype_name_state(z, c)))
  BY <1>1, CalmOps, CalmEnds, MarkupEnds DEF handle_before_doctype_name_state
<1>6. Outcome(z, Advanced(handle_doctype_name_state(z, c)))
  BY <1>1, CalmOps, CalmEnds, MarkupEnds DEF handle_doctype_name_state
<1>7. Outcome(z, Advanced(handle_after_doctype_name_state(z, c)))
  BY <1>1, <1>3, CalmOps, CalmEnds, MarkupEnds DEF handle_after_doctype_name_state
<1>8. Outcome(z, Advanced(handle_after_doctype_public_keyword_state(z, c)))
  BY <1>1, <1>2, MarkupEnds DEF handle_after_doctype_public_keyword_state
<1>9. Outcome(z, Advanced(handle_before_doctype_public_id_state(z, c)))
  BY <1>1, <1>2, MarkupEnds DEF handle_before_doctype_public_id_state
<1>10. Outcome(z, Advanced(handle_after_doctype_public_id_state(z, c)))
  BY <1>1, <1>2, MarkupEnds DEF handle_after_doctype_public_id_state
<1>11. Outcome(z, Advanced(handle_between_doctype_public_system_id_state(z, c)))
  BY <1>1, <1>2, MarkupEnds DEF handle_between_doctype_public_system_id_state
<1>12. Outcome(z, Advanced(handle_after_doctype_system_keyword_state(z, c)))
  BY <1>1, <1>2, MarkupEnds DEF handle_after_doctype_system_keyword_state
<1>13. Outcome(z, Advanced(handle_before_doctype_system_id_state(z, c)))
  BY <1>1, <1>2, MarkupEnds DEF handle_before_doctype_system_id_state
<1>14. Outcome(z, Advanced(handle_after_doctype_system_id_state(z, c)))
  BY <1>1, CalmOps, CalmEnds, MarkupEnds DEF handle_after_doctype_system_id_state
<1>15. Outcome(z, Advanced(handle_bogus_doctype_state(z, c)))
  BY <1>1, CalmOps, CalmEnds, MarkupEnds, EmissionEnds DEF handle_bogus_doctype_state
<1>16. \A quote : Outcome(z, Advanced(handle_doctype_public_id_quoted_state(z, c, quote)))
  BY <1>1, CalmOps, CalmEnds, MarkupEnds DEF handle_doctype_public_id_quoted_state
<1>17. \A quote : Outcome(z, Advanced(handle_doctype_system_id_quoted_state(z, c, quote)))
  BY <1>1, CalmOps, CalmEnds, MarkupEnds DEF handle_doctype_system_id_quoted_state
<1>18. QED BY <1>4, <1>5, <1>6, <1>7, <1>8, <1>9, <1>10,
              <1>11, <1>12, <1>13, <1>14, <1>15, <1>16, <1>17
           DEF Doctypes, LexDoctype

(* ------------------------ Where the contents end --------------------------- *)

\* Numbers have a least one.
LEMMA LeastExists ==
  ASSUME NEW S \in SUBSET Nat, S # {}
  PROVE  Least(S) \in S /\ \A k \in S : Least(S) <= k
<1> DEFINE R == OpToRel(<, Nat)
<1>1. IsWellFoundedOn(R, Nat)
  BY NatLessThanWellFounded
<1>2. \A x, y \in Nat : x < y => <<x, y>> \in R
  BY DEF OpToRel
<1> HIDE DEF R
<1>3. S \subseteq Nat
  OBVIOUS
<1>4. PICK k \in S : \A other \in S : ~(<<other, k>> \in R)
  BY <1>1, <1>3, WFMin
<1>5. ASSUME NEW other \in S PROVE k <= other
  <2>1. k \in Nat /\ other \in Nat /\ ~(other < k)
    BY <1>2, <1>4
  <2>2. QED BY <2>1
<1>6. QED BY <1>5, Zenon DEF Least

\* ContentEnd is the first place that ends the contents, or the end of the text.
LEMMA ContentEndIs ==
  ASSUME text \in Seq(Symbols), NEW c, c.from \in Nat \ {0}
  PROVE  LET end == ContentEnd(c)
         IN  /\ end \in Nat /\ end <= Len(text) + 1
             /\ end = Len(text) + 1 \/ EndsContents(c, end)
             /\ \A k : EndsContents(c, k) => end <= k
<1> DEFINE places == {k \in c.from .. Len(text) :
                        /\ c.name # <<>> /\ Ends(<<"<", "/">> \o c.name, k)
                        /\ ~(c.state = "SCRIPT_DATA" /\ InDouble(c.from, k))}
           S == {Len(text) + 1} \cup places
           end == ContentEnd(c)
<1>1. \A k : k \in places <=> EndsContents(c, k)
  BY DEF EndsContents
<1>2. S \in SUBSET Nat /\ S # {} /\ Len(text) + 1 \in S
  OBVIOUS
<1>3. end = Least(S)
  BY DEF ContentEnd
<1> HIDE DEF places, end
<1>4. Least(S) \in S /\ \A k \in S : Least(S) <= k
  BY <1>2, LeastExists
<1>5. QED BY <1>1, <1>2, <1>3, <1>4 DEF end

\* The last token lies as it should, and the contents go on or end.
Onward(n) ==
  /\ LiesRight(n)
  /\ Over(n) \/ (n.emitted /\ Ended(n)) \/ (~n.emitted /\ InEndTag(n)) \/ Within(n)

\* Whatever a handler leaves, if the contents were read, or go on or end as they should.
LEMMA ContentsGo ==
  ASSUME NEW z, Ready(z), Contents(z), NEW n, Kept(n), Outcome(z, n),
         z.content.state \in Hidden => Over(z) \/ Onward(n)
  PROVE  Contents(n)
<1> DEFINE c == z.content
           token == n.out[Len(n.out)]
<1>1. /\ text \in Seq(Symbols) /\ IsSeq(z.out) /\ n.content = c /\ c.from \in Nat \ {0}
      /\ z.start \in Nat /\ n.start \in Nat /\ z.start <= n.start
  BY DEF Ready, Kept, History, Outcome, Contents, Places
<1>2. ASSUME n.emitted = TRUE
      PROVE  /\ token.from = z.start
             /\ token.type = "START_TAG" =>
                  n.state = "DATA" /\ n.resume = 0 /\ n.last = Tag(token.value.name)
  <2>1. PICK type, value, to, at :
          /\ n.out = Append(z.out, Token(type, value, z.start, to, at))
          /\ type = "START_TAG" =>
               n.state = "DATA" /\ n.resume = 0 /\ n.last = Tag(value.name)
    BY <1>2 DEF Outcome
  <2> DEFINE new == Token(type, value, z.start, to, at)
  <2>2. new.from = z.start /\ new.type = type /\ new.value = value
    BY DEF Token
  <2> HIDE DEF new
  <2>3. n.out = Append(z.out, new)
    BY <2>1 DEF new
  <2>4. token = new
    BY <1>1, <2>3, AppendSeq
  <2>5. QED BY <2>1, <2>2, <2>4
<1>3. Announced(n)
  BY <1>2 DEF Announced, Outcome
<1>4. CASE c.state \notin Hidden
  BY <1>1, <1>3, <1>4 DEF Contents, LiesRight, Outcome
<1>5. CASE c.state \in Hidden /\ Over(z)
  <2>1. PICK k \in 1 .. z.start - 1 : EndsContents(c, k)
    BY <1>5 DEF Over
  <2>2. Over(n)
    BY <1>1, <2>1 DEF Over
  <2>3. LiesRight(n)
    <3>1. ASSUME n.emitted = TRUE PROVE token.from > ContentEnd(c)
      <4>1. ContentEnd(c) \in Nat /\ ContentEnd(c) <= k
        BY <1>1, <2>1, ContentEndIs
      <4>2. token.from = z.start
        BY <1>2, <3>1
      <4> HIDE DEF c, token
      <4>3. QED BY <1>1, <2>1, <4>1, <4>2
    <3>2. QED BY <1>1, <3>1 DEF LiesRight, Outcome
  <2>4. QED BY <1>1, <1>3, <1>5, <2>2, <2>3 DEF Contents, Outcome
<1>6. CASE c.state \in Hidden /\ Onward(n)
  BY <1>1, <1>3, <1>6 DEF Contents, Onward, Outcome
<1>7. QED BY <1>4, <1>5, <1>6

\* Outside a section no token is one of a section.
LEMMA SectionsGo ==
  ASSUME NEW z, Ready(z), Sections(z), z.cdata = FALSE, NEW n, Outcome(z, n)
  PROVE  Sections(n)
<1>1. IsSeq(z.out) /\ n.cdata = FALSE /\ \A i \in DOMAIN z.out : SectionToken(z.out[i])
  BY DEF Ready, Kept, History, Outcome, Sections
<1>2. CASE n.out = z.out
  BY <1>1, <1>2 DEF Sections
<1>3. CASE n.emitted = TRUE
  <2>1. PICK type, value, to, at :
          /\ n.out = Append(z.out, Token(type, value, z.start, to, at))
          /\ type = "CDATA" => z.cdata
    BY <1>3 DEF Outcome
  <2> DEFINE new == Token(type, value, z.start, to, at)
  <2>2. SectionToken(new)
    BY <2>1 DEF Token, SectionToken
  <2> HIDE DEF new
  <2>3. n.out = Append(z.out, new)
    BY <2>1 DEF new
  <2>4. \A i \in DOMAIN n.out : SectionToken(n.out[i])
    BY <1>1, <2>2, <2>3, AppendSeq
  <2>5. QED BY <1>1, <2>4 DEF Sections
<1>4. QED BY <1>2, <1>3 DEF Outcome

(* ------------------- The attributes of the end tag ------------------------- *)

\* x is z but for what a tag's attributes change
InThisTag(z, x) ==
  /\ Calm(z, x) /\ x.state \in Attributes
  /\ DOMAIN x.tag = TagFields /\ x.tag.is_start = z.tag.is_start

\* what a handler of an attribute of an end tag leaves
TagOutcome(z, n) ==
  \/ /\ n.emitted = FALSE /\ n.tag.is_start = z.tag.is_start
     /\ n.state \in Attributes \/ (n.state \in References /\ n.return \in InValue)
  \/ /\ n.emitted = TRUE /\ z.pos <= n.start
     /\ \E value, to, at :
          \/ n.out = Append(z.out, Token("EOF", value, z.start, to, at))
          \/ n.out = Append(z.out, Token("END_TAG", value, z.start, to, at))

\* The operations of those handlers.
LEMMA InThisTagOps ==
  \A z, x : InThisTag(z, x) =>
    /\ InThisTag(z, tokenizer_add_parse_error(x))
    /\ \A state \in Attributes : /\ InThisTag(z, gumbo_tokenizer_set_state(x, state))
                                 /\ InThisTag(z, reconsume_in_state(x, state))
    /\ \A chars : InThisTag(z, append_to_tag_buffer(x, chars))
    /\ InThisTag(z, NullInTag(x))
    /\ InThisTag(z, [x EXCEPT !.tag.self_closing = TRUE])
    /\ InThisTag(z, finish_attribute_value(x))
<1>1. SUFFICES ASSUME NEW z, NEW x, InThisTag(z, x)
               PROVE
    /\ InThisTag(z, tokenizer_add_parse_error(x))
    /\ \A state \in Attributes : /\ InThisTag(z, gumbo_tokenizer_set_state(x, state))
                                 /\ InThisTag(z, reconsume_in_state(x, state))
    /\ \A chars : InThisTag(z, append_to_tag_buffer(x, chars))
    /\ InThisTag(z, NullInTag(x))
    /\ InThisTag(z, [x EXCEPT !.tag.self_closing = TRUE])
    /\ InThisTag(z, finish_attribute_value(x))
  OBVIOUS
<1>2. \A y : InThisTag(z, y) => InThisTag(z, tokenizer_add_parse_error(y))
  BY DEF InThisTag, Calm, StateFields, tokenizer_add_parse_error
<1>3. \A state \in Attributes : /\ InThisTag(z, gumbo_tokenizer_set_state(x, state))
                                /\ InThisTag(z, reconsume_in_state(x, state))
  BY <1>1 DEF InThisTag, Calm, StateFields, gumbo_tokenizer_set_state, reconsume_in_state
<1>4. \A y, chars : InThisTag(z, y) => InThisTag(z, append_to_tag_buffer(y, chars))
  BY DEF InThisTag, Calm, StateFields, TagFields, append_to_tag_buffer
<1>5. InThisTag(z, NullInTag(x))
  BY <1>1, <1>2, <1>4 DEF NullInTag
<1>6. InThisTag(z, [x EXCEPT !.tag.self_closing = TRUE])
  BY <1>1 DEF InThisTag, Calm, StateFields, TagFields
<1>7. \A y : InThisTag(z, y) => InThisTag(z, reinitialize_tag_buffer(y))
  BY DEF InThisTag, Calm, StateFields, TagFields, reinitialize_tag_buffer, assert
<1>8. InThisTag(z, finish_attribute_value(x))
  <2> DEFINE last == Len(x.tag.attributes)
  <2>1. InThisTag(z, [x EXCEPT !.tag.drop = FALSE])
    BY <1>1 DEF InThisTag, Calm, StateFields, TagFields
  <2>2. InThisTag(z, [x EXCEPT !.tag.attributes[last].value = x.tag.buffer])
    BY <1>1 DEF InThisTag, Calm, StateFields, TagFields
  <2>3. InThisTag(z, assert(x, FALSE))
    BY <1>1 DEF InThisTag, Calm, StateFields, assert
  <2>4. QED BY <1>7, <2>1, <2>2, <2>3 DEF finish_attribute_value
<1>9. QED BY <1>1, <1>2, <1>3, <1>4, <1>5, <1>6, <1>8

\* The name of an attribute is finished.
LEMMA InThisTagNames ==
  \A z, x : InThisTag(z, x) => InThisTag(z, finish_attribute_name(x))
<1>1. SUFFICES ASSUME NEW z, NEW x, InThisTag(z, x)
               PROVE  InThisTag(z, finish_attribute_name(x))
  OBVIOUS
<1>2. \A y : InThisTag(z, y) => InThisTag(z, reinitialize_tag_buffer(y))
  BY DEF InThisTag, Calm, StateFields, TagFields, reinitialize_tag_buffer, assert
<1>3. CASE TooMany(x)
  <2>1. InThisTag(z, reinitialize_tag_buffer(x))
    BY <1>1, <1>2
  <2> DEFINE y == reinitialize_tag_buffer(x)
  <2> HIDE DEF y
  <2>2. InThisTag(z, [y EXCEPT !.tag.drop = TRUE, !.too_many = TRUE])
    BY <2>1 DEF InThisTag, Calm, StateFields, TagFields, y
  <2>3. QED BY <1>3, <2>2 DEF finish_attribute_name, y
<1>4. CASE ~TooMany(x)
  <2> DEFINE tag == WithLookup(x.tag)
             new == IF IsDuplicate(tag) THEN [tag EXCEPT !.drop = TRUE] ELSE AddAttribute(tag)
             y == assert(x, tag.listed)
             u == [y EXCEPT !.tag = new, !.errors = IF IsDuplicate(tag) THEN @ + 1 ELSE @]
  <2>1. DOMAIN tag = TagFields /\ tag.is_start = z.tag.is_start
    BY <1>1 DEF WithLookup, InThisTag, TagFields
  <2>2. Calm(z, y) /\ y.state = x.state
    BY <1>1 DEF InThisTag, Calm, StateFields, assert
  <2> HIDE DEF tag, y
  <2>3. DOMAIN new = TagFields /\ new.is_start = z.tag.is_start
    BY <2>1 DEF TagFields, AddAttribute
  <2> HIDE DEF new
  <2>4. InThisTag(z, u)
    BY <1>1, <2>2, <2>3 DEF InThisTag, Calm, StateFields
  <2>5. QED BY <1>2, <1>4, <2>4 DEF finish_attribute_name, u, new, y, tag
<1>5. QED BY <1>3, <1>4

\* What those handlers leave.
LEMMA InThisTagEnds ==
  ASSUME text \in Seq(Symbols), NEW z, Called(z), z.pos \in 1 .. Len(text) + 1,
         z.tag.is_start = FALSE
  PROVE  \A x : InThisTag(z, x) =>
           /\ TagOutcome(z, Advanced(x)) /\ TagOutcome(z, Advanced(TagDone(x)))
           /\ TagOutcome(z, Advanced(EofInTag(x)))
           /\ \A state \in InValue : TagOutcome(z, Advanced(StartsReference(x, state)))
<1>1. SUFFICES ASSUME NEW x, InThisTag(z, x)
               PROVE
           /\ TagOutcome(z, Advanced(x)) /\ TagOutcome(z, Advanced(TagDone(x)))
           /\ TagOutcome(z, Advanced(EofInTag(x)))
           /\ \A state \in InValue : TagOutcome(z, Advanced(StartsReference(x, state)))
  OBVIOUS
<1>2. DOMAIN x = StateFields /\ Calm(z, x)
  BY <1>1 DEF InThisTag, Calm
<1>3. TagOutcome(z, Advanced(x))
  <2> DEFINE n == Advanced(x)
  <2>1. n.emitted = x.emitted /\ n.tag = x.tag /\ n.state = x.state
    BY <1>2, AdvancedIs
  <2> HIDE DEF n
  <2>2. TagOutcome(z, n)
    BY <1>1, <2>1 DEF InThisTag, Calm, Called, TagOutcome
  <2>3. QED BY <2>2 DEF n
<1>4. ASSUME NEW y, Calm(z, y), NEW r, NEW type \in {"EOF", "END_TAG"}, NEW value,
             Tells(y, r, type, value)
      PROVE  TagOutcome(z, Advanced(r))
  <2> DEFINE n == Advanced(r)
  <2>1. n.emitted = TRUE /\ n.start = Behind(y)
        /\ n.out = Append(z.out, Token(type, value, z.start, r.pos, y.pos))
    BY <1>4, AdvancedIs DEF Tells, Calm
  <2> HIDE DEF n
  <2>2. z.pos <= n.start
    BY <1>4, <2>1 DEF Calm, Called, Behind
  <2>3. TagOutcome(z, n)
    BY <1>4, <2>1, <2>2 DEF TagOutcome
  <2>4. QED BY <2>3 DEF n
<1>5. TagOutcome(z, Advanced(TagDone(x)))
  <2> DEFINE y == gumbo_tokenizer_set_state(x, "DATA")
  <2>1. Calm(z, y) /\ DOMAIN y = StateFields
    <3>1. Calm(z, y)
      BY <1>2, CalmOps
    <3> HIDE DEF y
    <3>2. QED BY <3>1 DEF Calm
  <2>2. y.tag.is_start = FALSE
    BY <1>1, <1>2 DEF gumbo_tokenizer_set_state, InThisTag, StateFields
  <2> HIDE DEF y
  <2>3. PICK value : Tells(y, emit_current_tag(y), "END_TAG", value)
    BY <2>1, <2>2, TagTells
  <2>4. TagOutcome(z, Advanced(emit_current_tag(y)))
    BY <1>4, <2>1, <2>3
  <2>5. QED BY <2>4 DEF y, TagDone
<1>6. TagOutcome(z, Advanced(EofInTag(x)))
  <2> DEFINE y == abandon_current_tag(tokenizer_add_parse_error(x))
  <2>1. Calm(z, y) /\ DOMAIN y = StateFields
    <3>1. Calm(z, tokenizer_add_parse_error(x))
      BY <1>2, CalmOps
    <3>2. Calm(z, y)
      BY <3>1, CalmOps
    <3> HIDE DEF y
    <3>3. QED BY <3>2 DEF Calm
  <2> HIDE DEF y
  <2>2. get_char_token_type(y.cdata, EOF) = "EOF"
    BY DEF get_char_token_type, WhiteSpace, Space, NUL, EOF
  <2>3. Tells(y, emit_char(y, EOF), "EOF", EOF)
    BY <2>1, <2>2, CharTells
  <2>4. TagOutcome(z, Advanced(emit_char(y, EOF)))
    BY <1>4, <2>1, <2>3
  <2>5. QED BY <2>4 DEF y, EofInTag, emit_eof
<1>7. ASSUME NEW state \in InValue PROVE TagOutcome(z, Advanced(StartsReference(x, state)))
  <2> DEFINE r == StartsReference(x, state)
             n == Advanced(r)
  <2>1. /\ DOMAIN r = StateFields /\ r.emitted = FALSE /\ r.tag.is_start = z.tag.is_start
        /\ r.state = "CHARACTER_REFERENCE" /\ r.return = state
    BY <1>1, <1>2 DEF StartsReference, set_mark, gumbo_tokenizer_set_state, InThisTag, Calm,
                      Called, StateFields
  <2> HIDE DEF r
  <2>2. /\ n.emitted = FALSE /\ n.tag.is_start = z.tag.is_start
        /\ n.state = "CHARACTER_REFERENCE" /\ n.return = state
    BY <2>1, AdvancedIs
  <2> HIDE DEF n
  <2>3. TagOutcome(z, n)
    BY <1>7, <2>2 DEF TagOutcome, References
  <2>4. QED BY <2>3 DEF n, r
<1>8. QED BY <1>3, <1>5, <1>6, <1>7

\* The handlers of the attributes of an end tag.
LEMMA AttributesEnd ==
  ASSUME text \in Seq(Symbols), NEW z, Called(z), z.pos \in 1 .. Len(text) + 1,
         z.tag.is_start = FALSE, DOMAIN z.tag = TagFields, z.state \in Attributes, NEW c
  PROVE  TagOutcome(z, Advanced(LexTag(z, c)))
<1>1. InThisTag(z, z)
  BY DEF Called, Calm, InThisTag
<1>2. TagOutcome(z, Advanced(handle_before_attr_name_state(z, c)))
  BY <1>1, InThisTagOps, InThisTagEnds DEF handle_before_attr_name_state, Attributes
<1>3. TagOutcome(z, Advanced(handle_attr_name_state(z, c)))
  <2>1. InThisTag(z, finish_attribute_name(z))
    BY <1>1, InThisTagNames
  <2>2. QED BY <1>1, <2>1, InThisTagOps, InThisTagEnds DEF handle_attr_name_state, Attributes
<1>4. TagOutcome(z, Advanced(handle_after_attr_name_state(z, c)))
  BY <1>1, InThisTagOps, InThisTagEnds DEF handle_after_attr_name_state, Attributes
<1>5. TagOutcome(z, Advanced(handle_before_attr_value_state(z, c)))
  BY <1>1, InThisTagOps, InThisTagEnds DEF handle_before_attr_value_state, Attributes
<1>6. TagOutcome(z, Advanced(handle_attr_value_double_quoted_state(z, c)))
  BY <1>1, InThisTagOps, InThisTagEnds
     DEF handle_attr_value_double_quoted_state, QuotedValue, Attributes, InValue
<1>7. TagOutcome(z, Advanced(handle_attr_value_single_quoted_state(z, c)))
  BY <1>1, InThisTagOps, InThisTagEnds
     DEF handle_attr_value_single_quoted_state, QuotedValue, Attributes, InValue
<1>8. TagOutcome(z, Advanced(handle_attr_value_unquoted_state(z, c)))
  BY <1>1, InThisTagOps, InThisTagEnds
     DEF handle_attr_value_unquoted_state, Attributes, InValue
<1>9. TagOutcome(z, Advanced(handle_after_attr_value_quoted_state(z, c)))
  <2> DEFINE y == finish_attribute_value(z)
  <2>1. InThisTag(z, y)
    BY <1>1, InThisTagOps
  <2> HIDE DEF y
  <2>2. TagOutcome(z, Advanced(AfterValue(y, c)))
    BY <2>1, InThisTagOps, InThisTagEnds DEF AfterValue, Attributes
  <2>3. QED BY <2>2 DEF y, handle_after_attr_value_quoted_state
<1>10. TagOutcome(z, Advanced(handle_self_closing_start_tag_state(z, c)))
  BY <1>1, InThisTagOps, InThisTagEnds DEF handle_self_closing_start_tag_state, Attributes
<1>11. QED BY <1>2, <1>3, <1>4, <1>5, <1>6, <1>7, <1>8, <1>9, <1>10 DEF Attributes, LexTag

\* They leave the contents as they should.
LEMMA EndTagGoes ==
  ASSUME NEW z, Ready(z), Contents(z), InEndTag(z), NEW n, Kept(n), Outcome(z, n),
         TagOutcome(z, n)
  PROVE  Onward(n)
<1> DEFINE c == z.content
           token == n.out[Len(n.out)]
<1>1. /\ text \in Seq(Symbols) /\ IsSeq(z.out) /\ n.content = c /\ c.from \in Nat \ {0}
      /\ EndsContents(c, z.start) /\ OpenUpTo(c, z.start) /\ z.tag.is_start = FALSE
      /\ z.start \in Nat \ {0} /\ z.pos \in Nat /\ z.start < z.pos
  <2>1. Kept(z) /\ Stands(z) /\ InTag(z) /\ text \in Seq(Symbols)
    BY DEF Ready, Kept, InEndTag
  <2>2. IsSeq(z.out) /\ z.start \in Nat \ {0} /\ z.pos \in Nat /\ z.start < z.pos
    BY <2>1 DEF Kept, History, Places, Stands
  <2>3. QED BY <2>1, <2>2 DEF Outcome, Contents, InEndTag
<1>2. CASE n.emitted = FALSE
  <2>1. n.start = z.start /\ n.tag.is_start = FALSE
        /\ (n.state \in Attributes \/ (n.state \in References /\ n.return \in InValue))
    BY <1>1, <1>2 DEF Outcome, TagOutcome
  <2>2. n.state # "TAG_NAME" /\ n.state \notin NamesEndTag /\ InTag(n)
    BY <2>1 DEF InTag, BuildsTag, Attributes, References, NamesEndTag
  <2>3. InEndTag(n)
    BY <1>1, <2>1, <2>2 DEF InEndTag
  <2>4. QED BY <1>2, <2>3 DEF Onward, LiesRight
<1>3. CASE n.emitted = TRUE
  <2>1. PICK type, value, to, at :
          /\ type \in {"EOF", "END_TAG"}
          /\ n.out = Append(z.out, Token(type, value, z.start, to, at))
    BY <1>3 DEF TagOutcome
  <2> DEFINE new == Token(type, value, z.start, to, at)
  <2>2. new.from = z.start /\ new.type = type
    BY DEF Token
  <2> HIDE DEF new
  <2>3. n.out = Append(z.out, new)
    BY <2>1 DEF new
  <2>4. token.from = z.start /\ token.type = type
    BY <1>1, <2>2, <2>3, AppendSeq
  <2>5. CASE type = "EOF"
    BY <1>3, <2>4, <2>5 DEF Onward, LiesRight, Ended
  <2>6. CASE type = "END_TAG"
    <3>1. z.pos <= n.start /\ n.start \in Nat
      BY <1>3, <2>6 DEF TagOutcome, Kept, Places
    <3>2. Over(n)
      BY <1>1, <3>1 DEF Over
    <3>3. ContentEnd(c) = z.start
      <4>1. /\ ContentEnd(c) \in Nat /\ ContentEnd(c) <= z.start
            /\ ContentEnd(c) = Len(text) + 1 \/ EndsContents(c, ContentEnd(c))
        BY <1>1, ContentEndIs
      <4>2. z.start <= Len(text) /\ \A k : EndsContents(c, k) => k \in c.from .. Len(text)
        BY <1>1 DEF EndsContents
      <4> HIDE DEF c
      <4>3. ASSUME ContentEnd(c) < z.start PROVE FALSE
        BY <1>1, <4>1, <4>2, <4>3 DEF OpenUpTo
      <4>4. QED BY <1>1, <4>1, <4>3
    <3>4. QED BY <1>1, <2>4, <2>6, <3>2, <3>3 DEF Onward, LiesRight
  <2>7. QED BY <2>1, <2>5, <2>6
<1>4. QED BY <1>2, <1>3 DEF Outcome

(* --------------------------- Character references -------------------------- *)

\* no < in the text from lo, before hi
NoLess(lo, hi) == \A k \in lo .. hi - 1 : text[k] # "<"

\* a handler of a reference is called
RefCalled(y) ==
  /\ Called(y) /\ text \in Seq(Symbols) /\ y.pos \in 1 .. Len(text) + 1
  /\ DOMAIN y.tag = TagFields /\ y.state \in References
  /\ y.return \notin InValue =>
       IF y.state = "AMBIGUOUS_AMPERSAND" THEN y.start = y.pos
       ELSE y.mark \in 1 .. y.pos - 1 /\ y.start <= y.mark

\* x is y but for what the handlers of references change
RefCalm(y, x) ==
  /\ Calm(y, x) /\ DOMAIN x.tag = TagFields /\ x.tag.is_start = y.tag.is_start
  /\ x.state \in References \cup {y.return}

\* what they leave of a reference in text
TextOutcome(z, n) ==
  /\ n.return = z.return /\ n.state \in References \cup {z.return}
  /\ ReadTo(n) \in Nat /\ z.pos <= ReadTo(n) /\ NoLess(z.pos, ReadTo(n))
  /\ n.state = z.return => n.start = n.pos
  /\ n.emitted => \E type \in Characters \cup {"EOF"} : \E value, to, at :
       to <= ReadTo(n) /\ n.out = Append(z.out, Token(type, value, z.start, to, at))

RefOutcome(z, n) ==
  /\ Outcome(z, n)
  /\ z.return \in InValue => TagOutcome(z, n)
  /\ z.return \notin InValue => TextOutcome(z, n)

\* The types that emit_char gives its tokens.
LEMMA CharacterTypes ==
  \A cdata, c : get_char_token_type(cdata, c) \in Characters \cup {"EOF"}
BY DEF get_char_token_type, Characters

\* The operations of those handlers.
LEMMA RefOps ==
  \A y, x : RefCalm(y, x) =>
    /\ RefCalm(y, tokenizer_add_parse_error(x))
    /\ tokenizer_add_parse_error(x).reconsume = x.reconsume
    /\ tokenizer_add_parse_error(x).state = x.state
    /\ \A word : /\ RefCalm(y, append_to_temporary_buffer(x, word))
                 /\ append_to_temporary_buffer(x, word).reconsume = x.reconsume
                 /\ append_to_temporary_buffer(x, word).state = x.state
    /\ \A word : /\ RefCalm(y, append_to_tag_buffer(x, word))
                 /\ append_to_tag_buffer(x, word).reconsume = x.reconsume
                 /\ append_to_tag_buffer(x, word).state = x.state
    /\ \A state \in References \cup {y.return} :
         /\ RefCalm(y, gumbo_tokenizer_set_state(x, state))
         /\ gumbo_tokenizer_set_state(x, state).state = state
         /\ RefCalm(y, reconsume_in_state(x, state))
         /\ reconsume_in_state(x, state).state = state
         /\ reconsume_in_state(x, state).reconsume = TRUE
    /\ \A code : RefCalm(y, [x EXCEPT !.code = code]) /\ [x EXCEPT !.code = code].state = x.state
<1>1. SUFFICES ASSUME NEW y, NEW x, RefCalm(y, x)
               PROVE
    /\ RefCalm(y, tokenizer_add_parse_error(x))
    /\ tokenizer_add_parse_error(x).reconsume = x.reconsume
    /\ tokenizer_add_parse_error(x).state = x.state
    /\ \A word : /\ RefCalm(y, append_to_temporary_buffer(x, word))
                 /\ append_to_temporary_buffer(x, word).reconsume = x.reconsume
                 /\ append_to_temporary_buffer(x, word).state = x.state
    /\ \A word : /\ RefCalm(y, append_to_tag_buffer(x, word))
                 /\ append_to_tag_buffer(x, word).reconsume = x.reconsume
                 /\ append_to_tag_buffer(x, word).state = x.state
    /\ \A state \in References \cup {y.return} :
         /\ RefCalm(y, gumbo_tokenizer_set_state(x, state))
         /\ gumbo_tokenizer_set_state(x, state).state = state
         /\ RefCalm(y, reconsume_in_state(x, state))
         /\ reconsume_in_state(x, state).state = state
         /\ reconsume_in_state(x, state).reconsume = TRUE
    /\ \A code : RefCalm(y, [x EXCEPT !.code = code]) /\ [x EXCEPT !.code = code].state = x.state
  OBVIOUS
<1>2. /\ RefCalm(y, tokenizer_add_parse_error(x))
      /\ tokenizer_add_parse_error(x).reconsume = x.reconsume
      /\ tokenizer_add_parse_error(x).state = x.state
  BY <1>1 DEF RefCalm, Calm, StateFields, tokenizer_add_parse_error
<1>3. \A word : /\ RefCalm(y, append_to_temporary_buffer(x, word))
                /\ append_to_temporary_buffer(x, word).reconsume = x.reconsume
                /\ append_to_temporary_buffer(x, word).state = x.state
  BY <1>1 DEF RefCalm, Calm, StateFields, append_to_temporary_buffer
<1>4. \A word : /\ RefCalm(y, append_to_tag_buffer(x, word))
                /\ append_to_tag_buffer(x, word).reconsume = x.reconsume
                /\ append_to_tag_buffer(x, word).state = x.state
  BY <1>1 DEF RefCalm, Calm, StateFields, TagFields, append_to_tag_buffer
<1>5. ASSUME NEW state \in References \cup {y.return}
      PROVE  /\ RefCalm(y, gumbo_tokenizer_set_state(x, state))
             /\ gumbo_tokenizer_set_state(x, state).state = state
             /\ RefCalm(y, reconsume_in_state(x, state))
             /\ reconsume_in_state(x, state).state = state
             /\ reconsume_in_state(x, state).reconsume = TRUE
  BY <1>1 DEF RefCalm, Calm, StateFields, gumbo_tokenizer_set_state, reconsume_in_state
<1>6. \A code : RefCalm(y, [x EXCEPT !.code = code]) /\ [x EXCEPT !.code = code].state = x.state
  BY <1>1 DEF RefCalm, Calm, StateFields
<1>7. QED BY <1>2, <1>3, <1>4, <1>5, <1>6

\* A handler that goes on with the reference, or ends it in the value or the text.
LEMMA RefGoes ==
  ASSUME NEW y, RefCalled(y), NEW x, RefCalm(y, x),
         y.return \notin InValue /\ x.state = y.return =>
           y.state = "AMBIGUOUS_AMPERSAND" /\ x.reconsume = TRUE,
         x.reconsume = TRUE \/ SymbolAt(y.pos) # "<"
  PROVE  RefOutcome(y, Advanced(x))
<1> DEFINE n == Advanced(x)
<1>1. /\ DOMAIN x = StateFields /\ x.emitted = FALSE /\ x.resume = 0 /\ x.pos = y.pos
      /\ x.start = y.start /\ x.return = y.return /\ x.state \in References \cup {y.return}
      /\ x.tag.is_start = y.tag.is_start
  BY DEF RefCalm, Calm, RefCalled, Called
<1>2. Outcome(y, n)
  BY CalmEnds DEF RefCalm, RefCalled
<1>3. /\ n.emitted = FALSE /\ n.resume = 0 /\ n.start = y.start /\ n.return = y.return
      /\ n.state = x.state /\ n.tag = x.tag
      /\ n.pos = IF x.reconsume THEN y.pos ELSE Behind(x)
  BY <1>1, AdvancedIs
<1> HIDE DEF n
<1>4. y.return \in InValue => TagOutcome(y, n)
  BY <1>1, <1>3 DEF TagOutcome, InValue, Attributes
<1>5. ASSUME y.return \notin InValue PROVE TextOutcome(y, n)
  <2>1. y.pos \in Nat /\ n.pos \in Nat /\ y.pos <= n.pos /\ NoLess(y.pos, n.pos)
    BY <1>1, <1>3 DEF Behind, NoLess, SymbolAt, RefCalled
  <2>2. n.state = y.return => n.start = n.pos
    BY <1>3, <1>5 DEF RefCalled
  <2>3. QED BY <1>1, <1>3, <2>1, <2>2 DEF TextOutcome, ReadTo
<1>6. QED BY <1>2, <1>4, <1>5 DEF RefOutcome, n

\* What was read of a reference that is none is text.
LEMMA RefFlushes ==
  ASSUME NEW y, RefCalled(y), y.state # "AMBIGUOUS_AMPERSAND", NEW x, RefCalm(y, x),
         x.reconsume = TRUE
  PROVE  RefOutcome(y, Advanced(flush_code_points_consumed_as_character_reference(x)))
<1> DEFINE chars == SubSeq(text, x.mark, x.pos - 1)
           r == flush_code_points_consumed_as_character_reference(x)
<1>1. DOMAIN x = StateFields /\ x.return = y.return /\ Calm(y, x)
  BY DEF RefCalm, Calm
<1>2. character_reference_part_of_attribute(x) <=> y.return \in InValue
  BY <1>1 DEF character_reference_part_of_attribute, InValue
<1>3. CASE y.return \in InValue
  <2>1. r = append_to_tag_buffer(x, chars)
    BY <1>2, <1>3 DEF flush_code_points_consumed_as_character_reference
  <2> HIDE DEF r, chars
  <2>2. RefCalm(y, r) /\ r.reconsume = TRUE
    BY <2>1, RefOps
  <2>3. RefOutcome(y, Advanced(r))
    BY <1>3, <2>2, RefGoes
  <2>4. QED BY <2>3 DEF r
<1>4. CASE y.return \notin InValue
  <2> DEFINE n == Advanced(r)
             type == get_char_token_type(x.cdata, SymbolAt(x.mark))
  <2>1. r = emit_from_mark(x)
    BY <1>2, <1>4 DEF flush_code_points_consumed_as_character_reference
  <2>2. /\ text \in Seq(Symbols) /\ y.pos \in 1 .. Len(text) + 1 /\ y.mark \in 1 .. y.pos - 1
        /\ y.start <= y.mark /\ x.pos = y.pos /\ x.mark = y.mark /\ x.out = y.out
        /\ x.start = y.start /\ Called(y)
    BY <1>1, <1>4 DEF RefCalled, Calm
  <2>3. /\ DOMAIN r = StateFields /\ r.resume = y.pos /\ r.state = x.state
        /\ r.return = y.return /\ r.emitted = TRUE /\ r.pos = y.mark + 1 /\ r.start = y.mark + 1
        /\ r.out = Append(y.out, Token(type, SymbolAt(x.mark), y.start, y.mark + 1, y.mark))
    <3>1. x.pos \in 1 .. Len(text) + 1 /\ x.mark \in 1 .. x.pos - 1
      BY <2>2
    <3>2. /\ DOMAIN r = StateFields /\ r.resume = x.pos /\ r.state = x.state
          /\ r.return = x.return /\ r.emitted = TRUE /\ r.pos = x.mark + 1 /\ r.start = x.mark + 1
          /\ r.out = Append(x.out, Token(type, SymbolAt(x.mark), x.start, x.mark + 1, x.mark))
      <4> HIDE DEF r
      <4>1. r = emit_from_mark(x)
        BY <2>1
      <4>2. QED BY <1>1, <2>2, <3>1, <4>1, MarkTells
    <3>3. QED BY <1>1, <2>2, <3>2
  <2>4. Outcome(y, n)
    BY <1>1, <2>1, <2>2, MarkEnds
  <2>5. type \in Characters \cup {"EOF"}
    BY CharacterTypes
  <2> HIDE DEF r, type
  <2>6. /\ n.resume = y.pos /\ n.state = x.state /\ n.return = y.return /\ n.emitted = TRUE
        /\ n.start = y.mark + 1 /\ n.pos = y.mark + 1 /\ n.out = r.out
    BY <2>3, AdvancedIs
  <2> HIDE DEF n
  <2>7. ReadTo(n) = y.pos
    BY <2>2, <2>6 DEF ReadTo
  <2>8. NoLess(y.pos, y.pos)
    BY <2>2 DEF NoLess
  <2>9. ReadTo(n) \in Nat /\ y.mark + 1 <= ReadTo(n) /\ y.pos <= ReadTo(n)
    BY <2>2, <2>7
  <2>10. TextOutcome(y, n)
    BY <2>3, <2>5, <2>6, <2>7, <2>8, <2>9 DEF TextOutcome, RefCalm
  <2>11. QED BY <1>4, <2>4, <2>10 DEF RefOutcome, n, r
<1>5. QED BY <1>3, <1>4

\* A reference stands for its characters.
LEMMA RefTells ==
  ASSUME NEW y, RefCalled(y), y.state # "AMBIGUOUS_AMPERSAND", NEW x, RefCalm(y, x),
         x.reconsume = TRUE, x.state = y.return, NEW first, NEW second
  PROVE  RefOutcome(y, Advanced(flush_char_ref(x, first, second)))
<1> DEFINE r == flush_char_ref(x, first, second)
<1>1. DOMAIN x = StateFields /\ x.return = y.return /\ Calm(y, x)
  BY DEF RefCalm, Calm
<1>2. character_reference_part_of_attribute(x) <=> y.return \in InValue
  BY <1>1 DEF character_reference_part_of_attribute, InValue
<1>3. CASE y.return \in InValue
  <2>1. \E chars : r = append_to_tag_buffer(x, chars)
    BY <1>2, <1>3 DEF flush_char_ref
  <2> HIDE DEF r
  <2>2. RefCalm(y, r) /\ r.reconsume = TRUE
    BY <2>1, RefOps
  <2>3. RefOutcome(y, Advanced(r))
    BY <1>3, <2>2, RefGoes
  <2>4. QED BY <2>3 DEF r
<1>4. CASE y.return \notin InValue
  <2> DEFINE n == Advanced(r)
             u == [x EXCEPT !.buffered = second]
             type == get_char_token_type(u.cdata, first)
  <2>1. r = emit_char(u, first)
    BY <1>2, <1>4 DEF flush_char_ref
  <2>2. /\ DOMAIN u = StateFields /\ u.content = x.content /\ u.cdata = x.cdata
        /\ u.resume = x.resume /\ u.state = x.state /\ u.return = x.return
        /\ u.reconsume = x.reconsume /\ u.pos = x.pos /\ u.start = x.start /\ u.out = x.out
        /\ u.last = x.last
    BY <1>1 DEF StateFields
  <2> HIDE DEF u
  <2>3. Tells(u, r, type, first) /\ r.last = u.last
    BY <2>1, <2>2, CharTells
  <2>4. type \in Characters \cup {"EOF"} /\ (type = "CDATA" => y.cdata)
    <3>1. u.cdata = y.cdata
      BY <1>1, <2>2 DEF Calm
    <3>2. QED BY <3>1, CharacterTypes DEF get_char_token_type
  <2>5. y.pos \in Nat /\ y.start \in Nat /\ y.start <= y.pos /\ y.pos >= 1
    BY DEF RefCalled, Called
  <2> HIDE DEF r, type
  <2>6. /\ n.resume = 0 /\ n.state = y.return /\ n.return = y.return /\ n.emitted = TRUE
        /\ n.start = y.pos /\ n.pos = y.pos /\ n.content = y.content /\ n.cdata = y.cdata
        /\ n.out = Append(y.out, Token(type, first, y.start, y.pos, y.pos)) /\ n.last = y.last
    <3>1. /\ DOMAIN r = StateFields /\ r.resume = 0 /\ r.state = y.return /\ r.return = y.return
          /\ r.emitted = TRUE /\ r.start = y.pos /\ r.pos = y.pos /\ r.content = y.content
          /\ r.cdata = y.cdata /\ r.last = y.last
          /\ r.out = Append(y.out, Token(type, first, y.start, y.pos, y.pos))
      BY <1>1, <2>2, <2>3 DEF Tells, Calm, RefCalled, Called, Behind
    <3>2. QED BY <3>1, AdvancedIs
  <2> HIDE DEF n
  <2>7. Outcome(y, n)
    BY <2>4, <2>5, <2>6 DEF Outcome, Characters
  <2>8. /\ ReadTo(n) = y.pos /\ NoLess(y.pos, y.pos) /\ ReadTo(n) \in Nat
        /\ y.pos <= ReadTo(n)
    BY <2>5, <2>6 DEF ReadTo, NoLess
  <2>9. TextOutcome(y, n)
    BY <2>4, <2>6, <2>8 DEF TextOutcome
  <2>10. RefOutcome(y, n)
    BY <1>4, <2>7, <2>9 DEF RefOutcome
  <2>11. QED BY <2>10 DEF n, r
<1>5. QED BY <1>3, <1>4

\* A reference is called as its handlers assume.
LEMMA ReadyRefers ==
  ASSUME NEW z, Ready(z), z.state \in References
  PROVE  RefCalled(z) /\ RefCalm(z, z) /\ SymbolAt(z.pos) = Current(z)
<1>1. /\ Kept(z) /\ Shape(z) /\ Places(z) /\ text \in Seq(Symbols)
      /\ InText(z) \/ z.return \in InValue
      /\ InText(z) => ~InTag(z)
      /\ InText(z) /\ z.state \in Refers => MarkedAt(z, "&")
  BY ReadyReference
<1>2. Called(z)
  BY <1>1 DEF Called, Ready, Kept, Shape, Places
<1>3. z.return \notin InValue =>
        IF z.state = "AMBIGUOUS_AMPERSAND" THEN z.start = z.pos
        ELSE z.mark \in 1 .. z.pos - 1 /\ z.start <= z.mark
  <2>1. Stands(z)
    BY <1>1 DEF Ready, Kept
  <2>2. CASE z.state = "AMBIGUOUS_AMPERSAND"
    BY <1>1, <2>1, <2>2 DEF Stands
  <2>3. CASE z.state # "AMBIGUOUS_AMPERSAND"
    BY <1>1, <2>3 DEF Refers, MarkedAt, Places
  <2>4. QED BY <2>2, <2>3
<1>4. RefCalled(z)
  BY <1>1, <1>2, <1>3 DEF RefCalled, Shape, Places
<1>5. RefCalm(z, z)
  BY <1>4 DEF RefCalled, RefCalm, Called, Calm
<1>6. QED BY <1>4, <1>5 DEF SymbolAt, Current

\* What the handlers of references do with such operations.
LEMMA RefTerms ==
  ASSUME NEW z, RefCalled(z), z.return \in Returns, z.state # "AMBIGUOUS_AMPERSAND"
  PROVE  \A x : RefCalm(z, x) =>
           /\ x.state \in Refers /\ (x.reconsume = TRUE \/ SymbolAt(z.pos) # "<") =>
                RefOutcome(z, Advanced(x))
           /\ x.reconsume = TRUE =>
                RefOutcome(z, Advanced(flush_code_points_consumed_as_character_reference(x)))
           /\ x.reconsume = TRUE /\ x.state = z.return =>
                \A first, second : RefOutcome(z, Advanced(flush_char_ref(x, first, second)))
<1>1. SUFFICES ASSUME NEW x, RefCalm(z, x)
      PROVE  /\ x.state \in Refers /\ (x.reconsume = TRUE \/ SymbolAt(z.pos) # "<") =>
                  RefOutcome(z, Advanced(x))
             /\ x.reconsume = TRUE =>
                  RefOutcome(z, Advanced(flush_code_points_consumed_as_character_reference(x)))
             /\ x.reconsume = TRUE /\ x.state = z.return =>
                  \A first, second : RefOutcome(z, Advanced(flush_char_ref(x, first, second)))
  OBVIOUS
<1>2. ASSUME x.state \in Refers, x.reconsume = TRUE \/ SymbolAt(z.pos) # "<"
      PROVE  RefOutcome(z, Advanced(x))
  <2>1. x.state # z.return
    BY <1>2 DEF Refers, References, Returns, InValue
  <2>2. QED BY <1>1, <1>2, <2>1, RefGoes
<1>3. QED BY <1>1, <1>2, RefFlushes, RefTells

\* What was read of a name that is found counts as the handler's.
LEMMA RefAdvances ==
  ASSUME NEW z, RefCalled(z), z.return \in Returns, z.state # "AMBIGUOUS_AMPERSAND",
         NEW k \in Nat, z.pos + k <= Len(text) + 1, NoLess(z.pos, z.pos + k)
  PROVE  LET y == Advance(z, k)
         IN  /\ RefCalled(y) /\ RefCalm(y, y) /\ y.return = z.return
             /\ y.state # "AMBIGUOUS_AMPERSAND"
             /\ \A n : RefOutcome(y, n) => RefOutcome(z, n)
<1> DEFINE y == Advance(z, k)
<1>1. /\ DOMAIN y = StateFields /\ y.pos = z.pos + k /\ y.mark = z.mark /\ y.start = z.start
      /\ y.state = z.state /\ y.return = z.return /\ y.tag = z.tag /\ y.out = z.out
  BY DEF Advance, RefCalled, Called, StateFields
<1>2. Called(y) /\ Calm(y, y) /\ \A n : Outcome(y, n) => Outcome(z, n)
  BY OpensEnd DEF RefCalled
<1>3. z.pos \in Nat
  BY DEF RefCalled, Called
<1> HIDE DEF y
<1>4. RefCalled(y)
  BY <1>1, <1>2, <1>3 DEF RefCalled
<1>5. RefCalm(y, y)
  BY <1>2, <1>4 DEF RefCalled, RefCalm
<1>6. ASSUME NEW n, RefOutcome(y, n) PROVE RefOutcome(z, n)
  <2>1. Outcome(z, n)
    BY <1>2, <1>6 DEF RefOutcome
  <2>2. z.return \in InValue => TagOutcome(z, n)
    <3>1. SUFFICES ASSUME z.return \in InValue PROVE TagOutcome(z, n)
      OBVIOUS
    <3>2. TagOutcome(y, n)
      BY <1>1, <1>6, <3>1 DEF RefOutcome
    <3>3. CASE n.emitted = FALSE
      BY <1>1, <3>2, <3>3 DEF TagOutcome
    <3>4. CASE n.emitted = TRUE
      <4>1. n.start \in Nat
        BY <2>1, <3>4 DEF Outcome
      <4>2. y.pos <= n.start
        BY <3>2, <3>4 DEF TagOutcome
      <4>3. z.pos <= n.start
        BY <1>1, <1>3, <4>1, <4>2
      <4>4. QED BY <1>1, <3>2, <3>4, <4>3 DEF TagOutcome
    <3>5. QED BY <3>2, <3>3, <3>4 DEF TagOutcome
  <2>3. z.return \notin InValue => TextOutcome(z, n)
    <3>1. SUFFICES ASSUME z.return \notin InValue PROVE TextOutcome(z, n)
      OBVIOUS
    <3>2. TextOutcome(y, n)
      BY <1>1, <1>6, <3>1 DEF RefOutcome
    <3> DEFINE p == ReadTo(n)
    <3>3. p \in Nat /\ y.pos <= p /\ NoLess(y.pos, p)
      BY <3>2 DEF TextOutcome
    <3>4. z.pos <= p /\ NoLess(z.pos, p)
      <4> HIDE DEF p
      <4>1. ASSUME NEW j \in z.pos .. p - 1 PROVE text[j] # "<"
        <5>1. CASE j < y.pos
          BY <1>1, <1>3, <5>1 DEF NoLess
        <5>2. CASE ~(j < y.pos)
          BY <1>1, <1>3, <3>3, <5>2 DEF NoLess
        <5>3. QED BY <5>1, <5>2
      <4>2. QED BY <1>1, <1>3, <3>3, <4>1 DEF NoLess
    <3>5. QED BY <1>1, <3>2, <3>4 DEF TextOutcome
  <2>4. QED BY <2>1, <2>2, <2>3 DEF RefOutcome
<1>7. QED BY <1>1, <1>4, <1>5, <1>6 DEF y

\* A named reference.
LEMMA NamedReferenceEnds ==
  ASSUME NEW z, RefCalled(z), z.return \in Returns, z.state # "AMBIGUOUS_AMPERSAND",
         NEW reference \in NamedReferences, Begins(reference.name, Rest(z))
  PROVE  RefOutcome(z, Advanced(NamedReference(z, reference)))
<1> DEFINE name == reference.name
           y == Advance(z, Len(name))
           after == reconsume_in_state(y, z.return)
           appended == append_to_temporary_buffer(after, name)
           wrong == tokenizer_add_parse_error(after)
<1>1. name \in Seq(NameWords) /\ Len(name) \in 1 .. 3
  BY NamesAre
<1> HIDE DEF name
<1>2. z.pos + Len(name) <= Len(text) + 1 /\ NoLess(z.pos, z.pos + Len(name))
  <2>1. z.pos \in 1 .. Len(text) + 1 /\ text \in Seq(Symbols)
    BY DEF RefCalled
  <2>2. /\ z.pos + Len(name) <= Len(text) + 1
        /\ \A j \in 1 .. Len(name) : text[z.pos + j - 1] = name[j]
    BY <1>1, <2>1, BeginsIs DEF name
  <2>3. \A j \in 1 .. Len(name) : name[j] # "<"
    <3>1. \A j \in 1 .. Len(name) : name[j] \in NameWords
      BY <1>1
    <3>2. "<" \notin NameWords
      BY Zenon DEF NameWords
    <3>3. QED BY <3>1, <3>2, Zenon
  <2>4. ASSUME NEW j \in z.pos .. z.pos + Len(name) - 1 PROVE text[j] # "<"
    <3>1. j - z.pos + 1 \in 1 .. Len(name) /\ z.pos + (j - z.pos + 1) - 1 = j
      BY <1>1, <2>1
    <3>2. QED BY <2>2, <2>3, <3>1
  <2>5. NoLess(z.pos, z.pos + Len(name))
    <3>1. SUFFICES ASSUME NEW j \in z.pos .. z.pos + Len(name) - 1 PROVE text[j] # "<"
      BY <1>1, <2>1 DEF NoLess
    <3>2. QED BY <2>4
  <2>6. QED BY <2>2, <2>5
<1>3. /\ RefCalled(y) /\ RefCalm(y, y) /\ y.return = z.return
      /\ y.state # "AMBIGUOUS_AMPERSAND" /\ \A n : RefOutcome(y, n) => RefOutcome(z, n)
  BY <1>1, <1>2, RefAdvances
<1> HIDE DEF y
<1>4. RefCalm(y, after) /\ after.state = z.return /\ after.reconsume = TRUE
  <2>1. \A state \in References \cup {y.return} :
          /\ RefCalm(y, reconsume_in_state(y, state))
          /\ reconsume_in_state(y, state).state = state
          /\ reconsume_in_state(y, state).reconsume = TRUE
    <3>1. RefCalm(y, y)
      BY <1>3
    <3>2. ASSUME NEW state \in References \cup {y.return}
          PROVE  /\ RefCalm(y, reconsume_in_state(y, state))
                 /\ reconsume_in_state(y, state).state = state
                 /\ reconsume_in_state(y, state).reconsume = TRUE
      BY <3>1, <3>2, RefOps
    <3>3. QED BY <3>2
  <2>2. z.return \in References \cup {y.return}
    BY <1>3
  <2>3. QED BY <2>1, <2>2
<1> HIDE DEF after
<1>5. /\ RefCalm(y, appended) /\ appended.state = z.return /\ appended.reconsume = TRUE
      /\ RefCalm(y, wrong) /\ wrong.state = z.return /\ wrong.reconsume = TRUE
  BY <1>4, RefOps
<1> HIDE DEF appended, wrong
<1>6. /\ RefOutcome(y, Advanced(flush_code_points_consumed_as_character_reference(appended)))
      /\ RefOutcome(y, Advanced(flush_char_ref(after, reference.first, reference.second)))
      /\ RefOutcome(y, Advanced(flush_char_ref(wrong, reference.first, reference.second)))
  BY <1>3, <1>4, <1>5, RefTerms
<1>7. NamedReference(z, reference) \in
        {flush_code_points_consumed_as_character_reference(appended),
         flush_char_ref(after, reference.first, reference.second),
         flush_char_ref(wrong, reference.first, reference.second)}
  BY DEF NamedReference, appended, wrong, after, y, name
<1>8. QED BY <1>3, <1>6, <1>7

\* After an ampersand that begins no reference.
LEMMA AmbiguousEnds ==
  ASSUME NEW z, RefCalled(z), RefCalm(z, z), z.state = "AMBIGUOUS_AMPERSAND",
         NEW c, c = SymbolAt(z.pos)
  PROVE  RefOutcome(z, Advanced(handle_ambiguous_ampersand_state(z, c)))
<1> DEFINE back == reconsume_in_state(z, z.return)
           wrong == reconsume_in_state(tokenizer_add_parse_error(z), z.return)
<1>1. /\ RefCalm(z, back) /\ back.reconsume = TRUE
      /\ RefCalm(z, wrong) /\ wrong.reconsume = TRUE
  BY RefOps
<1> HIDE DEF back, wrong
<1>2. RefOutcome(z, Advanced(back)) /\ RefOutcome(z, Advanced(wrong))
  BY <1>1, RefGoes
<1>3. c \in Alnum => c # "<"
  BY DEF Alnum, Letters, Upper, Words, Digits
<1>4. ASSUME c \in Alnum, z.return \in InValue
      PROVE  RefOutcome(z, Advanced(append_to_tag_buffer(z, <<c>>)))
  <2> DEFINE x == append_to_tag_buffer(z, <<c>>)
  <2>1. RefCalm(z, x)
    BY RefOps
  <2> HIDE DEF x
  <2>2. RefOutcome(z, Advanced(x))
    BY <1>3, <1>4, <2>1, RefGoes
  <2>3. QED BY <2>2 DEF x
<1>5. ASSUME c \in Alnum, z.return \notin InValue
      PROVE  RefOutcome(z, Advanced(emit_char(z, c)))
  <2> DEFINE type == get_char_token_type(z.cdata, c)
             r == emit_char(z, c)
             n == Advanced(r)
  <2>1. Called(z) /\ Calm(z, z) /\ z.start = z.pos /\ z.pos \in Nat /\ DOMAIN z = StateFields
    BY <1>5 DEF RefCalled, Called, RefCalm
  <2>2. Outcome(z, n)
    BY <2>1, EmissionEnds
  <2>3. Tells(z, r, type, c)
    BY <2>1, CharTells
  <2>4. type \in Characters \cup {"EOF"}
    BY CharacterTypes
  <2> HIDE DEF r, type
  <2>5. /\ n.resume = 0 /\ n.state = z.state /\ n.return = z.return /\ n.pos = Behind(z)
        /\ n.start = n.pos /\ n.out = Append(z.out, Token(type, c, z.start, n.pos, z.pos))
    <3>1. DOMAIN r = StateFields /\ r.emitted = TRUE
      BY <2>3 DEF Tells
    <3>2. n.resume = r.resume /\ n.state = r.state /\ n.return = r.return /\ n.pos = r.pos
          /\ n.start = r.start /\ n.out = r.out
      BY <3>1, AdvancedIs
    <3> HIDE DEF n
    <3>3. QED BY <2>1, <2>3, <3>2 DEF Tells, Called
  <2> HIDE DEF n
  <2>6. n.pos \in Nat /\ z.pos <= n.pos /\ n.pos <= z.pos + 1
    BY <2>1, <2>5 DEF Behind
  <2>7. ReadTo(n) = n.pos
    BY <2>5 DEF ReadTo
  <2>8. NoLess(z.pos, n.pos)
    <3>1. ASSUME NEW j \in z.pos .. n.pos - 1 PROVE text[j] # "<"
      <4>1. j = z.pos /\ j <= Len(text)
        <5>1. n.pos = z.pos + 1 /\ j = z.pos
          BY <2>1, <2>6
        <5>2. ~(z.pos > Len(text))
          BY <2>1, <2>5, <5>1 DEF Behind
        <5>3. QED BY <2>1, <5>1, <5>2 DEF RefCalled
      <4>2. c = text[j]
        BY <4>1 DEF SymbolAt, RefCalled
      <4>3. QED BY <1>3, <1>5, <4>2
    <3>2. QED BY <3>1 DEF NoLess
  <2>9. TextOutcome(z, n)
    <3>1. ReadTo(n) \in Nat /\ z.pos <= ReadTo(n) /\ NoLess(z.pos, ReadTo(n))
      BY <2>6, <2>7, <2>8
    <3>2. n.pos <= ReadTo(n)
      BY <2>6, <2>7
    <3>3. n.state \in References \cup {z.return}
      BY <2>5 DEF References
    <3>4. QED BY <2>4, <2>5, <3>1, <3>2, <3>3 DEF TextOutcome
  <2>10. RefOutcome(z, n)
    BY <1>5, <2>2, <2>9 DEF RefOutcome
  <2>11. QED BY <2>10 DEF n, r
<1>6. character_reference_part_of_attribute(z) <=> z.return \in InValue
  BY DEF character_reference_part_of_attribute, InValue
<1>7. QED BY <1>2, <1>4, <1>5, <1>6 DEF handle_ambiguous_ampersand_state, back, wrong

\* The handlers of references.
LEMMA ReferencesEnd ==
  ASSUME NEW z, Ready(z), z.state \in References
  PROVE  RefOutcome(z, Advanced(LexReference(z, Current(z))))
<1> DEFINE c == Current(z)
           e == tokenizer_add_parse_error(z)
<1>1. RefCalled(z) /\ RefCalm(z, z) /\ SymbolAt(z.pos) = c
  BY ReadyRefers
<1>2. z.return \in Returns
  BY DEF Ready, Kept, Returns
<1> HIDE DEF c
<1>3. CASE z.state = "AMBIGUOUS_AMPERSAND"
  BY <1>1, <1>3, AmbiguousEnds DEF LexReference, c
<1>4. ASSUME z.state # "AMBIGUOUS_AMPERSAND"
      PROVE  RefOutcome(z, Advanced(LexReference(z, c)))
  <2>1. \A x : RefCalm(z, x) =>
           /\ x.state \in Refers /\ (x.reconsume = TRUE \/ c # "<") => RefOutcome(z, Advanced(x))
           /\ x.reconsume = TRUE =>
                RefOutcome(z, Advanced(flush_code_points_consumed_as_character_reference(x)))
           /\ x.reconsume = TRUE /\ x.state = z.return =>
                \A first, second : RefOutcome(z, Advanced(flush_char_ref(x, first, second)))
    BY <1>1, <1>2, <1>4, RefTerms
  <2>2. RefCalm(z, e)
    BY <1>1, RefOps
  <2>3. Refers = {"CHARACTER_REFERENCE", "NAMED_CHARACTER_REFERENCE",
                  "NUMERIC_CHARACTER_REFERENCE", "HEXADECIMAL_CHARACTER_REFERENCE_START",
                  "DECIMAL_CHARACTER_REFERENCE_START", "HEXADECIMAL_CHARACTER_REFERENCE",
                  "DECIMAL_CHARACTER_REFERENCE", "NUMERIC_CHARACTER_REFERENCE_END"}
    BY DEF Refers, References
  <2>4. z.state \in Refers
    BY <1>4 DEF Refers
  <2>5. Refers \subseteq References /\ "AMBIGUOUS_AMPERSAND" \in References
    BY DEF Refers, References
  <2>6. \A x, state : RefCalm(z, x) /\ state \in References \cup {z.return} =>
          /\ RefCalm(z, gumbo_tokenizer_set_state(x, state))
          /\ gumbo_tokenizer_set_state(x, state).state = state
          /\ RefCalm(z, reconsume_in_state(x, state))
          /\ reconsume_in_state(x, state).state = state
          /\ reconsume_in_state(x, state).reconsume = TRUE
    BY RefOps
  <2>7. c \in HexDigits \cup {"#", "x", "X", ";"} => c # "<"
    BY DEF HexDigits, Digits
  <2> HIDE DEF e
  <2>8. \A state \in Refers :
          /\ c # "<" => RefOutcome(z, Advanced(gumbo_tokenizer_set_state(z, state)))
          /\ RefOutcome(z, Advanced(reconsume_in_state(z, state)))
          /\ RefOutcome(z, Advanced(reconsume_in_state(e, state)))
    BY <1>1, <2>1, <2>2, <2>5, <2>6
  <2>9. /\ \A state \in {z.return, "AMBIGUOUS_AMPERSAND"} :
             /\ RefOutcome(z, Advanced(flush_code_points_consumed_as_character_reference(
                                         reconsume_in_state(z, state))))
             /\ RefOutcome(z, Advanced(flush_code_points_consumed_as_character_reference(
                                         reconsume_in_state(e, state))))
        /\ \A first, second : RefOutcome(z, Advanced(flush_char_ref(
                                                      reconsume_in_state(z, z.return), first, second)))
    BY <1>1, <2>1, <2>2, <2>5, <2>6
  <2>10. RefOutcome(z, Advanced(handle_character_reference_state(z, c)))
    BY <2>3, <2>7, <2>8, <2>9 DEF handle_character_reference_state
  <2>11. RefOutcome(z, Advanced(handle_named_character_reference_state(z, c)))
    <3> DEFINE m == match_named_char_ref(Rest(z))
    <3>1. m = NotNamed \/ (m \in NamedReferences /\ Begins(m.name, Rest(z)))
      BY MatchIs
    <3> HIDE DEF m
    <3>2. m # NotNamed => RefOutcome(z, Advanced(NamedReference(z, m)))
      BY <1>1, <1>2, <1>4, <3>1, NamedReferenceEnds
    <3>3. QED BY <2>9, <3>2 DEF handle_named_character_reference_state, m
  <2>12. RefOutcome(z, Advanced(handle_numeric_character_reference_state(z, c)))
    <3> DEFINE zero == [z EXCEPT !.code = 0]
    <3>1. RefCalm(z, zero)
      BY <1>1, RefOps
    <3> HIDE DEF zero
    <3>2. \A state \in Refers :
            /\ c # "<" => RefOutcome(z, Advanced(gumbo_tokenizer_set_state(zero, state)))
            /\ RefOutcome(z, Advanced(reconsume_in_state(zero, state)))
      BY <2>1, <2>5, <2>6, <3>1
    <3>3. QED BY <2>3, <2>7, <3>2 DEF handle_numeric_character_reference_state, zero
  <2>13. \A digits : \A state \in Refers : RefOutcome(z, Advanced(NumberStart(z, c, digits, state)))
    BY <2>8, <2>9 DEF NumberStart, e
  <2>14. \A digits \in SUBSET HexDigits : \A base : RefOutcome(z, Advanced(Number(z, c, digits, base)))
    <3>1. ASSUME NEW code, c # "<" PROVE RefOutcome(z, Advanced([z EXCEPT !.code = code]))
      <4> DEFINE x == [z EXCEPT !.code = code]
      <4>1. RefCalm(z, x) /\ x.state = z.state
        BY <1>1, RefOps
      <4> HIDE DEF x
      <4>2. RefOutcome(z, Advanced(x))
        BY <2>1, <2>4, <3>1, <4>1
      <4>3. QED BY <4>2 DEF x
    <3>2. ASSUME NEW digits \in SUBSET HexDigits, NEW base
          PROVE  RefOutcome(z, Advanced(Number(z, c, digits, base)))
      <4> DEFINE code == AddDigits(z.code, base, DigitsOf(c))
                 x == [z EXCEPT !.code = code]
      <4>1. c # "<" => RefOutcome(z, Advanced(x))
        BY <3>1
      <4>2. [z EXCEPT !.code = AddDigits(@, base, DigitsOf(c))] = x
        OBVIOUS
      <4> HIDE DEF code, x
      <4>3. QED BY <2>3, <2>7, <2>8, <4>1, <4>2 DEF Number, e
    <3>3. QED BY <3>2
  <2>15. RefOutcome(z, Advanced(handle_numeric_character_reference_end_state(z, c)))
    <3> DEFINE r == reconsume_in_state(z, z.return)
               w == tokenizer_add_parse_error(r)
    <3>1. RefCalm(z, r) /\ r.state = z.return /\ r.reconsume = TRUE
      BY <1>1, <2>6
    <3> HIDE DEF r
    <3>2. RefCalm(z, w) /\ w.state = z.return /\ w.reconsume = TRUE
      BY <3>1, RefOps
    <3> HIDE DEF w
    <3>3. \A first, second : /\ RefOutcome(z, Advanced(flush_char_ref(r, first, second)))
                             /\ RefOutcome(z, Advanced(flush_char_ref(w, first, second)))
      BY <2>1, <3>1, <3>2
    <3>4. CASE IsBadReference(z.code)
      BY <3>3, <3>4 DEF handle_numeric_character_reference_end_state, r, w
    <3>5. CASE ~IsBadReference(z.code)
      BY <3>3, <3>5 DEF handle_numeric_character_reference_end_state, r, w
    <3>6. QED BY <3>4, <3>5
  <2>16. Digits \in SUBSET HexDigits
    BY DEF HexDigits
  <2>17. /\ \A state \in {"HEXADECIMAL_CHARACTER_REFERENCE", "DECIMAL_CHARACTER_REFERENCE"} :
              state \in Refers
         /\ HexDigits \in SUBSET HexDigits
    BY <2>3
  <2>18. /\ RefOutcome(z, Advanced(handle_hexadecimal_character_reference_start_state(z, c)))
         /\ RefOutcome(z, Advanced(handle_decimal_character_reference_start_state(z, c)))
         /\ RefOutcome(z, Advanced(handle_hexadecimal_character_reference_state(z, c)))
         /\ RefOutcome(z, Advanced(handle_decimal_character_reference_state(z, c)))
    BY <2>13, <2>14, <2>16, <2>17
       DEF handle_hexadecimal_character_reference_start_state,
           handle_decimal_character_reference_start_state,
           handle_hexadecimal_character_reference_state,
           handle_decimal_character_reference_state
  <2>19. QED BY <2>3, <2>4, <2>10, <2>11, <2>12, <2>15, <2>18 DEF LexReference
<1>5. QED BY <1>3, <1>4 DEF c

(* ------------------------- The words of a script --------------------------- *)

Delimiters == {" ", "/", ">"}

\* the words of this module that are compared
Compared == {"<", "/", "!", "-", ">", "title", "style", "script"}

\* Two of them at a place.
LEMMA TwoCompared ==
  ASSUME text \in Seq(Symbols), NEW k \in Nat \ {0}, NEW a \in Compared, NEW b \in Compared
  PROVE  IsAt(<<a, b>>, k) <=> SymbolAt(k) = a /\ SymbolAt(k + 1) = b
<1> DEFINE word == <<a, b>>
<1>1. EOF \notin Compared
  BY DEF EOF, Compared
<1>2. word \in Seq(Compared) /\ Len(word) = 2 /\ Len(word) >= 1 /\ word[1] = a /\ word[2] = b
  OBVIOUS
<1> HIDE DEF word
<1>3. IsAt(word, k) <=> \A j \in 1 .. Len(word) : SymbolAt(k + j - 1) = word[j]
  BY <1>1, <1>2, IsAtIs
<1>4. 1 .. 2 = {1, 2} /\ k + 1 - 1 = k /\ k + 2 - 1 = k + 1
  OBVIOUS
<1>5. (\A j \in 1 .. 2 : SymbolAt(k + j - 1) = word[j]) <=>
        SymbolAt(k) = word[1] /\ SymbolAt(k + 1) = word[2]
  BY <1>4
<1>6. QED BY <1>2, <1>3, <1>5 DEF word

\* Three of them.
LEMMA ThreeCompared ==
  ASSUME text \in Seq(Symbols), NEW k \in Nat \ {0}, NEW word \in Seq(Compared), Len(word) = 3
  PROVE  IsAt(word, k) <=> /\ SymbolAt(k) = word[1] /\ SymbolAt(k + 1) = word[2]
                           /\ SymbolAt(k + 2) = word[3]
<1>1. EOF \notin Compared
  BY DEF EOF, Compared
<1>2. Len(word) >= 1
  OBVIOUS
<1>3. IsAt(word, k) <=> \A j \in 1 .. Len(word) : SymbolAt(k + j - 1) = word[j]
  BY <1>1, <1>2, IsAtIs
<1>4. 1 .. 3 = {1, 2, 3} /\ k + 1 - 1 = k /\ k + 2 - 1 = k + 1 /\ k + 3 - 1 = k + 2
  OBVIOUS
<1>5. (\A j \in 1 .. 3 : SymbolAt(k + j - 1) = word[j]) <=>
        /\ SymbolAt(k) = word[1] /\ SymbolAt(k + 1) = word[2] /\ SymbolAt(k + 2) = word[3]
  BY <1>4
<1>6. QED BY <1>3, <1>5

\* A word that ends at a delimiter.
LEMMA SpannedAt ==
  ASSUME text \in Seq(Symbols), NEW k \in Nat \ {0}, NEW n \in Nat, NEW word, Len(word) = n
  PROVE  Ends(word, k) <=> IsAt(word, k) /\ SymbolAt(k + n) \in Delimiters
<1>1. EOF \notin Delimiters
  BY DEF EOF, Delimiters
<1> DEFINE j == k + n
<1>2. (SymbolAt(j) = EOF <=> j > Len(text)) /\ (j <= Len(text) => SymbolAt(j) = text[j])
  BY SymbolAtIs
<1>3. Len(text) \in Nat /\ j \in Nat
  OBVIOUS
<1> HIDE DEF j
<1>4. CASE j <= Len(text)
  BY <1>2, <1>4 DEF Ends, Delimiters, j
<1>5. CASE ~(j <= Len(text))
  <2>1. j > Len(text)
    BY <1>3, <1>5
  <2>2. SymbolAt(j) \notin Delimiters
    BY <1>1, <1>2, <2>1
  <2>3. ~Ends(word, k)
    BY <1>5 DEF Ends, j
  <2>4. QED BY <2>2, <2>3 DEF j
<1>6. QED BY <1>4, <1>5

\* The words at a place, by the symbols there.
LEMMA WordsAt ==
  ASSUME text \in Seq(Symbols), NEW k \in Nat \ {0}
  PROVE  /\ IsAt(Comments_, k) <=> /\ SymbolAt(k) = "<" /\ SymbolAt(k + 1) = "!"
                                   /\ SymbolAt(k + 2) = "-" /\ SymbolAt(k + 3) = "-"
         /\ IsAt(CommentsEnd_, k) <=> /\ SymbolAt(k) = "-" /\ SymbolAt(k + 1) = "-"
                                      /\ SymbolAt(k + 2) = ">"
         /\ Ends(Starts_, k) <=> /\ SymbolAt(k) = "<" /\ SymbolAt(k + 1) = "script"
                                 /\ SymbolAt(k + 2) \in Delimiters
         /\ Ends(Stops_, k) <=> /\ SymbolAt(k) = "<" /\ SymbolAt(k + 1) = "/"
                                /\ SymbolAt(k + 2) = "script" /\ SymbolAt(k + 3) \in Delimiters
<1>1. "<" \in Signs /\ "!" \in Signs /\ "-" \in Signs /\ ">" \in Signs
  BY DEF Signs
<1>2. "<" \in Compared /\ "/" \in Compared /\ "script" \in Compared
  BY DEF Compared
<1>3. IsAt(Comments_, k) <=> /\ SymbolAt(k) = "<" /\ SymbolAt(k + 1) = "!"
                             /\ SymbolAt(k + 2) = "-" /\ SymbolAt(k + 3) = "-"
  BY <1>1, FourSigns DEF Comments_
<1>4. IsAt(CommentsEnd_, k) <=> /\ SymbolAt(k) = "-" /\ SymbolAt(k + 1) = "-"
                                /\ SymbolAt(k + 2) = ">"
  BY <1>1, ThreeSigns DEF CommentsEnd_
<1>5. Ends(Starts_, k) <=> /\ SymbolAt(k) = "<" /\ SymbolAt(k + 1) = "script"
                           /\ SymbolAt(k + 2) \in Delimiters
  <2>1. IsAt(Starts_, k) <=> SymbolAt(k) = "<" /\ SymbolAt(k + 1) = "script"
    BY <1>2, TwoCompared DEF Starts_
  <2>2. Len(Starts_) = 2
    BY DEF Starts_
  <2>3. Ends(Starts_, k) <=> IsAt(Starts_, k) /\ SymbolAt(k + 2) \in Delimiters
    BY <2>2, SpannedAt
  <2>4. QED BY <2>1, <2>3
<1>6. Ends(Stops_, k) <=> /\ SymbolAt(k) = "<" /\ SymbolAt(k + 1) = "/"
                          /\ SymbolAt(k + 2) = "script" /\ SymbolAt(k + 3) \in Delimiters
  <2>1. /\ Stops_ \in Seq(Compared) /\ Len(Stops_) = 3
        /\ Stops_[1] = "<" /\ Stops_[2] = "/" /\ Stops_[3] = "script"
    BY <1>2 DEF Stops_
  <2>2. IsAt(Stops_, k) <=> SymbolAt(k) = "<" /\ SymbolAt(k + 1) = "/" /\ SymbolAt(k + 2) = "script"
    BY <2>1, ThreeCompared
  <2>3. Ends(Stops_, k) <=> IsAt(Stops_, k) /\ SymbolAt(k + 3) \in Delimiters
    BY <2>1, SpannedAt
  <2>4. QED BY <2>2, <2>3
<1>7. QED BY <1>3, <1>4, <1>5, <1>6

\* The end tag of these contents at a place.
LEMMA EndTagAt ==
  ASSUME text \in Seq(Symbols), NEW k \in Nat \ {0}, NEW word \in {"title", "style", "script"}
  PROVE  Ends(<<"<", "/">> \o <<word>>, k) <=>
           /\ SymbolAt(k) = "<" /\ SymbolAt(k + 1) = "/" /\ SymbolAt(k + 2) = word
           /\ SymbolAt(k + 3) \in Delimiters
<1> DEFINE u == <<"<", "/">>
           v == <<word>>
           whole == u \o v
<1>1. "<" \in Compared /\ "/" \in Compared /\ word \in Compared
  BY DEF Compared
<1>2. u \in Seq(Compared) /\ Len(u) = 2 /\ u[1] = "<" /\ u[2] = "/"
  BY <1>1
<1>3. v \in Seq(Compared) /\ Len(v) = 1 /\ v[1] = word
  BY <1>1
<1> HIDE DEF u, v
<1>4. /\ whole \in Seq(Compared) /\ Len(whole) = 3
      /\ whole[1] = "<" /\ whole[2] = "/" /\ whole[3] = word
  <2>1. /\ whole \in Seq(Compared) /\ Len(whole) = Len(u) + Len(v)
        /\ \A i \in 1 .. Len(u) + Len(v) :
             whole[i] = IF i <= Len(u) THEN u[i] ELSE v[i - Len(u)]
    BY <1>2, <1>3, ConcatProperties
  <2> HIDE DEF whole
  <2>2. QED BY <1>2, <1>3, <2>1
<1> HIDE DEF whole
<1>5. IsAt(whole, k) <=> SymbolAt(k) = "<" /\ SymbolAt(k + 1) = "/" /\ SymbolAt(k + 2) = word
  BY <1>4, ThreeCompared
<1>6. Ends(whole, k) <=> IsAt(whole, k) /\ SymbolAt(k + 3) \in Delimiters
  BY <1>4, SpannedAt
<1>7. QED BY <1>5, <1>6 DEF whole, u, v

\* These words, where they are used to say what a script is.
LEMMA ScriptWords ==
  /\ \A from, k : InEscaped(from, k) <=>
       \E i \in from .. k - 1 : /\ IsAt(Comments_, i) /\ i + 3 < k
                                /\ \A j \in i + 2 .. k - 3 : ~IsAt(CommentsEnd_, j)
  /\ \A from, k : InDouble(from, k) <=>
       \E i \in from .. k - 1 :
         /\ Ends(Starts_, i) /\ i + 2 < k /\ InEscaped(from, i)
         /\ \A j \in i .. k - 3 : ~IsAt(CommentsEnd_, j)
         /\ \A j \in i .. k - 4 : ~Ends(Stops_, j)
<1>1. \A from, k : InEscaped(from, k) <=>
       \E i \in from .. k - 1 : /\ IsAt(Comments_, i) /\ i + 3 < k
                                /\ \A j \in i + 2 .. k - 3 : ~IsAt(CommentsEnd_, j)
  BY Zenon DEF InEscaped, Comments_, CommentsEnd_
<1>2. \A from, k : InDouble(from, k) <=>
       \E i \in from .. k - 1 :
         /\ Ends(Starts_, i) /\ i + 2 < k /\ InEscaped(from, i)
         /\ \A j \in i .. k - 3 : ~IsAt(CommentsEnd_, j)
         /\ \A j \in i .. k - 4 : ~Ends(Stops_, j)
  BY Zenon DEF InDouble, Starts_, Stops_, CommentsEnd_
<1>3. QED BY <1>1, <1>2

\* One more character: whether a comment of the script goes on.
LEMMA EscapedGoesOn ==
  ASSUME text \in Seq(Symbols), NEW from \in Nat \ {0}, NEW p \in Nat
  PROVE  /\ InEscaped(from, p) /\ ~IsAt(CommentsEnd_, p - 2) => InEscaped(from, p + 1)
         /\ ~InEscaped(from, p) /\ ~(p - 3 >= from /\ IsAt(Comments_, p - 3)) => ~InEscaped(from, p + 1)
         /\ IsAt(CommentsEnd_, p - 2) => ~InEscaped(from, p + 1)
         /\ p - 3 >= from /\ IsAt(Comments_, p - 3) => InEscaped(from, p + 1)
<1>1. ASSUME InEscaped(from, p), ~IsAt(CommentsEnd_, p - 2) PROVE InEscaped(from, p + 1)
  <2>1. PICK i \in from .. p - 1 : /\ IsAt(Comments_, i) /\ i + 3 < p
                                   /\ \A j \in i + 2 .. p - 3 : ~IsAt(CommentsEnd_, j)
    BY <1>1, ScriptWords
  <2>2. \A j \in i + 2 .. (p + 1) - 3 : ~IsAt(CommentsEnd_, j)
    <3>1. TAKE j \in i + 2 .. (p + 1) - 3
    <3>2. j \in i + 2 .. p - 3 \/ j = p - 2
      OBVIOUS
    <3>3. QED BY <1>1, <2>1, <3>2
  <2>3. i \in from .. (p + 1) - 1 /\ i + 3 < p + 1
    BY <2>1
  <2>4. QED BY <2>1, <2>2, <2>3, ScriptWords
<1>2. ASSUME InEscaped(from, p + 1), ~(p - 3 >= from /\ IsAt(Comments_, p - 3)) PROVE InEscaped(from, p)
  <2>1. PICK i \in from .. (p + 1) - 1 :
          /\ IsAt(Comments_, i) /\ i + 3 < p + 1
          /\ \A j \in i + 2 .. (p + 1) - 3 : ~IsAt(CommentsEnd_, j)
    BY <1>2, ScriptWords
  <2>2. i # p - 3
    BY <1>2, <2>1
  <2>3. i \in from .. p - 1 /\ i + 3 < p
    BY <2>1, <2>2
  <2>4. \A j \in i + 2 .. p - 3 : j \in i + 2 .. (p + 1) - 3
    BY <2>1
  <2>5. QED BY <2>1, <2>3, <2>4, ScriptWords
<1>3. ASSUME IsAt(CommentsEnd_, p - 2), InEscaped(from, p + 1) PROVE FALSE
  <2>1. PICK i \in from .. (p + 1) - 1 :
          /\ IsAt(Comments_, i) /\ i + 3 < p + 1
          /\ \A j \in i + 2 .. (p + 1) - 3 : ~IsAt(CommentsEnd_, j)
    BY <1>3, ScriptWords
  <2>2. i = p - 3
    <3>1. p - 2 \notin i + 2 .. (p + 1) - 3
      BY <1>3, <2>1
    <3>2. QED BY <2>1, <3>1
  <2>3. SymbolAt(i + 1) = "!"
    BY <2>1, WordsAt
  <2>4. p - 2 \in Nat \ {0}
    BY <2>2
  <2>5. SymbolAt(p - 2) = "-"
    BY <1>3, <2>4, WordsAt
  <2>6. QED BY <2>2, <2>3, <2>5
<1>4. ASSUME p - 3 >= from, IsAt(Comments_, p - 3) PROVE InEscaped(from, p + 1)
  <2>1. p - 3 \in from .. (p + 1) - 1 /\ (p - 3) + 3 < p + 1
    BY <1>4
  <2>2. \A j \in (p - 3) + 2 .. (p + 1) - 3 : FALSE
    OBVIOUS
  <2>3. QED BY <1>4, <2>1, <2>2, ScriptWords
<1>5. QED BY <1>1, <1>2, <1>3, <1>4

\* ... whether a script in there does.
LEMMA DoubleGoesOn ==
  ASSUME text \in Seq(Symbols), NEW from \in Nat \ {0}, NEW p \in Nat
  PROVE  /\ InDouble(from, p) /\ ~IsAt(CommentsEnd_, p - 2) /\ ~Ends(Stops_, p - 3) => InDouble(from, p + 1)
         /\ ~InDouble(from, p) /\ ~(Ends(Starts_, p - 2) /\ InEscaped(from, p - 2)) => ~InDouble(from, p + 1)
         /\ Ends(Starts_, p - 2) /\ InEscaped(from, p - 2) => InDouble(from, p + 1)
         /\ IsAt(CommentsEnd_, p - 2) \/ Ends(Stops_, p - 3) => ~InDouble(from, p + 1)
<1>1. ASSUME InDouble(from, p), ~IsAt(CommentsEnd_, p - 2), ~Ends(Stops_, p - 3) PROVE InDouble(from, p + 1)
  <2>1. PICK i \in from .. p - 1 :
         /\ Ends(Starts_, i) /\ i + 2 < p /\ InEscaped(from, i)
         /\ \A j \in i .. p - 3 : ~IsAt(CommentsEnd_, j)
         /\ \A j \in i .. p - 4 : ~Ends(Stops_, j)
    BY <1>1, ScriptWords
  <2>2. \A j \in i .. (p + 1) - 3 : ~IsAt(CommentsEnd_, j)
    <3>1. TAKE j \in i .. (p + 1) - 3
    <3>2. j \in i .. p - 3 \/ j = p - 2
      OBVIOUS
    <3>3. QED BY <1>1, <2>1, <3>2
  <2>3. \A j \in i .. (p + 1) - 4 : ~Ends(Stops_, j)
    <3>1. TAKE j \in i .. (p + 1) - 4
    <3>2. j \in i .. p - 4 \/ j = p - 3
      OBVIOUS
    <3>3. QED BY <1>1, <2>1, <3>2
  <2>4. i \in from .. (p + 1) - 1 /\ i + 2 < p + 1
    BY <2>1
  <2>5. QED BY <2>1, <2>2, <2>3, <2>4, ScriptWords
<1>2. ASSUME InDouble(from, p + 1), ~(Ends(Starts_, p - 2) /\ InEscaped(from, p - 2)) PROVE InDouble(from, p)
  <2>1. PICK i \in from .. (p + 1) - 1 :
         /\ Ends(Starts_, i) /\ i + 2 < p + 1 /\ InEscaped(from, i)
         /\ \A j \in i .. (p + 1) - 3 : ~IsAt(CommentsEnd_, j)
         /\ \A j \in i .. (p + 1) - 4 : ~Ends(Stops_, j)
    BY <1>2, ScriptWords
  <2>2. i # p - 2
    BY <1>2, <2>1
  <2>3. i \in from .. p - 1 /\ i + 2 < p
    BY <2>1, <2>2
  <2>4. /\ \A j \in i .. p - 3 : j \in i .. (p + 1) - 3
        /\ \A j \in i .. p - 4 : j \in i .. (p + 1) - 4
    BY <2>1
  <2>5. QED BY <2>1, <2>3, <2>4, ScriptWords
<1>3. ASSUME Ends(Starts_, p - 2), InEscaped(from, p - 2) PROVE InDouble(from, p + 1)
  <2>1. p - 2 > from
    <3>1. PICK i \in from .. (p - 2) - 1 : TRUE
      BY <1>3, ScriptWords
    <3>2. QED BY <3>1
  <2>2. p - 2 \in Nat \ {0} /\ p - 2 \in from .. (p + 1) - 1 /\ (p - 2) + 2 < p + 1
    BY <2>1
  <2>3. SymbolAt(p - 2) = "<"
    BY <1>3, <2>2, WordsAt
  <2>4. ~IsAt(CommentsEnd_, p - 2)
    BY <2>2, <2>3, WordsAt
  <2>5. \A j \in p - 2 .. (p + 1) - 3 : j = p - 2
    BY <2>2
  <2>6. \A j \in p - 2 .. (p + 1) - 4 : FALSE
    BY <2>2
  <2>7. QED BY <1>3, <2>2, <2>4, <2>5, <2>6, ScriptWords
<1>4. ASSUME IsAt(CommentsEnd_, p - 2) \/ Ends(Stops_, p - 3), InDouble(from, p + 1) PROVE FALSE
  <2>1. PICK i \in from .. (p + 1) - 1 :
         /\ Ends(Starts_, i) /\ i + 2 < p + 1 /\ InEscaped(from, i)
         /\ \A j \in i .. (p + 1) - 3 : ~IsAt(CommentsEnd_, j)
         /\ \A j \in i .. (p + 1) - 4 : ~Ends(Stops_, j)
    BY <1>4, ScriptWords
  <2>2. p - 2 \in i .. (p + 1) - 3
    BY <2>1
  <2>3. Ends(Stops_, p - 3)
    BY <1>4, <2>1, <2>2
  <2>4. i = p - 2
    <3>1. p - 3 \notin i .. (p + 1) - 4
      BY <2>1, <2>3
    <3>2. QED BY <2>1, <3>1
  <2>5. p - 3 \in Nat \ {0}
    <3>1. IsAt(Stops_, p - 3)
      BY <2>3 DEF Ends
    <3>2. p - 3 >= 1
      BY <3>1, Zenon DEF IsAt
    <3>3. QED BY <3>2
  <2>6. SymbolAt((p - 3) + 1) = "/"
    BY <2>3, <2>5, WordsAt
  <2>7. SymbolAt(i) = "<"
    BY <2>1, WordsAt
  <2>8. (p - 3) + 1 = i
    BY <2>4
  <2>9. QED BY <2>6, <2>7, <2>8
<1>5. QED BY <1>1, <1>2, <1>3, <1>4

\* A script within is within a comment.
LEMMA DoubleIsEscaped ==
  ASSUME text \in Seq(Symbols), NEW from \in Nat \ {0}, NEW p \in Nat, InDouble(from, p)
  PROVE  InEscaped(from, p)
<1>1. PICK i \in from .. p - 1 :
         /\ Ends(Starts_, i) /\ i + 2 < p /\ InEscaped(from, i)
         /\ \A j \in i .. p - 3 : ~IsAt(CommentsEnd_, j)
         /\ \A j \in i .. p - 4 : ~Ends(Stops_, j)
  BY ScriptWords
<1>2. PICK m \in from .. i - 1 : /\ IsAt(Comments_, m) /\ m + 3 < i
                                 /\ \A j \in m + 2 .. i - 3 : ~IsAt(CommentsEnd_, j)
  BY <1>1, ScriptWords
<1>3. \A j \in m + 2 .. p - 3 : ~IsAt(CommentsEnd_, j)
  <2>1. SUFFICES ASSUME NEW j \in m + 2 .. p - 3, IsAt(CommentsEnd_, j) PROVE FALSE
    OBVIOUS
  <2>2. j \in {i - 2, i - 1}
    BY <1>1, <1>2, <2>1
  <2>3. SymbolAt(i) = "<"
    BY <1>1, WordsAt
  <2>4. SymbolAt(j + 1) = "-" /\ SymbolAt(j + 2) = ">"
    BY <2>1, WordsAt
  <2>5. j + 1 = i \/ j + 2 = i
    BY <2>2
  <2>6. QED BY <2>3, <2>4, <2>5
<1>4. m \in from .. p - 1 /\ m + 3 < p
  BY <1>1, <1>2
<1>5. QED BY <1>2, <1>3, <1>4, ScriptWords

(* --------------------- What the states of a script say --------------------- *)

\* Which words may be about the place p, by the symbols there.
LEMMA WordsAround ==
  ASSUME text \in Seq(Symbols), NEW p \in Nat
  PROVE  /\ IsAt(Comments_, p - 3) => /\ SymbolAt(p - 3) = "<" /\ SymbolAt(p - 2) = "!"
                                      /\ SymbolAt(p - 1) = "-" /\ SymbolAt(p) = "-"
         /\ IsAt(Comments_, p - 2) => /\ SymbolAt(p - 2) = "<" /\ SymbolAt(p - 1) = "!"
                                      /\ SymbolAt(p) = "-"
         /\ IsAt(Comments_, p - 1) => SymbolAt(p - 1) = "<" /\ SymbolAt(p) = "!"
         /\ IsAt(Comments_, p) => SymbolAt(p) = "<"
         /\ IsAt(CommentsEnd_, p - 2) => /\ SymbolAt(p - 2) = "-" /\ SymbolAt(p - 1) = "-"
                                         /\ SymbolAt(p) = ">"
         /\ Ends(Starts_, p - 2) => /\ SymbolAt(p - 2) = "<" /\ SymbolAt(p - 1) = "script"
                                    /\ SymbolAt(p) \in Delimiters
         /\ Ends(Starts_, p - 1) => SymbolAt(p - 1) = "<" /\ SymbolAt(p) = "script"
         /\ Ends(Starts_, p) => SymbolAt(p) = "<"
         /\ Ends(Stops_, p - 3) => /\ SymbolAt(p - 3) = "<" /\ SymbolAt(p - 2) = "/"
                                   /\ SymbolAt(p - 1) = "script" /\ SymbolAt(p) \in Delimiters
         /\ Ends(Stops_, p - 2) => /\ SymbolAt(p - 2) = "<" /\ SymbolAt(p - 1) = "/"
                                   /\ SymbolAt(p) = "script"
         /\ Ends(Stops_, p - 1) => SymbolAt(p - 1) = "<" /\ SymbolAt(p) = "/"
         /\ Ends(Stops_, p) => SymbolAt(p) = "<"
<1>1. \A word, k : Ends(word, k) => IsAt(word, k)
  BY Zenon DEF Ends
<1>2. \A word, k : IsAt(word, k) => k >= 1
  BY Zenon DEF IsAt
<1>3. ASSUME NEW k \in Int
      PROVE  /\ IsAt(Comments_, k) => /\ SymbolAt(k) = "<" /\ SymbolAt(k + 1) = "!"
                                      /\ SymbolAt(k + 2) = "-" /\ SymbolAt(k + 3) = "-"
             /\ IsAt(CommentsEnd_, k) => /\ SymbolAt(k) = "-" /\ SymbolAt(k + 1) = "-"
                                         /\ SymbolAt(k + 2) = ">"
             /\ Ends(Starts_, k) => /\ SymbolAt(k) = "<" /\ SymbolAt(k + 1) = "script"
                                    /\ SymbolAt(k + 2) \in Delimiters
             /\ Ends(Stops_, k) => /\ SymbolAt(k) = "<" /\ SymbolAt(k + 1) = "/"
                                   /\ SymbolAt(k + 2) = "script" /\ SymbolAt(k + 3) \in Delimiters
  <2>1. CASE k >= 1
    <3>1. k \in Nat \ {0}
      BY <2>1
    <3>2. QED BY <3>1, WordsAt
  <2>2. CASE ~(k >= 1)
    BY <1>1, <1>2, <2>2
  <2>3. QED BY <2>1, <2>2
<1>4. /\ p \in Int /\ p - 1 \in Int /\ p - 2 \in Int /\ p - 3 \in Int
      /\ (p - 1) + 1 = p /\ (p - 2) + 1 = p - 1 /\ (p - 2) + 2 = p
      /\ (p - 3) + 1 = p - 2 /\ (p - 3) + 2 = p - 1 /\ (p - 3) + 3 = p
  OBVIOUS
<1>5. /\ IsAt(Comments_, p - 3) => /\ SymbolAt(p - 3) = "<" /\ SymbolAt(p - 2) = "!"
                                   /\ SymbolAt(p - 1) = "-" /\ SymbolAt(p) = "-"
      /\ IsAt(Comments_, p - 2) => /\ SymbolAt(p - 2) = "<" /\ SymbolAt(p - 1) = "!"
                                   /\ SymbolAt(p) = "-"
      /\ IsAt(Comments_, p - 1) => SymbolAt(p - 1) = "<" /\ SymbolAt(p) = "!"
      /\ IsAt(Comments_, p) => SymbolAt(p) = "<"
  BY <1>3, <1>4
<1>6. IsAt(CommentsEnd_, p - 2) => /\ SymbolAt(p - 2) = "-" /\ SymbolAt(p - 1) = "-"
                                   /\ SymbolAt(p) = ">"
  BY <1>3, <1>4
<1>7. /\ Ends(Starts_, p - 2) => /\ SymbolAt(p - 2) = "<" /\ SymbolAt(p - 1) = "script"
                                 /\ SymbolAt(p) \in Delimiters
      /\ Ends(Starts_, p - 1) => SymbolAt(p - 1) = "<" /\ SymbolAt(p) = "script"
      /\ Ends(Starts_, p) => SymbolAt(p) = "<"
  BY <1>3, <1>4
<1>8. /\ Ends(Stops_, p - 3) => /\ SymbolAt(p - 3) = "<" /\ SymbolAt(p - 2) = "/"
                                /\ SymbolAt(p - 1) = "script" /\ SymbolAt(p) \in Delimiters
      /\ Ends(Stops_, p - 2) => /\ SymbolAt(p - 2) = "<" /\ SymbolAt(p - 1) = "/"
                                /\ SymbolAt(p) = "script"
      /\ Ends(Stops_, p - 1) => SymbolAt(p - 1) = "<" /\ SymbolAt(p) = "/"
      /\ Ends(Stops_, p) => SymbolAt(p) = "<"
  BY <1>3, <1>4
<1>9. QED BY <1>5, <1>6, <1>7, <1>8

\* no comment has begun at one of the last places before p
NoComment(from, p) == \A i \in from .. p - 1 : p <= i + 3 => ~IsAt(Comments_, i)

\* in a comment of the script, and in no script there
Single(from, p) == InEscaped(from, p) /\ ~InDouble(from, p)

\* What each of the states says.
LEMMA EscapesIs ==
  ASSUME NEW from, NEW p, NEW tmp
  PROVE  /\ \A state \in Plainly :
              Escapes(from, p, state, tmp) <=> ~InEscaped(from, p) /\ NoComment(from, p)
         /\ Escapes(from, p, "SCRIPT_DATA_LT", tmp) <=> ~InEscaped(from, p)
         /\ Escapes(from, p, "SCRIPT_DATA_ESCAPED_START", tmp) <=>
              /\ ~InEscaped(from, p) /\ p >= from + 2
              /\ SymbolAt(p - 2) = "<" /\ SymbolAt(p - 1) = "!"
         /\ Escapes(from, p, "SCRIPT_DATA_ESCAPED_START_DASH", tmp) <=>
              /\ ~InEscaped(from, p) /\ p >= from + 3 /\ SymbolAt(p - 3) = "<"
              /\ SymbolAt(p - 2) = "!" /\ SymbolAt(p - 1) = "-"
         /\ Escapes(from, p, "SCRIPT_DATA_ESCAPED", tmp) <=>
              /\ Single(from, p) /\ SymbolAt(p - 1) # "-"
              /\ ~Ends(Starts_, p - 2) /\ ~Ends(Starts_, p - 1)
         /\ Escapes(from, p, "SCRIPT_DATA_ESCAPED_DASH", tmp) <=>
              Single(from, p) /\ SymbolAt(p - 1) = "-" /\ SymbolAt(p - 2) # "-"
         /\ Escapes(from, p, "SCRIPT_DATA_ESCAPED_DASH_DASH", tmp) <=>
              Single(from, p) /\ SymbolAt(p - 1) = "-" /\ SymbolAt(p - 2) = "-"
         /\ Escapes(from, p, "SCRIPT_DATA_ESCAPED_LT", tmp) <=>
              Single(from, p) /\ InEscaped(from, p - 1)
         /\ \A state \in {"SCRIPT_DATA_ESCAPED_END_TAG_OPEN", "SCRIPT_DATA_ESCAPED_END_TAG_NAME"} :
              Escapes(from, p, state, tmp) <=> Single(from, p)
         /\ Escapes(from, p, "SCRIPT_DATA_DOUBLE_ESCAPED_START", tmp) <=>
              /\ Single(from, p)
              /\ \E m \in from .. p - 1 : /\ SymbolAt(m) = "<" /\ Spells(tmp, m + 1, p)
                                          /\ InEscaped(from, m)
         /\ Escapes(from, p, "SCRIPT_DATA_DOUBLE_ESCAPED", tmp) <=>
              /\ InDouble(from, p) /\ SymbolAt(p - 1) # "-"
              /\ ~Ends(Stops_, p - 3) /\ ~Ends(Stops_, p - 2) /\ ~Ends(Stops_, p - 1)
         /\ Escapes(from, p, "SCRIPT_DATA_DOUBLE_ESCAPED_DASH", tmp) <=>
              InDouble(from, p) /\ SymbolAt(p - 1) = "-" /\ SymbolAt(p - 2) # "-"
         /\ Escapes(from, p, "SCRIPT_DATA_DOUBLE_ESCAPED_DASH_DASH", tmp) <=>
              InDouble(from, p) /\ SymbolAt(p - 1) = "-" /\ SymbolAt(p - 2) = "-"
         /\ Escapes(from, p, "SCRIPT_DATA_DOUBLE_ESCAPED_LT", tmp) <=>
              InDouble(from, p) /\ SymbolAt(p - 1) = "<"
         /\ Escapes(from, p, "SCRIPT_DATA_DOUBLE_ESCAPED_END", tmp) <=>
              /\ InDouble(from, p)
              /\ \E m \in from .. p - 2 : /\ SymbolAt(m) = "<" /\ SymbolAt(m + 1) = "/"
                                          /\ Spells(tmp, m + 2, p)
<1>1. \A state \in Plainly :
          Escapes(from, p, state, tmp) <=> ~InEscaped(from, p) /\ NoComment(from, p)
  BY DEF Escapes, Outside, Once, Twice, Scripts, Plainly, NoDash, OneDash, TwoDashes, NoComment, Single
<1>2. Escapes(from, p, "SCRIPT_DATA_LT", tmp) <=> ~InEscaped(from, p)
  BY DEF Escapes, Outside, Once, Twice, Scripts, Plainly, NoDash, OneDash, TwoDashes, NoComment, Single
<1>3. Escapes(from, p, "SCRIPT_DATA_ESCAPED_START", tmp) <=>
          /\ ~InEscaped(from, p) /\ p >= from + 2
          /\ SymbolAt(p - 2) = "<" /\ SymbolAt(p - 1) = "!"
  BY DEF Escapes, Outside, Once, Twice, Scripts, Plainly, NoDash, OneDash, TwoDashes, NoComment, Single
<1>4. Escapes(from, p, "SCRIPT_DATA_ESCAPED_START_DASH", tmp) <=>
          /\ ~InEscaped(from, p) /\ p >= from + 3 /\ SymbolAt(p - 3) = "<"
          /\ SymbolAt(p - 2) = "!" /\ SymbolAt(p - 1) = "-"
  BY DEF Escapes, Outside, Once, Twice, Scripts, Plainly, NoDash, OneDash, TwoDashes, NoComment, Single
<1>5. Escapes(from, p, "SCRIPT_DATA_ESCAPED", tmp) <=>
          /\ Single(from, p) /\ SymbolAt(p - 1) # "-"
          /\ ~Ends(Starts_, p - 2) /\ ~Ends(Starts_, p - 1)
  BY DEF Escapes, Outside, Once, Twice, Scripts, Plainly, NoDash, OneDash, TwoDashes, NoComment, Single
<1>6. Escapes(from, p, "SCRIPT_DATA_ESCAPED_DASH", tmp) <=>
          Single(from, p) /\ SymbolAt(p - 1) = "-" /\ SymbolAt(p - 2) # "-"
  BY DEF Escapes, Outside, Once, Twice, Scripts, Plainly, NoDash, OneDash, TwoDashes, NoComment, Single
<1>7. Escapes(from, p, "SCRIPT_DATA_ESCAPED_DASH_DASH", tmp) <=>
          Single(from, p) /\ SymbolAt(p - 1) = "-" /\ SymbolAt(p - 2) = "-"
  BY DEF Escapes, Outside, Once, Twice, Scripts, Plainly, NoDash, OneDash, TwoDashes, NoComment, Single
<1>8. Escapes(from, p, "SCRIPT_DATA_ESCAPED_LT", tmp) <=>
          Single(from, p) /\ InEscaped(from, p - 1)
  BY DEF Escapes, Outside, Once, Twice, Scripts, Plainly, NoDash, OneDash, TwoDashes, NoComment, Single
<1>9. \A state \in {"SCRIPT_DATA_ESCAPED_END_TAG_OPEN", "SCRIPT_DATA_ESCAPED_END_TAG_NAME"} :
          Escapes(from, p, state, tmp) <=> Single(from, p)
  BY DEF Escapes, Outside, Once, Twice, Scripts, Plainly, NoDash, OneDash, TwoDashes, NoComment, Single
<1>10. Escapes(from, p, "SCRIPT_DATA_DOUBLE_ESCAPED_START", tmp) <=>
          /\ Single(from, p)
          /\ \E m \in from .. p - 1 : /\ SymbolAt(m) = "<" /\ Spells(tmp, m + 1, p)
                                      /\ InEscaped(from, m)
  BY DEF Escapes, Outside, Once, Twice, Scripts, Plainly, NoDash, OneDash, TwoDashes, NoComment, Single
<1>11. Escapes(from, p, "SCRIPT_DATA_DOUBLE_ESCAPED", tmp) <=>
          /\ InDouble(from, p) /\ SymbolAt(p - 1) # "-"
          /\ ~Ends(Stops_, p - 3) /\ ~Ends(Stops_, p - 2) /\ ~Ends(Stops_, p - 1)
  BY DEF Escapes, Outside, Once, Twice, Scripts, Plainly, NoDash, OneDash, TwoDashes, NoComment, Single
<1>12. Escapes(from, p, "SCRIPT_DATA_DOUBLE_ESCAPED_DASH", tmp) <=>
          InDouble(from, p) /\ SymbolAt(p - 1) = "-" /\ SymbolAt(p - 2) # "-"
  BY DEF Escapes, Outside, Once, Twice, Scripts, Plainly, NoDash, OneDash, TwoDashes, NoComment, Single
<1>13. Escapes(from, p, "SCRIPT_DATA_DOUBLE_ESCAPED_DASH_DASH", tmp) <=>
          InDouble(from, p) /\ SymbolAt(p - 1) = "-" /\ SymbolAt(p - 2) = "-"
  BY DEF Escapes, Outside, Once, Twice, Scripts, Plainly, NoDash, OneDash, TwoDashes, NoComment, Single
<1>14. Escapes(from, p, "SCRIPT_DATA_DOUBLE_ESCAPED_LT", tmp) <=>
          InDouble(from, p) /\ SymbolAt(p - 1) = "<"
  BY DEF Escapes, Outside, Once, Twice, Scripts, Plainly, NoDash, OneDash, TwoDashes, NoComment, Single
<1>15. Escapes(from, p, "SCRIPT_DATA_DOUBLE_ESCAPED_END", tmp) <=>
          /\ InDouble(from, p)
          /\ \E m \in from .. p - 2 : /\ SymbolAt(m) = "<" /\ SymbolAt(m + 1) = "/"
                                      /\ Spells(tmp, m + 2, p)
  BY DEF Escapes, Outside, Once, Twice, Scripts, Plainly, NoDash, OneDash, TwoDashes, NoComment, Single
<1>16. QED BY <1>1, <1>2, <1>3, <1>4, <1>5, <1>6, <1>7, <1>8, <1>9, <1>10, <1>11, <1>12, <1>13, <1>14, <1>15

\* ... one character further.
LEMMA EscapesNext ==
  ASSUME NEW from \in Nat, NEW p \in Nat, NEW tmp
  PROVE  /\ \A state \in Plainly :
              Escapes(from, p + 1, state, tmp) <=> ~InEscaped(from, p + 1) /\ NoComment(from, p + 1)
         /\ Escapes(from, p + 1, "SCRIPT_DATA_LT", tmp) <=> ~InEscaped(from, p + 1)
         /\ Escapes(from, p + 1, "SCRIPT_DATA_ESCAPED_START", tmp) <=>
              /\ ~InEscaped(from, p + 1) /\ p >= from + 1
              /\ SymbolAt(p - 1) = "<" /\ SymbolAt(p) = "!"
         /\ Escapes(from, p + 1, "SCRIPT_DATA_ESCAPED_START_DASH", tmp) <=>
              /\ ~InEscaped(from, p + 1) /\ p >= from + 2 /\ SymbolAt(p - 2) = "<"
              /\ SymbolAt(p - 1) = "!" /\ SymbolAt(p) = "-"
         /\ Escapes(from, p + 1, "SCRIPT_DATA_ESCAPED", tmp) <=>
              /\ Single(from, p + 1) /\ SymbolAt(p) # "-"
              /\ ~Ends(Starts_, p - 1) /\ ~Ends(Starts_, p)
         /\ Escapes(from, p + 1, "SCRIPT_DATA_ESCAPED_DASH", tmp) <=>
              Single(from, p + 1) /\ SymbolAt(p) = "-" /\ SymbolAt(p - 1) # "-"
         /\ Escapes(from, p + 1, "SCRIPT_DATA_ESCAPED_DASH_DASH", tmp) <=>
              Single(from, p + 1) /\ SymbolAt(p) = "-" /\ SymbolAt(p - 1) = "-"
         /\ Escapes(from, p + 1, "SCRIPT_DATA_ESCAPED_LT", tmp) <=>
              Single(from, p + 1) /\ InEscaped(from, p)
         /\ \A state \in {"SCRIPT_DATA_ESCAPED_END_TAG_OPEN", "SCRIPT_DATA_ESCAPED_END_TAG_NAME"} :
              Escapes(from, p + 1, state, tmp) <=> Single(from, p + 1)
         /\ Escapes(from, p + 1, "SCRIPT_DATA_DOUBLE_ESCAPED_START", tmp) <=>
              /\ Single(from, p + 1)
              /\ \E m \in from .. p : /\ SymbolAt(m) = "<" /\ Spells(tmp, m + 1, p + 1)
                                          /\ InEscaped(from, m)
         /\ Escapes(from, p + 1, "SCRIPT_DATA_DOUBLE_ESCAPED", tmp) <=>
              /\ InDouble(from, p + 1) /\ SymbolAt(p) # "-"
              /\ ~Ends(Stops_, p - 2) /\ ~Ends(Stops_, p - 1) /\ ~Ends(Stops_, p)
         /\ Escapes(from, p + 1, "SCRIPT_DATA_DOUBLE_ESCAPED_DASH", tmp) <=>
              InDouble(from, p + 1) /\ SymbolAt(p) = "-" /\ SymbolAt(p - 1) # "-"
         /\ Escapes(from, p + 1, "SCRIPT_DATA_DOUBLE_ESCAPED_DASH_DASH", tmp) <=>
              InDouble(from, p + 1) /\ SymbolAt(p) = "-" /\ SymbolAt(p - 1) = "-"
         /\ Escapes(from, p + 1, "SCRIPT_DATA_DOUBLE_ESCAPED_LT", tmp) <=>
              InDouble(from, p + 1) /\ SymbolAt(p) = "<"
         /\ Escapes(from, p + 1, "SCRIPT_DATA_DOUBLE_ESCAPED_END", tmp) <=>
              /\ InDouble(from, p + 1)
              /\ \E m \in from .. p - 1 : /\ SymbolAt(m) = "<" /\ SymbolAt(m + 1) = "/"
                                          /\ Spells(tmp, m + 2, p + 1)
<1>0. /\ (p + 1) - 1 = p /\ (p + 1) - 2 = p - 1 /\ (p + 1) - 3 = p - 2
      /\ (p + 1 >= from + 2 <=> p >= from + 1) /\ (p + 1 >= from + 3 <=> p >= from + 2)
  OBVIOUS
<1>1. \A state \in Plainly :
          Escapes(from, p + 1, state, tmp) <=> ~InEscaped(from, p + 1) /\ NoComment(from, p + 1)
  BY <1>0, EscapesIs
<1>2. Escapes(from, p + 1, "SCRIPT_DATA_LT", tmp) <=> ~InEscaped(from, p + 1)
  BY <1>0, EscapesIs
<1>3. Escapes(from, p + 1, "SCRIPT_DATA_ESCAPED_START", tmp) <=>
          /\ ~InEscaped(from, p + 1) /\ p >= from + 1
          /\ SymbolAt(p - 1) = "<" /\ SymbolAt(p) = "!"
  BY <1>0, EscapesIs
<1>4. Escapes(from, p + 1, "SCRIPT_DATA_ESCAPED_START_DASH", tmp) <=>
          /\ ~InEscaped(from, p + 1) /\ p >= from + 2 /\ SymbolAt(p - 2) = "<"
          /\ SymbolAt(p - 1) = "!" /\ SymbolAt(p) = "-"
  BY <1>0, EscapesIs
<1>5. Escapes(from, p + 1, "SCRIPT_DATA_ESCAPED", tmp) <=>
          /\ Single(from, p + 1) /\ SymbolAt(p) # "-"
          /\ ~Ends(Starts_, p - 1) /\ ~Ends(Starts_, p)
  BY <1>0, EscapesIs
<1>6. Escapes(from, p + 1, "SCRIPT_DATA_ESCAPED_DASH", tmp) <=>
          Single(from, p + 1) /\ SymbolAt(p) = "-" /\ SymbolAt(p - 1) # "-"
  BY <1>0, EscapesIs
<1>7. Escapes(from, p + 1, "SCRIPT_DATA_ESCAPED_DASH_DASH", tmp) <=>
          Single(from, p + 1) /\ SymbolAt(p) = "-" /\ SymbolAt(p - 1) = "-"
  BY <1>0, EscapesIs
<1>8. Escapes(from, p + 1, "SCRIPT_DATA_ESCAPED_LT", tmp) <=>
          Single(from, p + 1) /\ InEscaped(from, p)
  BY <1>0, EscapesIs
<1>9. \A state \in {"SCRIPT_DATA_ESCAPED_END_TAG_OPEN", "SCRIPT_DATA_ESCAPED_END_TAG_NAME"} :
          Escapes(from, p + 1, state, tmp) <=> Single(from, p + 1)
  BY <1>0, EscapesIs
<1>10. Escapes(from, p + 1, "SCRIPT_DATA_DOUBLE_ESCAPED_START", tmp) <=>
          /\ Single(from, p + 1)
          /\ \E m \in from .. p : /\ SymbolAt(m) = "<" /\ Spells(tmp, m + 1, p + 1)
                                      /\ InEscaped(from, m)
  BY <1>0, EscapesIs
<1>11. Escapes(from, p + 1, "SCRIPT_DATA_DOUBLE_ESCAPED", tmp) <=>
          /\ InDouble(from, p + 1) /\ SymbolAt(p) # "-"
          /\ ~Ends(Stops_, p - 2) /\ ~Ends(Stops_, p - 1) /\ ~Ends(Stops_, p)
  BY <1>0, EscapesIs
<1>12. Escapes(from, p + 1, "SCRIPT_DATA_DOUBLE_ESCAPED_DASH", tmp) <=>
          InDouble(from, p + 1) /\ SymbolAt(p) = "-" /\ SymbolAt(p - 1) # "-"
  BY <1>0, EscapesIs
<1>13. Escapes(from, p + 1, "SCRIPT_DATA_DOUBLE_ESCAPED_DASH_DASH", tmp) <=>
          InDouble(from, p + 1) /\ SymbolAt(p) = "-" /\ SymbolAt(p - 1) = "-"
  BY <1>0, EscapesIs
<1>14. Escapes(from, p + 1, "SCRIPT_DATA_DOUBLE_ESCAPED_LT", tmp) <=>
          InDouble(from, p + 1) /\ SymbolAt(p) = "<"
  BY <1>0, EscapesIs
<1>15. Escapes(from, p + 1, "SCRIPT_DATA_DOUBLE_ESCAPED_END", tmp) <=>
          /\ InDouble(from, p + 1)
          /\ \E m \in from .. p - 1 : /\ SymbolAt(m) = "<" /\ SymbolAt(m + 1) = "/"
                                      /\ Spells(tmp, m + 2, p + 1)
  BY <1>0, EscapesIs
<1>16. QED BY <1>1, <1>2, <1>3, <1>4, <1>5, <1>6, <1>7, <1>8, <1>9, <1>10, <1>11, <1>12, <1>13, <1>14, <1>15

\* No comment has begun near a place if it has at none of the three before it.
LEMMA NoCommentIs ==
  ASSUME NEW from \in Nat, NEW p \in Nat, ~IsAt(Comments_, p - 1), ~IsAt(Comments_, p - 2),
         ~IsAt(Comments_, p - 3)
  PROVE  NoComment(from, p)
<1>1. ASSUME NEW i \in from .. p - 1, p <= i + 3 PROVE ~IsAt(Comments_, i)
  <2>1. i = p - 1 \/ i = p - 2 \/ i = p - 3
    BY <1>1
  <2>2. QED BY <2>1
<1>2. QED BY <1>1 DEF NoComment

\* Nor one place further, if there is no < at it; and outside a comment that
\* had to begin before, one does not.
LEMMA NoCommentNext ==
  ASSUME text \in Seq(Symbols), NEW from \in Nat \ {0}, NEW p \in Nat, ~InEscaped(from, p),
         NoComment(from, p)
  PROVE  /\ ~InEscaped(from, p + 1)
         /\ SymbolAt(p) # "<" => NoComment(from, p + 1)
<1>1. ~(p - 3 >= from /\ IsAt(Comments_, p - 3))
  <2>1. ASSUME p - 3 >= from PROVE p - 3 \in from .. p - 1 /\ p <= (p - 3) + 3
    BY <2>1
  <2>2. QED BY <2>1 DEF NoComment
<1>2. ~InEscaped(from, p + 1)
  BY <1>1, EscapedGoesOn
<1>3. ASSUME SymbolAt(p) # "<", NEW i \in from .. (p + 1) - 1, p + 1 <= i + 3 PROVE ~IsAt(Comments_, i)
  <2>1. CASE i = p
    BY <1>3, <2>1, WordsAround
  <2>2. CASE i # p
    <3>1. i \in from .. p - 1 /\ p <= i + 3
      BY <1>3, <2>2
    <3>2. QED BY <3>1 DEF NoComment
  <2>3. QED BY <2>1, <2>2
<1>4. QED BY <1>2, <1>3 DEF NoComment

\* From state to state outside a comment, and into one.
LEMMA OutsideGoes ==
  ASSUME text \in Seq(Symbols), NEW from \in Nat \ {0}, NEW p \in Nat, NEW tmp, NEW next
  PROVE  /\ \A state, other \in Plainly : Escapes(from, p, state, tmp) =>
              /\ Escapes(from, p, other, next)
              /\ SymbolAt(p) # "<" => Escapes(from, p + 1, other, next)
              /\ Escapes(from, p + 1, "SCRIPT_DATA_LT", next)
         /\ Escapes(from, p, "SCRIPT_DATA_LT", tmp) /\ SymbolAt(p - 1) = "<" /\ from <= p - 1 =>
              /\ SymbolAt(p) = "/" => Escapes(from, p + 1, "SCRIPT_DATA_END_TAG_OPEN", next)
              /\ SymbolAt(p) = "!" => Escapes(from, p + 1, "SCRIPT_DATA_ESCAPED_START", next)
              /\ SymbolAt(p) # "!" => Escapes(from, p, "SCRIPT_DATA", next)
         /\ Escapes(from, p, "SCRIPT_DATA_ESCAPED_START", tmp) =>
              /\ SymbolAt(p) = "-" => Escapes(from, p + 1, "SCRIPT_DATA_ESCAPED_START_DASH", next)
              /\ SymbolAt(p) # "-" => Escapes(from, p, "SCRIPT_DATA", next)
         /\ Escapes(from, p, "SCRIPT_DATA_ESCAPED_START_DASH", tmp) =>
              /\ SymbolAt(p) = "-" => Escapes(from, p + 1, "SCRIPT_DATA_ESCAPED_DASH_DASH", next)
              /\ SymbolAt(p) # "-" => Escapes(from, p, "SCRIPT_DATA", next)
<1>1. "SCRIPT_DATA" \in Plainly /\ "SCRIPT_DATA_END_TAG_OPEN" \in Plainly
  BY DEF Plainly
<1>2. (p + 1) - 1 = p /\ (p + 1) - 2 = p - 1 /\ (p + 1) - 3 = p - 2
  OBVIOUS
<1>3. ASSUME NEW state \in Plainly, NEW other \in Plainly, Escapes(from, p, state, tmp)
      PROVE  /\ Escapes(from, p, other, next)
             /\ SymbolAt(p) # "<" => Escapes(from, p + 1, other, next)
             /\ Escapes(from, p + 1, "SCRIPT_DATA_LT", next)
  <2>1. ~InEscaped(from, p) /\ NoComment(from, p)
    BY <1>3, EscapesIs
  <2>2. ~InEscaped(from, p + 1) /\ (SymbolAt(p) # "<" => NoComment(from, p + 1))
    BY <2>1, NoCommentNext
  <2>3. QED BY <2>1, <2>2, EscapesIs, EscapesNext
<1>4. ASSUME Escapes(from, p, "SCRIPT_DATA_LT", tmp), SymbolAt(p - 1) = "<", from <= p - 1
      PROVE  /\ SymbolAt(p) = "/" => Escapes(from, p + 1, "SCRIPT_DATA_END_TAG_OPEN", next)
             /\ SymbolAt(p) = "!" => Escapes(from, p + 1, "SCRIPT_DATA_ESCAPED_START", next)
             /\ SymbolAt(p) # "!" => Escapes(from, p, "SCRIPT_DATA", next)
  <2>1. ~InEscaped(from, p)
    BY <1>4, EscapesIs
  <2>2. ~IsAt(Comments_, p - 3) /\ ~IsAt(Comments_, p - 2)
        /\ (SymbolAt(p) # "!" => ~IsAt(Comments_, p - 1))
        /\ (SymbolAt(p) # "<" => ~IsAt(Comments_, p))
    BY <1>4, WordsAround
  <2>3. ~InEscaped(from, p + 1)
    BY <2>1, <2>2, EscapedGoesOn
  <2>4. SymbolAt(p) # "!" => NoComment(from, p)
    BY <2>2, NoCommentIs
  <2>5. SymbolAt(p) = "/" => NoComment(from, p + 1)
    <3>1. ASSUME SymbolAt(p) = "/"
          PROVE  ~IsAt(Comments_, (p + 1) - 1) /\ ~IsAt(Comments_, (p + 1) - 2) /\ ~IsAt(Comments_, (p + 1) - 3)
      BY <1>2, <2>2, <3>1
    <3>2. QED BY <3>1, NoCommentIs
  <2>6. SymbolAt(p) = "/" => Escapes(from, p + 1, "SCRIPT_DATA_END_TAG_OPEN", next)
    <3>1. \A state \in Plainly :
             Escapes(from, p + 1, state, next) <=> ~InEscaped(from, p + 1) /\ NoComment(from, p + 1)
      BY EscapesNext
    <3>2. QED BY <1>1, <2>3, <2>5, <3>1, Zenon
  <2>7. SymbolAt(p) = "!" => Escapes(from, p + 1, "SCRIPT_DATA_ESCAPED_START", next)
    <3>1. p >= from + 1
      BY <1>4
    <3>2. QED BY <1>4, <2>3, <3>1, EscapesNext
  <2>8. SymbolAt(p) # "!" => Escapes(from, p, "SCRIPT_DATA", next)
    BY <1>1, <2>1, <2>4, EscapesIs
  <2>9. QED BY <2>6, <2>7, <2>8
<1>5. ASSUME Escapes(from, p, "SCRIPT_DATA_ESCAPED_START", tmp)
      PROVE  /\ SymbolAt(p) = "-" => Escapes(from, p + 1, "SCRIPT_DATA_ESCAPED_START_DASH", next)
             /\ SymbolAt(p) # "-" => Escapes(from, p, "SCRIPT_DATA", next)
  <2>1. ~InEscaped(from, p) /\ p >= from + 2 /\ SymbolAt(p - 2) = "<" /\ SymbolAt(p - 1) = "!"
    BY <1>5, EscapesIs
  <2>2. ~IsAt(Comments_, p - 3) /\ ~IsAt(Comments_, p - 1)
        /\ (SymbolAt(p) # "-" => ~IsAt(Comments_, p - 2))
    BY <2>1, WordsAround
  <2>3. ~InEscaped(from, p + 1)
    BY <2>1, <2>2, EscapedGoesOn
  <2>4. SymbolAt(p) # "-" => NoComment(from, p)
    BY <2>2, NoCommentIs
  <2>5. SymbolAt(p) # "-" => Escapes(from, p, "SCRIPT_DATA", next)
    BY <1>1, <2>1, <2>4, EscapesIs
  <2>6. QED BY <2>1, <2>3, <2>5, EscapesNext
<1>6. ASSUME Escapes(from, p, "SCRIPT_DATA_ESCAPED_START_DASH", tmp)
      PROVE  /\ SymbolAt(p) = "-" => Escapes(from, p + 1, "SCRIPT_DATA_ESCAPED_DASH_DASH", next)
             /\ SymbolAt(p) # "-" => Escapes(from, p, "SCRIPT_DATA", next)
  <2>1. /\ ~InEscaped(from, p) /\ p >= from + 3 /\ SymbolAt(p - 3) = "<"
        /\ SymbolAt(p - 2) = "!" /\ SymbolAt(p - 1) = "-"
    BY <1>6, EscapesIs
  <2>2. ~IsAt(Comments_, p - 1) /\ ~IsAt(Comments_, p - 2) /\ ~Ends(Starts_, p - 2)
        /\ (SymbolAt(p) # "-" => ~IsAt(Comments_, p - 3))
    BY <2>1, WordsAround
  <2>3. SymbolAt(p) # "-" => Escapes(from, p, "SCRIPT_DATA", next)
    <3>1. SymbolAt(p) # "-" => NoComment(from, p)
      BY <2>2, NoCommentIs
    <3>2. QED BY <1>1, <2>1, <3>1, EscapesIs
  <2>4. ASSUME SymbolAt(p) = "-" PROVE Escapes(from, p + 1, "SCRIPT_DATA_ESCAPED_DASH_DASH", next)
    <3>1. p - 3 \in Nat \ {0} /\ p - 3 >= from /\ (p - 3) + 1 = p - 2 /\ (p - 3) + 2 = p - 1 /\ (p - 3) + 3 = p
      BY <2>1
    <3>2. IsAt(Comments_, p - 3)
      BY <2>1, <2>4, <3>1, WordsAt
    <3>3. InEscaped(from, p + 1)
      BY <3>1, <3>2, EscapedGoesOn
    <3>4. ~InDouble(from, p)
      BY <2>1, DoubleIsEscaped
    <3>5. ~InDouble(from, p + 1)
      BY <2>2, <3>4, DoubleGoesOn
    <3>6. QED BY <2>1, <2>4, <3>3, <3>5, EscapesNext DEF Single
  <2>5. QED BY <2>3, <2>4
<1>7. QED BY <1>3, <1>4, <1>5, <1>6

\* What letters are not.
LEMMA LettersAre ==
  /\ \A c : is_alpha(c) => c \notin {"<", "/", "!", "-", ">", " ", EOF}
  /\ \A c \in {"title", "style", "script"} : is_alpha(c)
<1>1. \A c : is_alpha(c) => c \notin {"<", "/", "!", "-", ">", " ", EOF}
  BY DEF is_alpha, Letters, Upper, Words, EOF
<1>2. \A c \in {"title", "style", "script"} : is_alpha(c)
  BY DEF is_alpha, Letters, Upper, Words
<1>3. QED BY <1>1, <1>2

\* One more character in a comment, where it does not end and no script begins.
LEMMA SingleGoesOn ==
  ASSUME text \in Seq(Symbols), NEW from \in Nat \ {0}, NEW p \in Nat, Single(from, p),
         ~IsAt(CommentsEnd_, p - 2), ~Ends(Starts_, p - 2)
  PROVE  Single(from, p + 1)
<1>1. InEscaped(from, p + 1)
  BY EscapedGoesOn DEF Single
<1>2. ~InDouble(from, p + 1)
  BY DoubleGoesOn DEF Single
<1>3. QED BY <1>1, <1>2 DEF Single

\* A comment that is read has begun long before.
LEMMA EscapedBefore ==
  ASSUME NEW from \in Nat, NEW p \in Nat, InEscaped(from, p)
  PROVE  from + 3 < p
<1>1. PICK i \in from .. p - 1 : i + 3 < p
  BY ScriptWords
<1>2. QED BY <1>1

\* The text of the comment.
LEMMA OnceGoes ==
  ASSUME text \in Seq(Symbols), NEW from \in Nat \ {0}, NEW p \in Nat, NEW tmp, NEW next
  PROVE  /\ Escapes(from, p, "SCRIPT_DATA_ESCAPED", tmp) =>
              /\ SymbolAt(p) = "<" => Escapes(from, p + 1, "SCRIPT_DATA_ESCAPED_LT", next)
              /\ SymbolAt(p) = "-" => Escapes(from, p + 1, "SCRIPT_DATA_ESCAPED_DASH", next)
              /\ SymbolAt(p) \notin {"<", "-"} => Escapes(from, p + 1, "SCRIPT_DATA_ESCAPED", next)
         /\ Escapes(from, p, "SCRIPT_DATA_ESCAPED_DASH", tmp) =>
              /\ SymbolAt(p) = "<" => Escapes(from, p + 1, "SCRIPT_DATA_ESCAPED_LT", next)
              /\ SymbolAt(p) = "-" => Escapes(from, p + 1, "SCRIPT_DATA_ESCAPED_DASH_DASH", next)
              /\ SymbolAt(p) \notin {"<", "-"} => Escapes(from, p + 1, "SCRIPT_DATA_ESCAPED", next)
         /\ Escapes(from, p, "SCRIPT_DATA_ESCAPED_DASH_DASH", tmp) =>
              /\ SymbolAt(p) = "<" => Escapes(from, p + 1, "SCRIPT_DATA_ESCAPED_LT", next)
              /\ SymbolAt(p) = "-" => Escapes(from, p + 1, "SCRIPT_DATA_ESCAPED_DASH_DASH", next)
              /\ SymbolAt(p) = ">" => Escapes(from, p + 1, "SCRIPT_DATA", next)
              /\ SymbolAt(p) \notin {"<", "-", ">"} => Escapes(from, p + 1, "SCRIPT_DATA_ESCAPED", next)
<1>1. "<" \notin Delimiters /\ "-" \notin Delimiters
  BY DEF Delimiters
<1>2. ASSUME Single(from, p), SymbolAt(p) \in {"<", "-"} PROVE Single(from, p + 1)
  <2>1. ~IsAt(CommentsEnd_, p - 2) /\ ~Ends(Starts_, p - 2)
    BY <1>1, <1>2, WordsAround
  <2>2. QED BY <1>2, <2>1, SingleGoesOn
<1>3. ASSUME Single(from, p), SymbolAt(p) = "<" PROVE Escapes(from, p + 1, "SCRIPT_DATA_ESCAPED_LT", next)
  <2>1. Single(from, p + 1)
    BY <1>2, <1>3
  <2>2. QED BY <1>3, <2>1, EscapesNext DEF Single
<1>4. ASSUME Escapes(from, p, "SCRIPT_DATA_ESCAPED", tmp)
      PROVE  /\ SymbolAt(p) = "<" => Escapes(from, p + 1, "SCRIPT_DATA_ESCAPED_LT", next)
             /\ SymbolAt(p) = "-" => Escapes(from, p + 1, "SCRIPT_DATA_ESCAPED_DASH", next)
             /\ SymbolAt(p) \notin {"<", "-"} => Escapes(from, p + 1, "SCRIPT_DATA_ESCAPED", next)
  <2>1. /\ Single(from, p) /\ SymbolAt(p - 1) # "-"
        /\ ~Ends(Starts_, p - 2) /\ ~Ends(Starts_, p - 1)
    BY <1>4, EscapesIs
  <2>2. Single(from, p + 1)
    <3>1. ~IsAt(CommentsEnd_, p - 2)
      BY <2>1, WordsAround
    <3>2. QED BY <2>1, <3>1, SingleGoesOn
  <2>3. SymbolAt(p) # "<" => ~Ends(Starts_, p)
    BY WordsAround
  <2>4. SymbolAt(p) = "-" => Escapes(from, p + 1, "SCRIPT_DATA_ESCAPED_DASH", next)
    BY <2>1, <2>2, EscapesNext
  <2>5. SymbolAt(p) \notin {"<", "-"} => Escapes(from, p + 1, "SCRIPT_DATA_ESCAPED", next)
    BY <2>1, <2>2, <2>3, EscapesNext
  <2>6. QED BY <1>3, <2>1, <2>4, <2>5
<1>5. ASSUME Escapes(from, p, "SCRIPT_DATA_ESCAPED_DASH", tmp)
      PROVE  /\ SymbolAt(p) = "<" => Escapes(from, p + 1, "SCRIPT_DATA_ESCAPED_LT", next)
             /\ SymbolAt(p) = "-" => Escapes(from, p + 1, "SCRIPT_DATA_ESCAPED_DASH_DASH", next)
             /\ SymbolAt(p) \notin {"<", "-"} => Escapes(from, p + 1, "SCRIPT_DATA_ESCAPED", next)
  <2>1. Single(from, p) /\ SymbolAt(p - 1) = "-" /\ SymbolAt(p - 2) # "-"
    BY <1>5, EscapesIs
  <2>2. Single(from, p + 1)
    <3>1. ~IsAt(CommentsEnd_, p - 2) /\ ~Ends(Starts_, p - 2)
      BY <2>1, WordsAround
    <3>2. QED BY <2>1, <3>1, SingleGoesOn
  <2>3. ~Ends(Starts_, p - 1) /\ (SymbolAt(p) # "<" => ~Ends(Starts_, p))
    BY <2>1, WordsAround
  <2>4. SymbolAt(p) = "-" => Escapes(from, p + 1, "SCRIPT_DATA_ESCAPED_DASH_DASH", next)
    BY <2>1, <2>2, EscapesNext
  <2>5. SymbolAt(p) \notin {"<", "-"} => Escapes(from, p + 1, "SCRIPT_DATA_ESCAPED", next)
    BY <2>1, <2>2, <2>3, EscapesNext
  <2>6. QED BY <1>3, <2>1, <2>4, <2>5
<1>6. ASSUME Escapes(from, p, "SCRIPT_DATA_ESCAPED_DASH_DASH", tmp)
      PROVE  /\ SymbolAt(p) = "<" => Escapes(from, p + 1, "SCRIPT_DATA_ESCAPED_LT", next)
             /\ SymbolAt(p) = "-" => Escapes(from, p + 1, "SCRIPT_DATA_ESCAPED_DASH_DASH", next)
             /\ SymbolAt(p) = ">" => Escapes(from, p + 1, "SCRIPT_DATA", next)
             /\ SymbolAt(p) \notin {"<", "-", ">"} => Escapes(from, p + 1, "SCRIPT_DATA_ESCAPED", next)
  <2>1. Single(from, p) /\ SymbolAt(p - 1) = "-" /\ SymbolAt(p - 2) = "-"
    BY <1>6, EscapesIs
  <2>2. SymbolAt(p) # ">" => Single(from, p + 1)
    <3>1. (SymbolAt(p) # ">" => ~IsAt(CommentsEnd_, p - 2)) /\ ~Ends(Starts_, p - 2)
      BY <2>1, WordsAround
    <3>2. QED BY <2>1, <3>1, SingleGoesOn
  <2>3. ~Ends(Starts_, p - 1) /\ (SymbolAt(p) # "<" => ~Ends(Starts_, p))
    BY <2>1, WordsAround
  <2>4. SymbolAt(p) = "-" => Escapes(from, p + 1, "SCRIPT_DATA_ESCAPED_DASH_DASH", next)
    BY <2>1, <2>2, EscapesNext
  <2>5. SymbolAt(p) \notin {"<", "-", ">"} => Escapes(from, p + 1, "SCRIPT_DATA_ESCAPED", next)
    BY <2>1, <2>2, <2>3, EscapesNext
  <2>6. ASSUME SymbolAt(p) = ">" PROVE Escapes(from, p + 1, "SCRIPT_DATA", next)
    <3>1. from + 3 < p
      BY <2>1, EscapedBefore DEF Single
    <3>2. p - 2 \in Nat \ {0} /\ (p - 2) + 1 = p - 1 /\ (p - 2) + 2 = p
      BY <3>1
    <3>3. IsAt(CommentsEnd_, p - 2)
      BY <2>1, <2>6, <3>2, WordsAt
    <3>4. ~InEscaped(from, p + 1)
      BY <3>3, EscapedGoesOn
    <3>5. NoComment(from, p + 1)
      <4>1. ~IsAt(Comments_, p) /\ ~IsAt(Comments_, p - 1) /\ ~IsAt(Comments_, p - 2)
        BY <2>1, <2>6, WordsAround
      <4>2. (p + 1) - 1 = p /\ (p + 1) - 2 = p - 1 /\ (p + 1) - 3 = p - 2
        OBVIOUS
      <4>3. QED BY <4>1, <4>2, NoCommentIs
    <3>6. "SCRIPT_DATA" \in Plainly
      BY DEF Plainly
    <3>7. \A state \in Plainly :
             Escapes(from, p + 1, state, next) <=> ~InEscaped(from, p + 1) /\ NoComment(from, p + 1)
      BY EscapesNext
    <3>8. QED BY <3>4, <3>5, <3>6, <3>7, Zenon
  <2>7. QED BY <1>3, <2>1, <2>4, <2>5, <2>6
<1>7. QED BY <1>4, <1>5, <1>6

\* A letter in lower case is one of these words only if it is that word.
LEMMA LowerWords ==
  \A c : \A w \in {"title", "style", "script"} : ensure_lowercase(c) = w <=> c = w
<1>1. ASSUME NEW c, NEW w \in {"title", "style", "script"}
      PROVE  ensure_lowercase(c) = w <=> c = w
  <2>1. w = "title" \/ w = "style" \/ w = "script"
    OBVIOUS
  <2>2. QED BY <2>1 DEF ensure_lowercase
<1>2. QED BY <1>1

\* A word that was read is one of these if that is all of it.
LEMMA SpellsWord ==
  ASSUME NEW word, NEW lo \in Nat, NEW p \in Nat, Spells(word, lo, p),
         NEW w \in {"title", "style", "script"}
  PROVE  word = <<w>> <=> p = lo + 1 /\ SymbolAt(lo) = w
<1>1. IsSeq(word) /\ Len(word) = p - lo
  BY DEF Spells
<1>2. ASSUME p = lo + 1
      PROVE  /\ is_alpha(SymbolAt(lo)) /\ Len(word) = 1
             /\ word[1] = ensure_lowercase(SymbolAt(lo))
  BY <1>1, <1>2 DEF Spells
<1>3. ASSUME word = <<w>> PROVE p = lo + 1 /\ SymbolAt(lo) = w
  <2>1. Len(word) = 1 /\ word[1] = w
    BY <1>3
  <2>2. p - lo = 1
    BY <1>1, <2>1, Zenon
  <2>3. p = lo + 1
    BY <2>2
  <2>4. QED BY <1>2, <2>1, <2>3, LowerWords
<1>4. ASSUME p = lo + 1, SymbolAt(lo) = w PROVE word = <<w>>
  <2>1. Len(word) = 1 /\ word[1] = w
    BY <1>2, <1>4, LowerWords
  <2>2. PICK S : word \in Seq(S)
    BY <1>1 DEF IsSeq
  <2>3. word = <<word[1]>>
    BY <2>1, <2>2
  <2>4. QED BY <2>1, <2>3
<1>5. QED BY <1>3, <1>4

\* The word with one more letter.
LEMMA SpellsMore ==
  ASSUME NEW word, NEW lo \in Nat, NEW p \in Nat, Spells(word, lo, p), is_alpha(SymbolAt(p))
  PROVE  Spells(word \o <<ensure_lowercase(SymbolAt(p))>>, lo, p + 1)
<1> DEFINE c == ensure_lowercase(SymbolAt(p))
           u == <<c>>
           longer == word \o u
<1>1. IsSeq(word) /\ Len(word) = p - lo
  BY DEF Spells
<1>2. PICK S : word \in Seq(S)
  BY <1>1 DEF IsSeq
<1> DEFINE T == S \cup {c}
<1> HIDE DEF c
<1>3. word \in Seq(T) /\ u \in Seq(T) /\ Len(u) = 1 /\ u[1] = c
  BY <1>2
<1> HIDE DEF u, T
<1>4. /\ longer \in Seq(T) /\ Len(longer) = Len(word) + Len(u)
      /\ \A i \in 1 .. Len(word) + Len(u) :
           longer[i] = IF i <= Len(word) THEN word[i] ELSE u[i - Len(word)]
  BY <1>1, <1>3, ConcatProperties
<1> HIDE DEF longer
<1>5. Len(longer) = (p + 1) - lo
  BY <1>1, <1>3, <1>4
<1>6. \A k \in lo .. (p + 1) - 1 : is_alpha(SymbolAt(k))
  <2>1. TAKE k \in lo .. (p + 1) - 1
  <2>2. k = p \/ k \in lo .. p - 1
    OBVIOUS
  <2>3. QED BY <2>2 DEF Spells
<1>7. longer[1] = ensure_lowercase(SymbolAt(lo))
  <2>1. CASE Len(word) = 0
    <3>1. lo = p /\ longer[1] = u[1]
      BY <1>1, <1>3, <1>4, <2>1
    <3>2. QED BY <1>3, <3>1 DEF c
  <2>2. CASE Len(word) # 0
    <3>1. p > lo
      BY <1>1, <2>2
    <3>2. longer[1] = word[1]
      BY <1>1, <1>3, <1>4, <2>2
    <3>3. QED BY <3>1, <3>2 DEF Spells
  <2>3. QED BY <2>1, <2>2
<1>8. Spells(longer, lo, p + 1)
  BY <1>4, <1>5, <1>6, <1>7 DEF Spells, IsSeq
<1>9. QED BY <1>8 DEF longer, u, c

\* After a < of the comment.
LEMMA EscapedTagGoes ==
  ASSUME text \in Seq(Symbols), NEW from \in Nat \ {0}, NEW p \in Nat, NEW tmp, NEW next
  PROVE  /\ Escapes(from, p, "SCRIPT_DATA_ESCAPED_LT", tmp) /\ SymbolAt(p - 1) = "<" /\ from <= p - 1 =>
              /\ is_alpha(SymbolAt(p)) => Escapes(from, p, "SCRIPT_DATA_DOUBLE_ESCAPED_START", <<>>)
              /\ SymbolAt(p) = "/" => Escapes(from, p + 1, "SCRIPT_DATA_ESCAPED_END_TAG_OPEN", next)
              /\ ~is_alpha(SymbolAt(p)) => Escapes(from, p, "SCRIPT_DATA_ESCAPED", next)
         /\ \A state, other \in {"SCRIPT_DATA_ESCAPED_END_TAG_OPEN", "SCRIPT_DATA_ESCAPED_END_TAG_NAME"} :
              Escapes(from, p, state, tmp) =>
                /\ Escapes(from, p, other, next)
                /\ is_alpha(SymbolAt(p)) => Escapes(from, p + 1, other, next)
                /\ SymbolAt(p - 1) = "/" \/ (is_alpha(SymbolAt(p - 1)) /\ SymbolAt(p - 2) # "<") =>
                     Escapes(from, p, "SCRIPT_DATA_ESCAPED", next)
<1>1. ASSUME Escapes(from, p, "SCRIPT_DATA_ESCAPED_LT", tmp), SymbolAt(p - 1) = "<", from <= p - 1
      PROVE  /\ is_alpha(SymbolAt(p)) => Escapes(from, p, "SCRIPT_DATA_DOUBLE_ESCAPED_START", <<>>)
             /\ SymbolAt(p) = "/" => Escapes(from, p + 1, "SCRIPT_DATA_ESCAPED_END_TAG_OPEN", next)
             /\ ~is_alpha(SymbolAt(p)) => Escapes(from, p, "SCRIPT_DATA_ESCAPED", next)
  <2>1. Single(from, p) /\ InEscaped(from, p - 1)
    BY <1>1, EscapesIs
  <2>2. Escapes(from, p, "SCRIPT_DATA_DOUBLE_ESCAPED_START", <<>>)
    <3>1. Spells(<<>>, (p - 1) + 1, p)
      <4>1. (p - 1) + 1 = p /\ p - p = 0 /\ ~(p > p)
        OBVIOUS
      <4>2. \A k \in p .. p - 1 : FALSE
        OBVIOUS
      <4>3. IsSeq(<<>>) /\ Len(<<>>) = 0
        BY DEF IsSeq
      <4>4. QED BY <4>1, <4>2, <4>3 DEF Spells
    <3>2. p - 1 \in from .. p - 1
      BY <1>1
    <3>3. QED BY <1>1, <2>1, <3>1, <3>2, EscapesIs
  <2>3. SymbolAt(p) = "/" => Escapes(from, p + 1, "SCRIPT_DATA_ESCAPED_END_TAG_OPEN", next)
    <3>1. ~IsAt(CommentsEnd_, p - 2) /\ ~Ends(Starts_, p - 2)
      BY <1>1, WordsAround
    <3>2. Single(from, p + 1)
      BY <2>1, <3>1, SingleGoesOn
    <3>3. QED BY <3>2, EscapesNext
  <2>4. ~is_alpha(SymbolAt(p)) => Escapes(from, p, "SCRIPT_DATA_ESCAPED", next)
    <3>1. ~is_alpha(SymbolAt(p)) => SymbolAt(p) # "script"
      BY LettersAre
    <3>2. ~Ends(Starts_, p - 2) /\ (~is_alpha(SymbolAt(p)) => ~Ends(Starts_, p - 1))
      BY <1>1, <3>1, WordsAround
    <3>3. QED BY <1>1, <2>1, <3>2, EscapesIs
  <2>5. QED BY <2>2, <2>3, <2>4
<1>2. ASSUME NEW state \in {"SCRIPT_DATA_ESCAPED_END_TAG_OPEN", "SCRIPT_DATA_ESCAPED_END_TAG_NAME"},
             NEW other \in {"SCRIPT_DATA_ESCAPED_END_TAG_OPEN", "SCRIPT_DATA_ESCAPED_END_TAG_NAME"},
             Escapes(from, p, state, tmp)
      PROVE  /\ Escapes(from, p, other, next)
             /\ is_alpha(SymbolAt(p)) => Escapes(from, p + 1, other, next)
             /\ SymbolAt(p - 1) = "/" \/ (is_alpha(SymbolAt(p - 1)) /\ SymbolAt(p - 2) # "<") =>
                  Escapes(from, p, "SCRIPT_DATA_ESCAPED", next)
  <2>1. Single(from, p)
    BY <1>2, EscapesIs
  <2>2. Escapes(from, p, other, next)
    BY <2>1, EscapesIs
  <2>3. ASSUME is_alpha(SymbolAt(p)) PROVE Escapes(from, p + 1, other, next)
    <3>1. SymbolAt(p) # ">" /\ SymbolAt(p) \notin Delimiters
      BY <2>3, LettersAre DEF Delimiters
    <3>2. ~IsAt(CommentsEnd_, p - 2) /\ ~Ends(Starts_, p - 2)
      BY <3>1, WordsAround
    <3>3. Single(from, p + 1)
      BY <2>1, <3>2, SingleGoesOn
    <3>4. QED BY <3>3, EscapesNext
  <2>4. ASSUME SymbolAt(p - 1) = "/" \/ (is_alpha(SymbolAt(p - 1)) /\ SymbolAt(p - 2) # "<")
        PROVE  Escapes(from, p, "SCRIPT_DATA_ESCAPED", next)
    <3>1. SymbolAt(p - 1) # "-" /\ SymbolAt(p - 1) # "<"
      BY <2>4, LettersAre
    <3>2. ~Ends(Starts_, p - 2) /\ ~Ends(Starts_, p - 1)
      BY <2>4, <3>1, WordsAround
    <3>3. QED BY <2>1, <3>1, <3>2, EscapesIs
  <2>5. QED BY <2>2, <2>3, <2>4
<1>3. QED BY <1>1, <1>2

\* What was read after the < of a name in the comment or in the script there.
LEMMA NameBehind ==
  ASSUME NEW m \in Nat, NEW p \in Nat, NEW tmp, NEW lo \in Nat, Spells(tmp, lo, p), lo <= p
  PROVE  /\ p - 1 >= lo => is_alpha(SymbolAt(p - 1))
         /\ p - 2 >= lo => is_alpha(SymbolAt(p - 2))
         /\ p - 3 >= lo => is_alpha(SymbolAt(p - 3))
<1>1. \A k \in lo .. p - 1 : is_alpha(SymbolAt(k))
  BY DEF Spells
<1>2. QED BY <1>1

\* After a < and letters in the comment, <script> begins a script.
LEMMA StartGoes ==
  ASSUME text \in Seq(Symbols), NEW from \in Nat \ {0}, NEW p \in Nat, NEW tmp, NEW next,
         Escapes(from, p, "SCRIPT_DATA_DOUBLE_ESCAPED_START", tmp)
  PROVE  /\ SymbolAt(p) \in Delimiters /\ tmp = <<"script">> =>
              Escapes(from, p + 1, "SCRIPT_DATA_DOUBLE_ESCAPED", next)
         /\ SymbolAt(p) \in Delimiters /\ tmp # <<"script">> =>
              Escapes(from, p + 1, "SCRIPT_DATA_ESCAPED", next)
         /\ is_alpha(SymbolAt(p)) =>
              Escapes(from, p + 1, "SCRIPT_DATA_DOUBLE_ESCAPED_START",
                      tmp \o <<ensure_lowercase(SymbolAt(p))>>)
         /\ ~is_alpha(SymbolAt(p)) /\ SymbolAt(p) \notin Delimiters =>
              Escapes(from, p, "SCRIPT_DATA_ESCAPED", next)
<1>1. Single(from, p)
  BY EscapesIs
<1>2. PICK m \in from .. p - 1 : SymbolAt(m) = "<" /\ Spells(tmp, m + 1, p) /\ InEscaped(from, m)
  BY EscapesIs
<1>3. m \in Nat \ {0} /\ m + 1 \in Nat /\ m + 1 <= p
  OBVIOUS
<1>4. /\ p - 1 = m \/ (p - 1 > m /\ is_alpha(SymbolAt(p - 1)))
      /\ p - 2 > m => is_alpha(SymbolAt(p - 2))
  BY <1>2, <1>3, NameBehind
<1>5. SymbolAt(p - 1) # "-" /\ SymbolAt(p - 1) # "/"
  BY <1>2, <1>4, LettersAre
<1>6. ASSUME SymbolAt(p) \in Delimiters
      PROVE  SymbolAt(p) \notin {"<", "-"} /\ ~is_alpha(SymbolAt(p)) /\ SymbolAt(p) # "script"
  <2>1. \A c \in Delimiters : c \notin {"<", "-", "script"} /\ ~is_alpha(c)
    BY LettersAre DEF Delimiters
  <2>2. QED BY <1>6, <2>1
<1>7. ASSUME Ends(Starts_, p - 2) PROVE p = m + 2 /\ tmp = <<"script">>
  <2>1. SymbolAt(p - 2) = "<" /\ SymbolAt(p - 1) = "script"
    BY <1>7, WordsAround
  <2>2. p - 1 # m /\ ~(p - 2 > m)
    BY <1>2, <1>4, <2>1, LettersAre
  <2>3. p = m + 2
    BY <1>4, <2>2
  <2>4. p = (m + 1) + 1 /\ p - 1 = m + 1
    BY <2>3
  <2>5. tmp = <<"script">>
    BY <1>2, <1>3, <2>1, <2>4, SpellsWord
  <2>6. QED BY <2>3, <2>5
<1>8. ~IsAt(CommentsEnd_, p - 2)
  BY <1>5, WordsAround
<1>9. ASSUME SymbolAt(p) \in Delimiters, tmp = <<"script">>
      PROVE  Escapes(from, p + 1, "SCRIPT_DATA_DOUBLE_ESCAPED", next)
  <2>1. p = (m + 1) + 1 /\ SymbolAt(m + 1) = "script"
    BY <1>2, <1>3, <1>9, SpellsWord
  <2>2. m = p - 2 /\ m + 1 = p - 1 /\ m + 2 = p
    BY <2>1
  <2>3. Ends(Starts_, p - 2)
    BY <1>2, <1>3, <1>9, <2>1, <2>2, WordsAt
  <2>4. InDouble(from, p + 1)
    BY <1>2, <2>2, <2>3, DoubleGoesOn
  <2>5. ~Ends(Stops_, p - 2) /\ ~Ends(Stops_, p - 1) /\ ~Ends(Stops_, p)
    BY <1>5, <1>6, <1>9, <2>1, <2>2, WordsAround
  <2>6. SymbolAt(p) # "-"
    BY <1>6, <1>9
  <2>7. QED BY <2>4, <2>5, <2>6, EscapesNext
<1>10. ASSUME SymbolAt(p) \in Delimiters, tmp # <<"script">>
       PROVE  Escapes(from, p + 1, "SCRIPT_DATA_ESCAPED", next)
  <2>1. Single(from, p + 1)
    BY <1>1, <1>7, <1>8, <1>10, SingleGoesOn
  <2>2. ~Ends(Starts_, p - 1) /\ ~Ends(Starts_, p)
    BY <1>6, <1>10, WordsAround
  <2>3. SymbolAt(p) # "-"
    BY <1>6, <1>10
  <2>4. QED BY <2>1, <2>2, <2>3, EscapesNext
<1>11. ASSUME is_alpha(SymbolAt(p))
       PROVE  Escapes(from, p + 1, "SCRIPT_DATA_DOUBLE_ESCAPED_START",
                      tmp \o <<ensure_lowercase(SymbolAt(p))>>)
  <2>1. SymbolAt(p) \notin Delimiters
    BY <1>6, <1>11
  <2>2. ~Ends(Starts_, p - 2)
    BY <2>1, WordsAround
  <2>3. Single(from, p + 1)
    BY <1>1, <1>8, <2>2, SingleGoesOn
  <2>4. Spells(tmp \o <<ensure_lowercase(SymbolAt(p))>>, m + 1, p + 1)
    BY <1>2, <1>3, <1>11, SpellsMore
  <2>5. m \in from .. p
    OBVIOUS
  <2>6. QED BY <1>2, <2>3, <2>4, <2>5, EscapesNext
<1>12. ASSUME ~is_alpha(SymbolAt(p)), SymbolAt(p) \notin Delimiters
       PROVE  Escapes(from, p, "SCRIPT_DATA_ESCAPED", next)
  <2>1. SymbolAt(p) # "script"
    BY <1>12, LettersAre
  <2>2. ~Ends(Starts_, p - 2) /\ ~Ends(Starts_, p - 1)
    BY <1>12, <2>1, WordsAround
  <2>3. QED BY <1>1, <1>5, <2>2, EscapesIs
<1>13. QED BY <1>9, <1>10, <1>11, <1>12

\* The text of a script in a comment.
LEMMA TwiceGoes ==
  ASSUME text \in Seq(Symbols), NEW from \in Nat \ {0}, NEW p \in Nat, NEW tmp, NEW next
  PROVE  /\ Escapes(from, p, "SCRIPT_DATA_DOUBLE_ESCAPED", tmp) =>
              /\ SymbolAt(p) = "<" => Escapes(from, p + 1, "SCRIPT_DATA_DOUBLE_ESCAPED_LT", next)
              /\ SymbolAt(p) = "-" => Escapes(from, p + 1, "SCRIPT_DATA_DOUBLE_ESCAPED_DASH", next)
              /\ SymbolAt(p) \notin {"<", "-"} => Escapes(from, p + 1, "SCRIPT_DATA_DOUBLE_ESCAPED", next)
         /\ Escapes(from, p, "SCRIPT_DATA_DOUBLE_ESCAPED_DASH", tmp) =>
              /\ SymbolAt(p) = "<" => Escapes(from, p + 1, "SCRIPT_DATA_DOUBLE_ESCAPED_LT", next)
              /\ SymbolAt(p) = "-" => Escapes(from, p + 1, "SCRIPT_DATA_DOUBLE_ESCAPED_DASH_DASH", next)
              /\ SymbolAt(p) \notin {"<", "-"} => Escapes(from, p + 1, "SCRIPT_DATA_DOUBLE_ESCAPED", next)
         /\ Escapes(from, p, "SCRIPT_DATA_DOUBLE_ESCAPED_DASH_DASH", tmp) =>
              /\ SymbolAt(p) = "<" => Escapes(from, p + 1, "SCRIPT_DATA_DOUBLE_ESCAPED_LT", next)
              /\ SymbolAt(p) = "-" => Escapes(from, p + 1, "SCRIPT_DATA_DOUBLE_ESCAPED_DASH_DASH", next)
              /\ SymbolAt(p) = ">" => Escapes(from, p + 1, "SCRIPT_DATA", next)
              /\ SymbolAt(p) \notin {"<", "-", ">"} => Escapes(from, p + 1, "SCRIPT_DATA_DOUBLE_ESCAPED", next)
<1>1. "<" \notin Delimiters /\ "-" \notin Delimiters
  BY DEF Delimiters
<1>2. ASSUME InDouble(from, p), ~IsAt(CommentsEnd_, p - 2), ~Ends(Stops_, p - 3) PROVE InDouble(from, p + 1)
  BY <1>2, DoubleGoesOn
<1>3. SymbolAt(p) # "<" => ~Ends(Stops_, p)
  BY WordsAround
<1>4. ASSUME Escapes(from, p, "SCRIPT_DATA_DOUBLE_ESCAPED", tmp)
      PROVE  /\ SymbolAt(p) = "<" => Escapes(from, p + 1, "SCRIPT_DATA_DOUBLE_ESCAPED_LT", next)
             /\ SymbolAt(p) = "-" => Escapes(from, p + 1, "SCRIPT_DATA_DOUBLE_ESCAPED_DASH", next)
             /\ SymbolAt(p) \notin {"<", "-"} => Escapes(from, p + 1, "SCRIPT_DATA_DOUBLE_ESCAPED", next)
  <2>1. /\ InDouble(from, p) /\ SymbolAt(p - 1) # "-"
        /\ ~Ends(Stops_, p - 3) /\ ~Ends(Stops_, p - 2) /\ ~Ends(Stops_, p - 1)
    BY <1>4, EscapesIs
  <2>2. InDouble(from, p + 1)
    <3>1. ~IsAt(CommentsEnd_, p - 2)
      BY <2>1, WordsAround
    <3>2. QED BY <1>2, <2>1, <3>1
  <2>3. SymbolAt(p) = "<" => Escapes(from, p + 1, "SCRIPT_DATA_DOUBLE_ESCAPED_LT", next)
    BY <2>2, EscapesNext
  <2>4. SymbolAt(p) = "-" => Escapes(from, p + 1, "SCRIPT_DATA_DOUBLE_ESCAPED_DASH", next)
    BY <2>1, <2>2, EscapesNext
  <2>5. SymbolAt(p) \notin {"<", "-"} => Escapes(from, p + 1, "SCRIPT_DATA_DOUBLE_ESCAPED", next)
    BY <1>3, <2>1, <2>2, EscapesNext
  <2>6. QED BY <2>3, <2>4, <2>5
<1>5. ASSUME Escapes(from, p, "SCRIPT_DATA_DOUBLE_ESCAPED_DASH", tmp)
      PROVE  /\ SymbolAt(p) = "<" => Escapes(from, p + 1, "SCRIPT_DATA_DOUBLE_ESCAPED_LT", next)
             /\ SymbolAt(p) = "-" => Escapes(from, p + 1, "SCRIPT_DATA_DOUBLE_ESCAPED_DASH_DASH", next)
             /\ SymbolAt(p) \notin {"<", "-"} => Escapes(from, p + 1, "SCRIPT_DATA_DOUBLE_ESCAPED", next)
  <2>1. InDouble(from, p) /\ SymbolAt(p - 1) = "-" /\ SymbolAt(p - 2) # "-"
    BY <1>5, EscapesIs
  <2>2. ~IsAt(CommentsEnd_, p - 2) /\ ~Ends(Stops_, p - 3) /\ ~Ends(Stops_, p - 2) /\ ~Ends(Stops_, p - 1)
    BY <2>1, WordsAround
  <2>3. InDouble(from, p + 1)
    BY <1>2, <2>1, <2>2
  <2>4. SymbolAt(p) = "<" => Escapes(from, p + 1, "SCRIPT_DATA_DOUBLE_ESCAPED_LT", next)
    BY <2>3, EscapesNext
  <2>5. SymbolAt(p) = "-" => Escapes(from, p + 1, "SCRIPT_DATA_DOUBLE_ESCAPED_DASH_DASH", next)
    BY <2>1, <2>3, EscapesNext
  <2>6. SymbolAt(p) \notin {"<", "-"} => Escapes(from, p + 1, "SCRIPT_DATA_DOUBLE_ESCAPED", next)
    BY <1>3, <2>2, <2>3, EscapesNext
  <2>7. QED BY <2>4, <2>5, <2>6
<1>6. ASSUME Escapes(from, p, "SCRIPT_DATA_DOUBLE_ESCAPED_DASH_DASH", tmp)
      PROVE  /\ SymbolAt(p) = "<" => Escapes(from, p + 1, "SCRIPT_DATA_DOUBLE_ESCAPED_LT", next)
             /\ SymbolAt(p) = "-" => Escapes(from, p + 1, "SCRIPT_DATA_DOUBLE_ESCAPED_DASH_DASH", next)
             /\ SymbolAt(p) = ">" => Escapes(from, p + 1, "SCRIPT_DATA", next)
             /\ SymbolAt(p) \notin {"<", "-", ">"} => Escapes(from, p + 1, "SCRIPT_DATA_DOUBLE_ESCAPED", next)
  <2>1. InDouble(from, p) /\ SymbolAt(p - 1) = "-" /\ SymbolAt(p - 2) = "-"
    BY <1>6, EscapesIs
  <2>2. /\ SymbolAt(p) # ">" => ~IsAt(CommentsEnd_, p - 2)
        /\ ~Ends(Stops_, p - 3) /\ ~Ends(Stops_, p - 2) /\ ~Ends(Stops_, p - 1)
    BY <2>1, WordsAround
  <2>3. SymbolAt(p) # ">" => InDouble(from, p + 1)
    BY <1>2, <2>1, <2>2
  <2>4. SymbolAt(p) = "<" => Escapes(from, p + 1, "SCRIPT_DATA_DOUBLE_ESCAPED_LT", next)
    BY <2>3, EscapesNext
  <2>5. SymbolAt(p) = "-" => Escapes(from, p + 1, "SCRIPT_DATA_DOUBLE_ESCAPED_DASH_DASH", next)
    BY <2>1, <2>3, EscapesNext
  <2>6. SymbolAt(p) \notin {"<", "-", ">"} => Escapes(from, p + 1, "SCRIPT_DATA_DOUBLE_ESCAPED", next)
    BY <1>3, <2>2, <2>3, EscapesNext
  <2>7. ASSUME SymbolAt(p) = ">" PROVE Escapes(from, p + 1, "SCRIPT_DATA", next)
    <3>1. from + 3 < p
      BY <2>1, DoubleIsEscaped, EscapedBefore
    <3>2. p - 2 \in Nat \ {0} /\ (p - 2) + 1 = p - 1 /\ (p - 2) + 2 = p
      BY <3>1
    <3>3. IsAt(CommentsEnd_, p - 2)
      BY <2>1, <2>7, <3>2, WordsAt
    <3>4. ~InEscaped(from, p + 1)
      BY <3>3, EscapedGoesOn
    <3>5. NoComment(from, p + 1)
      <4>1. ~IsAt(Comments_, p) /\ ~IsAt(Comments_, p - 1) /\ ~IsAt(Comments_, p - 2)
        BY <2>1, <2>7, WordsAround
      <4>2. (p + 1) - 1 = p /\ (p + 1) - 2 = p - 1 /\ (p + 1) - 3 = p - 2
        OBVIOUS
      <4>3. QED BY <4>1, <4>2, NoCommentIs
    <3>6. "SCRIPT_DATA" \in Plainly
      BY DEF Plainly
    <3>7. \A state \in Plainly :
             Escapes(from, p + 1, state, next) <=> ~InEscaped(from, p + 1) /\ NoComment(from, p + 1)
      BY EscapesNext
    <3>8. QED BY <3>4, <3>5, <3>6, <3>7, Zenon
  <2>8. QED BY <2>4, <2>5, <2>6, <2>7
<1>7. QED BY <1>4, <1>5, <1>6

\* After a < of the script, </script> ends it.
LEMMA StopGoes ==
  ASSUME text \in Seq(Symbols), NEW from \in Nat \ {0}, NEW p \in Nat, NEW tmp, NEW next
  PROVE  /\ Escapes(from, p, "SCRIPT_DATA_DOUBLE_ESCAPED_LT", tmp) =>
              /\ SymbolAt(p) = "/" => Escapes(from, p + 1, "SCRIPT_DATA_DOUBLE_ESCAPED_END", <<>>)
              /\ SymbolAt(p) # "/" => Escapes(from, p, "SCRIPT_DATA_DOUBLE_ESCAPED", next)
         /\ Escapes(from, p, "SCRIPT_DATA_DOUBLE_ESCAPED_END", tmp) =>
              /\ SymbolAt(p) \in Delimiters /\ tmp = <<"script">> =>
                   Escapes(from, p + 1, "SCRIPT_DATA_ESCAPED", next)
              /\ SymbolAt(p) \in Delimiters /\ tmp # <<"script">> =>
                   Escapes(from, p + 1, "SCRIPT_DATA_DOUBLE_ESCAPED", next)
              /\ is_alpha(SymbolAt(p)) =>
                   Escapes(from, p + 1, "SCRIPT_DATA_DOUBLE_ESCAPED_END",
                           tmp \o <<ensure_lowercase(SymbolAt(p))>>)
              /\ ~is_alpha(SymbolAt(p)) /\ SymbolAt(p) \notin Delimiters =>
                   Escapes(from, p, "SCRIPT_DATA_DOUBLE_ESCAPED", next)
<1>1. ASSUME Escapes(from, p, "SCRIPT_DATA_DOUBLE_ESCAPED_LT", tmp)
      PROVE  /\ SymbolAt(p) = "/" => Escapes(from, p + 1, "SCRIPT_DATA_DOUBLE_ESCAPED_END", <<>>)
             /\ SymbolAt(p) # "/" => Escapes(from, p, "SCRIPT_DATA_DOUBLE_ESCAPED", next)
  <2>1. InDouble(from, p) /\ SymbolAt(p - 1) = "<"
    BY <1>1, EscapesIs
  <2>2. from + 3 < p
    BY <2>1, DoubleIsEscaped, EscapedBefore
  <2>3. /\ ~IsAt(CommentsEnd_, p - 2) /\ ~Ends(Stops_, p - 3) /\ ~Ends(Stops_, p - 2)
        /\ SymbolAt(p) # "/" => ~Ends(Stops_, p - 1)
    BY <2>1, WordsAround
  <2>4. SymbolAt(p) # "/" => Escapes(from, p, "SCRIPT_DATA_DOUBLE_ESCAPED", next)
    BY <2>1, <2>3, EscapesIs
  <2>5. ASSUME SymbolAt(p) = "/" PROVE Escapes(from, p + 1, "SCRIPT_DATA_DOUBLE_ESCAPED_END", <<>>)
    <3>1. InDouble(from, p + 1)
      BY <2>1, <2>3, DoubleGoesOn
    <3>2. Spells(<<>>, (p - 1) + 2, p + 1)
      <4>1. (p - 1) + 2 = p + 1 /\ (p + 1) - (p + 1) = 0 /\ ~(p + 1 > p + 1)
        OBVIOUS
      <4>2. \A k \in p + 1 .. (p + 1) - 1 : FALSE
        OBVIOUS
      <4>3. IsSeq(<<>>) /\ Len(<<>>) = 0
        BY DEF IsSeq
      <4>4. QED BY <4>1, <4>2, <4>3 DEF Spells
    <3>3. p - 1 \in from .. p - 1 /\ (p - 1) + 1 = p
      BY <2>2
    <3>4. QED BY <2>1, <2>5, <3>1, <3>2, <3>3, EscapesNext
  <2>6. QED BY <2>4, <2>5
<1>2. ASSUME Escapes(from, p, "SCRIPT_DATA_DOUBLE_ESCAPED_END", tmp)
      PROVE
              /\ SymbolAt(p) \in Delimiters /\ tmp = <<"script">> =>
                   Escapes(from, p + 1, "SCRIPT_DATA_ESCAPED", next)
              /\ SymbolAt(p) \in Delimiters /\ tmp # <<"script">> =>
                   Escapes(from, p + 1, "SCRIPT_DATA_DOUBLE_ESCAPED", next)
              /\ is_alpha(SymbolAt(p)) =>
                   Escapes(from, p + 1, "SCRIPT_DATA_DOUBLE_ESCAPED_END",
                           tmp \o <<ensure_lowercase(SymbolAt(p))>>)
              /\ ~is_alpha(SymbolAt(p)) /\ SymbolAt(p) \notin Delimiters =>
                   Escapes(from, p, "SCRIPT_DATA_DOUBLE_ESCAPED", next)
  <2>1. InDouble(from, p)
    BY <1>2, EscapesIs
  <2>2. PICK m \in from .. p - 2 : SymbolAt(m) = "<" /\ SymbolAt(m + 1) = "/" /\ Spells(tmp, m + 2, p)
    BY <1>2, EscapesIs
  <2>3. m \in Nat \ {0} /\ m + 2 \in Nat /\ m + 2 <= p
    OBVIOUS
  <2>4. /\ p - 1 = m + 1 \/ (p - 1 > m + 1 /\ is_alpha(SymbolAt(p - 1)))
        /\ p - 2 = m \/ p - 2 = m + 1 \/ (p - 2 > m + 1 /\ is_alpha(SymbolAt(p - 2)))
        /\ p - 3 = m - 1 \/ p - 3 = m \/ p - 3 = m + 1 \/ (p - 3 > m + 1 /\ is_alpha(SymbolAt(p - 3)))
    BY <2>2, <2>3, NameBehind
  <2>5. SymbolAt(p - 1) # "-" /\ SymbolAt(p - 1) # "<"
    BY <2>2, <2>4, LettersAre
  <2>6. ASSUME SymbolAt(p) \in Delimiters
        PROVE  SymbolAt(p) \notin {"<", "-"} /\ ~is_alpha(SymbolAt(p)) /\ SymbolAt(p) # "script"
    <3>1. \A c \in Delimiters : c \notin {"<", "-", "script"} /\ ~is_alpha(c)
      BY LettersAre DEF Delimiters
    <3>2. QED BY <2>6, <3>1
  <2>7. ASSUME Ends(Stops_, p - 3) PROVE tmp = <<"script">>
    <3>1. SymbolAt(p - 3) = "<" /\ SymbolAt(p - 2) = "/" /\ SymbolAt(p - 1) = "script"
      BY <2>7, WordsAround
    <3>2. p - 3 = m
      <4>1. p - 3 # m + 1 /\ ~(p - 3 > m + 1)
        <5>1. p - 3 # m + 1
          BY <2>2, <3>1, Zenon
        <5>2. ASSUME p - 3 > m + 1 PROVE FALSE
          <6>1. p - 3 >= m + 2
            BY <5>2
          <6>2. is_alpha(SymbolAt(p - 3))
            BY <2>2, <2>3, <6>1, NameBehind
          <6>3. QED BY <3>1, <6>2, LettersAre
        <5>3. QED BY <5>1, <5>2
      <4>2. p - 3 # m - 1
        <5>1. ASSUME p - 3 = m - 1 PROVE FALSE
          <6>1. p - 2 = m
            BY <5>1
          <6>2. QED BY <2>2, <3>1, <6>1
        <5>2. QED BY <5>1
      <4>3. QED BY <2>4, <4>1, <4>2
    <3>3. p = (m + 2) + 1 /\ p - 1 = m + 2
      BY <3>2
    <3>4. QED BY <2>2, <2>3, <3>1, <3>3, SpellsWord
  <2>8. ~IsAt(CommentsEnd_, p - 2) /\ ~Ends(Stops_, p - 1)
    BY <2>5, WordsAround
  <2>9. ASSUME SymbolAt(p) \in Delimiters, tmp = <<"script">>
        PROVE  Escapes(from, p + 1, "SCRIPT_DATA_ESCAPED", next)
    <3>1. p = (m + 2) + 1 /\ SymbolAt(m + 2) = "script"
      BY <2>2, <2>3, <2>9, SpellsWord
    <3>2. m = p - 3 /\ m + 1 = p - 2 /\ m + 2 = p - 1 /\ m + 3 = p
      BY <3>1
    <3>3. Ends(Stops_, p - 3)
      BY <2>2, <2>3, <2>9, <3>1, <3>2, WordsAt
    <3>4. ~InDouble(from, p + 1)
      BY <3>3, DoubleGoesOn
    <3>5. InEscaped(from, p + 1)
      BY <2>1, <2>8, DoubleIsEscaped, EscapedGoesOn
    <3>6. ~Ends(Starts_, p - 1) /\ ~Ends(Starts_, p) /\ SymbolAt(p) # "-"
      BY <2>5, <2>6, <2>9, WordsAround
    <3>7. QED BY <3>4, <3>5, <3>6, EscapesNext DEF Single
  <2>10. ASSUME SymbolAt(p) \in Delimiters, tmp # <<"script">>
         PROVE  Escapes(from, p + 1, "SCRIPT_DATA_DOUBLE_ESCAPED", next)
    <3>1. InDouble(from, p + 1)
      BY <2>1, <2>7, <2>8, <2>10, DoubleGoesOn
    <3>2. ~Ends(Stops_, p - 2) /\ ~Ends(Stops_, p) /\ SymbolAt(p) # "-"
      BY <2>6, <2>10, WordsAround
    <3>3. QED BY <2>8, <3>1, <3>2, EscapesNext
  <2>11. ASSUME is_alpha(SymbolAt(p))
         PROVE  Escapes(from, p + 1, "SCRIPT_DATA_DOUBLE_ESCAPED_END",
                        tmp \o <<ensure_lowercase(SymbolAt(p))>>)
    <3>1. SymbolAt(p) \notin Delimiters
      BY <2>6, <2>11
    <3>2. ~Ends(Stops_, p - 3)
      BY <3>1, WordsAround
    <3>3. InDouble(from, p + 1)
      BY <2>1, <2>8, <3>2, DoubleGoesOn
    <3>4. Spells(tmp \o <<ensure_lowercase(SymbolAt(p))>>, m + 2, p + 1)
      BY <2>2, <2>3, <2>11, SpellsMore
    <3>5. m \in from .. p - 1
      OBVIOUS
    <3>6. QED BY <2>2, <3>3, <3>4, <3>5, EscapesNext
  <2>12. ASSUME ~is_alpha(SymbolAt(p)), SymbolAt(p) \notin Delimiters
         PROVE  Escapes(from, p, "SCRIPT_DATA_DOUBLE_ESCAPED", next)
    <3>1. SymbolAt(p) # "script"
      BY <2>12, LettersAre
    <3>2. ~Ends(Stops_, p - 3) /\ ~Ends(Stops_, p - 2)
      BY <2>12, <3>1, WordsAround
    <3>3. QED BY <2>1, <2>5, <2>8, <3>2, EscapesIs
  <2>13. QED BY <2>9, <2>10, <2>11, <2>12
<1>3. QED BY <1>1, <1>2

(* ----------------------------- The contents go on -------------------------- *)

\* Where the contents end, by the symbols there.
LEMMA EndsContentsAt ==
  ASSUME text \in Seq(Symbols), NEW c, c.from \in Nat \ {0}, Opener(c), NEW k \in Nat
  PROVE  /\ EndsContents(c, k) =>
              /\ c.from <= k
              /\ \E word \in {"title", "style", "script"} :
                   /\ c.name = <<word>> /\ SymbolAt(k) = "<" /\ SymbolAt(k + 1) = "/"
                   /\ SymbolAt(k + 2) = word /\ SymbolAt(k + 3) \in Delimiters
              /\ ~(c.state = "SCRIPT_DATA" /\ InDouble(c.from, k))
         /\ \A word \in {"title", "style", "script"} :
              /\ c.from <= k /\ c.name = <<word>> /\ SymbolAt(k) = "<" /\ SymbolAt(k + 1) = "/"
              /\ SymbolAt(k + 2) = word /\ SymbolAt(k + 3) \in Delimiters
              /\ ~(c.state = "SCRIPT_DATA" /\ InDouble(c.from, k))
              => EndsContents(c, k)
<1>1. ASSUME EndsContents(c, k)
      PROVE  /\ c.from <= k
             /\ \E word \in {"title", "style", "script"} :
                  /\ c.name = <<word>> /\ SymbolAt(k) = "<" /\ SymbolAt(k + 1) = "/"
                  /\ SymbolAt(k + 2) = word /\ SymbolAt(k + 3) \in Delimiters
             /\ ~(c.state = "SCRIPT_DATA" /\ InDouble(c.from, k))
  <2>1. /\ k \in c.from .. Len(text) /\ c.name # <<>> /\ Ends(<<"<", "/">> \o c.name, k)
        /\ ~(c.state = "SCRIPT_DATA" /\ InDouble(c.from, k))
    BY <1>1, Zenon DEF EndsContents
  <2>2. PICK word \in {"title", "style", "script"} : c.name = <<word>>
    <3>1. c.name \in {<<"title">>, <<"style">>, <<"script">>}
      BY <2>1, Zenon DEF Opener
    <3>2. QED BY <3>1, Zenon
  <2>3. k \in Nat \ {0}
    BY <2>1
  <2>4. Ends(<<"<", "/">> \o <<word>>, k)
    BY <2>1, <2>2, Zenon
  <2>5. /\ SymbolAt(k) = "<" /\ SymbolAt(k + 1) = "/"
        /\ SymbolAt(k + 2) = word /\ SymbolAt(k + 3) \in Delimiters
    BY <2>3, <2>4, EndTagAt
  <2>6. c.from <= k
    BY <2>1
  <2>7. QED BY <2>1, <2>2, <2>5, <2>6, Zenon
<1>2. ASSUME NEW word \in {"title", "style", "script"},
             c.from <= k, c.name = <<word>>, SymbolAt(k) = "<", SymbolAt(k + 1) = "/",
             SymbolAt(k + 2) = word, SymbolAt(k + 3) \in Delimiters,
             ~(c.state = "SCRIPT_DATA" /\ InDouble(c.from, k))
      PROVE  EndsContents(c, k)
  <2>1. k \in Nat \ {0}
    BY <1>2
  <2>2. Ends(<<"<", "/">> \o <<word>>, k)
    BY <1>2, <2>1, EndTagAt
  <2>3. k \in c.from .. Len(text)
    <3>1. SymbolAt(k) # EOF
      BY <1>2 DEF EOF
    <3>2. ~(k > Len(text))
      BY <2>1, <3>1, SymbolAtIs
    <3>3. QED BY <1>2, <2>1, <3>2
  <2>4. c.name # <<>>
    <3>1. Len(<<word>>) = 1 /\ Len(<<>>) = 0
      OBVIOUS
    <3>2. QED BY <1>2, <3>1
  <2>5. Ends(<<"<", "/">> \o c.name, k)
    BY <1>2, <2>2, Zenon
  <2>6. QED BY <1>2, <2>3, <2>4, <2>5, Zenon DEF EndsContents
<1>3. QED BY <1>1, <1>2

\* Nor do they end at a place without <, or in a script in a comment.
LEMMA OpenMore ==
  ASSUME text \in Seq(Symbols), NEW c, c.from \in Nat \ {0}, Opener(c), NEW p \in Nat,
         OpenUpTo(c, p), SymbolAt(p) # "<" \/ SymbolAt(p + 1) # "/"
                         \/ (c.state = "SCRIPT_DATA" /\ InDouble(c.from, p))
  PROVE  OpenUpTo(c, p + 1)
<1>1. ~EndsContents(c, p)
  BY EndsContentsAt
<1>2. ASSUME NEW k \in c.from .. (p + 1) - 1 PROVE ~EndsContents(c, k)
  <2>1. k = p \/ k \in c.from .. p - 1
    OBVIOUS
  <2>2. QED BY <1>1, <2>1 DEF OpenUpTo
<1>3. QED BY <1>2 DEF OpenUpTo

\* They end behind what is open.
LEMMA OpenEnd ==
  ASSUME text \in Seq(Symbols), NEW c, c.from \in Nat \ {0}, NEW p \in Nat, OpenUpTo(c, p),
         p <= Len(text) + 1
  PROVE  p <= ContentEnd(c)
<1>1. /\ ContentEnd(c) \in Nat
      /\ ContentEnd(c) = Len(text) + 1 \/ EndsContents(c, ContentEnd(c))
  BY ContentEndIs
<1>2. CASE EndsContents(c, ContentEnd(c))
  <2>1. ContentEnd(c) \in c.from .. Len(text)
    BY <1>2 DEF EndsContents
  <2>2. ContentEnd(c) \notin c.from .. p - 1
    BY <1>2 DEF OpenUpTo
  <2>3. QED BY <1>1, <2>1, <2>2
<1>3. QED BY <1>1, <1>2

\* The last token.
LEMMA LastToken ==
  ASSUME NEW out, IsSeq(out), NEW type, NEW value, NEW from, NEW to, NEW at, NEW q,
         q = Append(out, Token(type, value, from, to, at))
  PROVE  /\ q[Len(q)].type = type /\ q[Len(q)].value = value
         /\ q[Len(q)].from = from /\ q[Len(q)].to = to /\ q[Len(q)].at = at
<1> DEFINE token == Token(type, value, from, to, at)
<1>1. token.type = type /\ token.value = value /\ token.from = from /\ token.to = to /\ token.at = at
  BY DEF Token
<1> HIDE DEF token
<1>2. q = Append(out, token)
  BY DEF token
<1>3. q[Len(q)] = token
  BY <1>2, AppendSeq
<1>4. QED BY <1>1, <1>3

\* A character is emitted, or the end of the text.
LEMMA CharacterGoes ==
  ASSUME NEW z, Ready(z), Contents(z), NEW n, n.content = z.content, n.emitted = TRUE,
         NEW type \in Characters \cup {"EOF"}, NEW value, NEW to, NEW at,
         n.out = Append(z.out, Token(type, value, z.start, to, at)),
         type # "EOF" => /\ to \in Nat /\ to <= Len(text) + 1 /\ OpenUpTo(z.content, to)
                         /\ Within(n)
  PROVE  Onward(n)
<1> DEFINE token == n.out[Len(n.out)]
<1>1. token.type = type /\ token.to = to
  BY LastToken DEF Ready, Kept, History
<1>2. CASE type = "EOF"
  BY <1>1, <1>2 DEF Onward, LiesRight, Ended
<1>3. CASE type # "EOF"
  <2>1. to <= ContentEnd(z.content)
    BY <1>3, OpenEnd DEF Ready, Contents
  <2>2. type \in Characters
    BY <1>3
  <2> HIDE DEF token
  <2>3. LiesRight(n)
    BY <1>1, <2>1, <2>2 DEF LiesRight, token
  <2>4. QED BY <1>3, <2>3 DEF Onward
<1>4. QED BY <1>2, <1>3

\* Nothing is emitted.
LEMMA QuietGoes ==
  ASSUME NEW n, n.emitted = FALSE, Within(n) \/ InEndTag(n)
  PROVE  Onward(n)
BY DEF Onward, LiesRight

\* the contents are read, and a handler is called
Reading(z) ==
  /\ Ready(z) /\ Contents(z) /\ Called(z) /\ z.content.state \in Hidden
  /\ z.last = z.content.name /\ z.content.from <= z.start

\* What is known then.
LEMMA ReadingIs ==
  ASSUME NEW z, Reading(z)
  PROVE  /\ text \in Seq(Symbols) /\ z.content.from \in Nat \ {0} /\ Opener(z.content)
         /\ z.pos \in Nat \ {0} /\ z.pos <= Len(text) + 1 /\ z.start \in Nat /\ z.mark \in Nat \ {0}
         /\ Current(z) = SymbolAt(z.pos) /\ (SymbolAt(z.pos) = EOF <=> z.pos = Len(text) + 1)
<1>1. text \in Seq(Symbols) /\ z.content.from \in Nat \ {0} /\ Opener(z.content)
  BY DEF Reading, Ready, Contents
<1>2. z.pos \in Nat \ {0} /\ z.pos <= Len(text) + 1 /\ z.start \in Nat /\ z.mark \in Nat \ {0}
  BY DEF Reading, Ready, Kept, Places
<1>3. Current(z) = SymbolAt(z.pos)
  BY DEF Current, SymbolAt
<1>4. SymbolAt(z.pos) = EOF <=> z.pos = Len(text) + 1
  BY <1>1, <1>2, SymbolAtIs
<1>5. QED BY <1>1, <1>2, <1>3, <1>4

\* A character of the contents is emitted.
LEMMA ContentEmits ==
  ASSUME NEW z, Reading(z), z.start = z.pos, OpenUpTo(z.content, z.pos),
         NEW x, Calm(z, x), x.reconsume = FALSE, NEW c, SymbolAt(z.pos) = EOF => c = EOF,
         SymbolAt(z.pos) # EOF =>
           /\ x.state \in Emitting(z.content.state)
           /\ \/ SymbolAt(z.pos) # "<"
              \/ z.content.state = "SCRIPT_DATA" /\ InDouble(z.content.from, z.pos)
           /\ z.content.state = "SCRIPT_DATA" =>
                Escapes(z.content.from, z.pos + 1, x.state, x.tmp)
  PROVE  Onward(Advanced(emit_char(x, c)))
<1> DEFINE r == emit_char(x, c)
           n == Advanced(r)
           type == get_char_token_type(x.cdata, c)
<1>1. /\ text \in Seq(Symbols) /\ z.content.from \in Nat \ {0} /\ Opener(z.content)
      /\ z.pos \in Nat \ {0} /\ z.pos <= Len(text) + 1
      /\ (SymbolAt(z.pos) = EOF <=> z.pos = Len(text) + 1)
  BY ReadingIs
<1>2. Tells(x, r, type, c) /\ r.last = x.last /\ r.tmp = x.tmp
  BY CharTells DEF Calm
<1>3. type \in Characters \cup {"EOF"} /\ (c = EOF => type = "EOF")
  BY CharacterTypes DEF get_char_token_type, EOF, NUL, WhiteSpace, Space
<1> HIDE DEF r, type
<1>4. /\ n.content = z.content /\ n.emitted = TRUE /\ n.resume = 0 /\ n.last = z.last
      /\ n.out = Append(z.out, Token(type, c, z.start, Behind(x), x.pos))
      /\ n.state = x.state /\ n.tmp = x.tmp /\ n.pos = Behind(x) /\ n.start = Behind(x)
  BY <1>2, AdvancedIs DEF Tells, Calm, Reading, Called
<1> HIDE DEF n
<1>5. ASSUME type # "EOF"
      PROVE  /\ Behind(x) \in Nat /\ Behind(x) <= Len(text) + 1 /\ OpenUpTo(z.content, Behind(x))
             /\ Within(n)
  <2>1. SymbolAt(z.pos) # EOF
    BY <1>3, <1>5
  <2>2. Behind(x) = z.pos + 1 /\ z.pos <= Len(text)
    BY <1>1, <2>1 DEF Behind, Calm
  <2>3. OpenUpTo(z.content, z.pos + 1)
    BY <1>1, <2>1, OpenMore
  <2>4. ReadTo(n) = z.pos + 1
    BY <1>4, <2>2 DEF ReadTo
  <2>5. z.content.from <= n.start
    BY <1>1, <1>4, <2>2 DEF Reading
  <2>6. Within(n)
    BY <1>4, <2>1, <2>2, <2>3, <2>4, <2>5 DEF Within, Reading
  <2>7. QED BY <1>1, <2>2, <2>3, <2>6
<1>6. Onward(n)
  BY <1>3, <1>4, <1>5, CharacterGoes DEF Reading
<1>7. QED BY <1>6 DEF n, r

\* What may have been their end tag is text.
LEMMA BackGoes ==
  ASSUME NEW z, Reading(z), z.start = z.mark, z.mark < z.pos,
         NEW x, DOMAIN x = StateFields, x.content = z.content, x.out = z.out, x.start = z.start,
         x.mark = z.mark, x.last = z.last, x.pos \in z.pos .. Len(text) + 1,
         x.state \in Emitting(z.content.state), OpenUpTo(z.content, x.pos),
         z.content.state = "SCRIPT_DATA" => Escapes(z.content.from, x.pos, x.state, x.tmp)
  PROVE  Onward(Advanced(emit_from_mark(x)))
<1> DEFINE r == emit_from_mark(x)
           n == Advanced(r)
           c == SymbolAt(x.mark)
           type == get_char_token_type(x.cdata, c)
<1>1. /\ text \in Seq(Symbols) /\ z.content.from \in Nat \ {0} /\ Opener(z.content)
      /\ z.pos \in Nat \ {0} /\ z.pos <= Len(text) + 1 /\ z.mark \in Nat \ {0}
  BY ReadingIs
<1>2. /\ x.pos \in 1 .. Len(text) + 1 /\ x.mark \in 1 .. x.pos - 1 /\ x.pos # 0
      /\ z.mark + 1 <= x.pos /\ x.pos \in Nat
  BY <1>1
<1>3. /\ DOMAIN r = StateFields /\ r.content = x.content
      /\ r.resume = x.pos /\ r.state = x.state
      /\ r.emitted = TRUE /\ r.pos = x.mark + 1 /\ r.start = x.mark + 1
      /\ r.out = Append(x.out, Token(type, c, x.start, x.mark + 1, x.mark))
      /\ r.last = x.last /\ r.tmp = x.tmp
  BY <1>1, <1>2, MarkTells
<1>4. type \in Characters \cup {"EOF"}
  BY CharacterTypes
<1> HIDE DEF r, type, c
<1>5. /\ n.content = z.content /\ n.emitted = TRUE /\ n.resume = x.pos /\ n.last = z.last
      /\ n.out = Append(z.out, Token(type, c, z.start, z.mark + 1, z.mark))
      /\ n.state = x.state /\ n.tmp = x.tmp /\ n.pos = z.mark + 1 /\ n.start = z.mark + 1
  BY <1>3, AdvancedIs
<1> HIDE DEF n
<1>6. OpenUpTo(z.content, z.mark + 1)
  <2>1. \A k \in z.content.from .. (z.mark + 1) - 1 : k \in z.content.from .. x.pos - 1
    BY <1>1, <1>2
  <2>2. QED BY <2>1, Zenon DEF OpenUpTo
<1>7. ReadTo(n) = x.pos
  BY <1>2, <1>5 DEF ReadTo
<1>8. z.content.from <= n.start
  BY <1>1, <1>5 DEF Reading
<1>9. Within(n)
  BY <1>5, <1>7, <1>8 DEF Within, Reading
<1>10. z.mark + 1 \in Nat /\ z.mark + 1 <= Len(text) + 1
  BY <1>1, <1>2
<1>11. Onward(n)
  BY <1>4, <1>5, <1>6, <1>9, <1>10, CharacterGoes DEF Reading
<1>12. QED BY <1>11 DEF n, r

\* A < is read, which may begin it.
LEMMA OpensGoes ==
  ASSUME NEW z, Reading(z), z.start = z.pos, OpenUpTo(z.content, z.pos), SymbolAt(z.pos) = "<",
         NEW state \in LtStates, state \in Marking(z.content.state),
         z.content.state = "SCRIPT_DATA" =>
           /\ ~InDouble(z.content.from, z.pos)
           /\ \A tmp : Escapes(z.content.from, z.pos + 1, state, tmp)
  PROVE  /\ Onward(Advanced(Opens(z, state)))
         /\ state = "SCRIPT_DATA_ESCAPED_LT" => Onward(Advanced(EscapedLessThan(z)))
<1>1. /\ text \in Seq(Symbols) /\ z.content.from \in Nat \ {0} /\ Opener(z.content)
      /\ z.pos \in Nat \ {0} /\ z.pos <= Len(text) + 1
      /\ (SymbolAt(z.pos) = EOF <=> z.pos = Len(text) + 1)
  BY ReadingIs
<1>2. z.pos <= Len(text)
  BY <1>1 DEF EOF
<1>3. ASSUME NEW r, DOMAIN r = StateFields, r.content = z.content, r.out = z.out,
             r.start = z.start, r.last = z.last, r.resume = 0, r.emitted = FALSE,
             r.reconsume = FALSE, r.pos = z.pos, r.mark = z.pos, r.state = state
      PROVE  Onward(Advanced(r))
  <2> DEFINE n == Advanced(r)
  <2>1. /\ n.content = z.content /\ n.start = z.pos /\ n.last = z.last /\ n.resume = 0
        /\ n.emitted = FALSE /\ n.mark = z.pos /\ n.state = state /\ n.tmp = r.tmp
        /\ n.pos = Behind(r)
    BY <1>3, AdvancedIs
  <2>2. Behind(r) = z.pos + 1
    BY <1>1, <1>2, <1>3 DEF Behind
  <2> HIDE DEF n
  <2>3. ReadTo(n) = z.pos + 1 /\ n.pos = z.pos + 1
    BY <2>1, <2>2 DEF ReadTo
  <2>4. state \notin EndTagOpens /\ state \notin NamesEndTag
    BY DEF LtStates, EndTagOpens, NamesEndTag
  <2>5. Marks_(n)
    BY <1>1, <2>1, <2>3, <2>4 DEF Marks_
  <2>6. z.content.from <= n.start
    BY <2>1 DEF Reading
  <2>7. Within(n)
    BY <2>1, <2>3, <2>5, <2>6 DEF Within, Reading
  <2>8. Onward(n)
    BY <2>1, <2>7, QuietGoes
  <2>9. QED BY <2>8 DEF n
<1>4. Onward(Advanced(Opens(z, state)))
  BY <1>3 DEF Opens, set_mark, gumbo_tokenizer_set_state, Reading, Called, StateFields
<1>5. state = "SCRIPT_DATA_ESCAPED_LT" => Onward(Advanced(EscapedLessThan(z)))
  BY <1>3 DEF EscapedLessThan, clear_temporary_buffer, Opens, set_mark,
              gumbo_tokenizer_set_state, Reading, Called, StateFields
<1>6. QED BY <1>4, <1>5

\* The state changes, and the contents are emitted as before.
LEMMA SwitchGoes ==
  ASSUME NEW z, Reading(z), z.start = z.pos, OpenUpTo(z.content, z.pos),
         NEW x, Calm(z, x), x.reconsume = TRUE, x.state \in Emitting(z.content.state),
         z.content.state = "SCRIPT_DATA" => Escapes(z.content.from, z.pos, x.state, x.tmp)
  PROVE  Onward(Advanced(x))
<1> DEFINE n == Advanced(x)
<1>1. /\ n.content = z.content /\ n.start = z.pos /\ n.last = z.last /\ n.resume = 0
      /\ n.emitted = FALSE /\ n.state = x.state /\ n.tmp = x.tmp /\ n.pos = z.pos
  BY AdvancedIs DEF Calm, Reading, Called
<1> HIDE DEF n
<1>2. ReadTo(n) = z.pos
  BY <1>1 DEF ReadTo
<1>3. Within(n)
  BY <1>1, <1>2 DEF Within, Reading
<1>4. Onward(n)
  BY <1>1, <1>3, QuietGoes
<1>5. QED BY <1>4 DEF n

\* The states that emit what they read.
LEMMA EmittingIs ==
  ASSUME NEW z, Reading(z), Within(z), z.state \in {"RCDATA", "RAWTEXT", "SCRIPT_DATA"} \cup (Scripts \cap Plain)
  PROVE  /\ z.start = z.pos /\ OpenUpTo(z.content, z.pos) /\ z.state \in Emitting(z.content.state)
         /\ z.content.state = "SCRIPT_DATA" => Escapes(z.content.from, z.pos, z.state, z.tmp)
         /\ Calm(z, z) /\ z.reconsume = FALSE
<1> DEFINE plain == {"RCDATA", "RAWTEXT", "SCRIPT_DATA"} \cup (Scripts \cap Plain)
<1>1. z.content.state \in Hidden /\ ReadTo(z) = z.pos
  BY DEF Reading, Called, ReadTo
<1>2. plain \cap References = {}
  <2>1. Scripts \cap References = {}
    BY DEF Scripts, References
  <2>2. {"RCDATA", "RAWTEXT", "SCRIPT_DATA"} \cap References = {}
    BY DEF References
  <2>3. QED BY <2>1, <2>2
<1>3. \A kind \in Hidden : plain \cap Marking(kind) = {}
  <2>1. plain \subseteq Plain
    BY DEF Plain, Texts
  <2>2. Plain \cap Marking("RCDATA") = {} /\ Plain \cap Marking("RAWTEXT") = {}
    BY DEF Plain, Texts, Marking
  <2>3. Plain \cap Marking("SCRIPT_DATA") = {}
    BY DEF Plain, Texts, Marking
  <2>4. QED BY <2>1, <2>2, <2>3 DEF Hidden
<1> HIDE DEF plain
<1>4. z.state \in plain
  BY DEF plain
<1>5. /\ z.start = z.pos /\ OpenUpTo(z.content, z.pos) /\ z.state \in Emitting(z.content.state)
      /\ z.content.state = "SCRIPT_DATA" => Escapes(z.content.from, z.pos, z.state, z.tmp)
  BY <1>1, <1>2, <1>3, <1>4 DEF Within
<1>6. Calm(z, z) /\ z.reconsume = FALSE
  BY DEF Reading, Called, Calm
<1>7. QED BY <1>5, <1>6

\* In which contents they are.
LEMMA EmittingWhere ==
  /\ Emitting("RCDATA") = {"RCDATA"} /\ Emitting("RAWTEXT") = {"RAWTEXT"}
  /\ Emitting("SCRIPT_DATA") = {"SCRIPT_DATA"} \cup (Scripts \cap Plain)
  /\ {"RCDATA", "RAWTEXT", "SCRIPT_DATA"} \cap Scripts = {}
BY DEF Emitting, Scripts

\* RCDATA, RAWTEXT and a script outside of comments.
LEMMA TextsGo ==
  ASSUME NEW z, Reading(z), Within(z), z.state \in Texts
  PROVE  Onward(Advanced(LexText(z, Current(z))))
<1> DEFINE c == z.content
           p == z.pos
<1>1. /\ text \in Seq(Symbols) /\ c.from \in Nat \ {0} /\ Opener(c)
      /\ p \in Nat \ {0} /\ p <= Len(text) + 1
      /\ Current(z) = SymbolAt(p) /\ (SymbolAt(p) = EOF <=> p = Len(text) + 1)
  BY ReadingIs
<1>2. z.state \in {"RCDATA", "RAWTEXT", "SCRIPT_DATA"}
  <2>1. c.state \in Hidden
    BY DEF Reading
  <2>2. Texts \cap References = {}
    BY DEF Texts, References
  <2>3. \A kind \in Hidden : Texts \cap Marking(kind) = {}
    BY DEF Texts, Marking, Hidden
  <2>4. \A kind \in Hidden : Texts \cap Emitting(kind) \subseteq {"RCDATA", "RAWTEXT", "SCRIPT_DATA"}
    BY EmittingWhere DEF Texts, Scripts, Hidden
  <2>5. QED BY <2>1, <2>2, <2>3, <2>4 DEF Within
<1>3. /\ z.start = p /\ OpenUpTo(c, p) /\ z.state \in Emitting(c.state)
      /\ c.state = "SCRIPT_DATA" => Escapes(c.from, p, z.state, z.tmp)
      /\ Calm(z, z) /\ z.reconsume = FALSE
  BY <1>2, EmittingIs
<1>4. z.state = c.state
  <2>1. c.state \in Hidden
    BY DEF Reading
  <2>2. QED BY <1>2, <1>3, <2>1, EmittingWhere DEF Hidden
<1>5. NUL # EOF
  BY DEF NUL, EOF
<1>6. ASSUME SymbolAt(p) # "<", c.state = "SCRIPT_DATA" =>
                  Escapes(c.from, p + 1, z.state, z.tmp)
      PROVE  /\ Onward(Advanced(emit_char(z, SymbolAt(p))))
             /\ SymbolAt(p) = NUL => Onward(Advanced(emit_replacement_char(z)))
  <2>1. Onward(Advanced(emit_char(z, SymbolAt(p))))
    BY <1>3, <1>6, ContentEmits
  <2>2. ASSUME SymbolAt(p) = NUL PROVE Onward(Advanced(emit_replacement_char(z)))
    <3> DEFINE x == tokenizer_add_parse_error(z)
    <3>1. Calm(z, x)
      BY <1>3, CalmOps
    <3>2. x.state = z.state /\ x.tmp = z.tmp /\ x.reconsume = FALSE
      BY <1>3 DEF tokenizer_add_parse_error, Calm, StateFields
    <3> HIDE DEF x
    <3>3. SymbolAt(p) # EOF
      BY <1>5, <2>2
    <3>4. Onward(Advanced(emit_char(x, REPL)))
      BY <1>3, <1>6, <3>1, <3>2, <3>3, ContentEmits
    <3>5. QED BY <3>4 DEF x, emit_replacement_char
  <2>3. QED BY <2>1, <2>2
<1>7. CASE z.state = "RCDATA"
  <2>1. LexText(z, Current(z)) = handle_rcdata_state(z, SymbolAt(p))
    BY <1>1, <1>7 DEF LexText
  <2>2. c.state = "RCDATA"
    BY <1>4, <1>7
  <2>3. CASE SymbolAt(p) = "&"
    <3> DEFINE r == StartsReference(z, "RCDATA")
               n == Advanced(r)
    <3>1. /\ DOMAIN r = StateFields /\ r.content = z.content /\ r.out = z.out
          /\ r.start = z.start /\ r.last = z.last /\ r.resume = 0 /\ r.emitted = FALSE
          /\ r.reconsume = FALSE /\ r.pos = z.pos /\ r.state = "CHARACTER_REFERENCE"
          /\ r.return = "RCDATA"
      BY <1>3 DEF StartsReference, set_mark, gumbo_tokenizer_set_state, Reading, Called, StateFields
    <3> HIDE DEF r
    <3>2. /\ n.content = z.content /\ n.start = z.pos /\ n.last = z.last /\ n.resume = 0
          /\ n.emitted = FALSE /\ n.state = "CHARACTER_REFERENCE" /\ n.return = "RCDATA"
          /\ n.pos = Behind(r)
      BY <1>3, <3>1, AdvancedIs
    <3>3. Behind(r) = p + 1
      <4>1. SymbolAt(p) # EOF
        BY <2>3 DEF EOF
      <4>2. QED BY <1>1, <3>1, <4>1 DEF Behind
    <3> HIDE DEF n
    <3>4. ReadTo(n) = p + 1
      BY <3>2, <3>3 DEF ReadTo
    <3>5. OpenUpTo(c, p + 1)
      BY <1>1, <1>3, <2>3, OpenMore
    <3>6. "CHARACTER_REFERENCE" \in References
      BY DEF References
    <3>7. Within(n)
      BY <1>3, <2>2, <3>2, <3>4, <3>5, <3>6 DEF Within, Reading
    <3>8. Onward(n)
      BY <3>2, <3>7, QuietGoes
    <3>9. handle_rcdata_state(z, SymbolAt(p)) = r
      BY <2>3 DEF r, handle_rcdata_state, NUL
    <3>10. QED BY <2>1, <3>8, <3>9 DEF n
  <2>4. CASE SymbolAt(p) = "<"
    <3>1. "RCDATA_LT" \in LtStates /\ "RCDATA_LT" \in Marking("RCDATA")
      BY DEF LtStates, Marking
    <3>2. Onward(Advanced(Opens(z, "RCDATA_LT")))
      BY <1>3, <2>2, <2>4, <3>1, OpensGoes
    <3>3. handle_rcdata_state(z, SymbolAt(p)) = Opens(z, "RCDATA_LT")
      BY <2>4 DEF handle_rcdata_state, NUL
    <3>4. QED BY <2>1, <3>2, <3>3
  <2>5. CASE SymbolAt(p) \notin {"&", "<"}
    BY <1>6, <2>1, <2>2, <2>5 DEF handle_rcdata_state
  <2>6. QED BY <2>3, <2>4, <2>5
<1>8. CASE z.state = "RAWTEXT"
  <2>1. LexText(z, Current(z)) = handle_rawtext_state(z, SymbolAt(p))
    BY <1>1, <1>8 DEF LexText
  <2>2. c.state = "RAWTEXT"
    BY <1>4, <1>8
  <2>3. CASE SymbolAt(p) = "<"
    <3>1. "RAWTEXT_LT" \in LtStates /\ "RAWTEXT_LT" \in Marking("RAWTEXT")
      BY DEF LtStates, Marking
    <3>2. Onward(Advanced(Opens(z, "RAWTEXT_LT")))
      BY <1>3, <2>2, <2>3, <3>1, OpensGoes
    <3>3. handle_rawtext_state(z, SymbolAt(p)) = Opens(z, "RAWTEXT_LT")
      BY <2>3 DEF handle_rawtext_state, NUL
    <3>4. QED BY <2>1, <3>2, <3>3
  <2>4. CASE SymbolAt(p) # "<"
    BY <1>6, <2>1, <2>2, <2>4 DEF handle_rawtext_state
  <2>5. QED BY <2>3, <2>4
<1>9. CASE z.state = "SCRIPT_DATA"
  <2>1. LexText(z, Current(z)) = handle_script_data_state(z, SymbolAt(p))
    BY <1>1, <1>9 DEF LexText
  <2>2. c.state = "SCRIPT_DATA" /\ Escapes(c.from, p, "SCRIPT_DATA", z.tmp)
    BY <1>3, <1>4, <1>9
  <2>3. "SCRIPT_DATA" \in Plainly
    BY DEF Plainly
  <2>4. CASE SymbolAt(p) = "<"
    <3>1. "SCRIPT_DATA_LT" \in LtStates /\ "SCRIPT_DATA_LT" \in Marking("SCRIPT_DATA")
      BY DEF LtStates, Marking
    <3>2. \A tmp : Escapes(c.from, p + 1, "SCRIPT_DATA_LT", tmp)
      BY <1>1, <2>2, <2>3, OutsideGoes
    <3>3. ~InDouble(c.from, p)
      <4>1. ~InEscaped(c.from, p)
        BY <2>2, <2>3, EscapesIs
      <4>2. QED BY <1>1, <4>1, DoubleIsEscaped
    <3>4. Onward(Advanced(Opens(z, "SCRIPT_DATA_LT")))
      BY <1>3, <2>2, <2>4, <3>1, <3>2, <3>3, OpensGoes
    <3>5. handle_script_data_state(z, SymbolAt(p)) = Opens(z, "SCRIPT_DATA_LT")
      BY <2>4 DEF handle_script_data_state, NUL
    <3>6. QED BY <2>1, <3>4, <3>5
  <2>5. CASE SymbolAt(p) # "<"
    <3>1. Escapes(c.from, p + 1, "SCRIPT_DATA", z.tmp)
      BY <1>1, <2>2, <2>3, <2>5, OutsideGoes
    <3>2. QED BY <1>6, <1>9, <2>1, <2>2, <2>5, <3>1 DEF handle_script_data_state
  <2>6. QED BY <2>4, <2>5
<1>10. QED BY <1>2, <1>7, <1>8, <1>9

(* --------------------------- What may be an end tag ------------------------- *)

\* The states in which a < of the contents may begin one.
LEMMA MarkingIs ==
  ASSUME NEW z, Reading(z), Within(z),
         z.state \in Marking("RCDATA") \cup Marking("RAWTEXT") \cup Marking("SCRIPT_DATA")
  PROVE  /\ z.state \in Marking(z.content.state) /\ Marks_(z) /\ Calm(z, z) /\ z.reconsume = FALSE
         /\ z.content.state = "SCRIPT_DATA" => Escapes(z.content.from, z.pos, z.state, z.tmp)
<1> DEFINE marking == Marking("RCDATA") \cup Marking("RAWTEXT") \cup Marking("SCRIPT_DATA")
<1>1. z.content.state \in Hidden /\ ReadTo(z) = z.pos
  BY DEF Reading, Called, ReadTo
<1>2. marking \cap References = {}
  <2>1. Marking("RCDATA") \cap References = {} /\ Marking("RAWTEXT") \cap References = {}
    BY DEF Marking, References
  <2>2. Marking("SCRIPT_DATA") \cap References = {}
    BY DEF Marking, References
  <2>3. QED BY <2>1, <2>2
<1>3. \A kind \in Hidden : marking \cap Emitting(kind) = {}
  <2>1. Plain \cap Marking("RCDATA") = {} /\ Plain \cap Marking("RAWTEXT") = {}
    BY DEF Plain, Texts, Marking
  <2>2. Plain \cap Marking("SCRIPT_DATA") = {}
    BY DEF Plain, Texts, Marking
  <2>3. {"RCDATA", "RAWTEXT", "SCRIPT_DATA"} \subseteq Plain
    BY DEF Plain, Texts
  <2>4. \A kind \in Hidden : Emitting(kind) \subseteq Plain
    BY <2>3, EmittingWhere DEF Hidden
  <2>5. QED BY <2>1, <2>2, <2>4
<1> HIDE DEF marking
<1>4. z.state \in marking
  BY DEF marking
<1>5. /\ z.state \in Marking(z.content.state) /\ Marks_(z)
      /\ z.content.state = "SCRIPT_DATA" => Escapes(z.content.from, z.pos, z.state, z.tmp)
  BY <1>1, <1>2, <1>3, <1>4 DEF Within
<1>6. Calm(z, z) /\ z.reconsume = FALSE
  BY DEF Reading, Called, Calm
<1>7. QED BY <1>5, <1>6

\* Such a < ends nothing, nor does what follows it.
LEMMA OpenFurther ==
  ASSUME text \in Seq(Symbols), NEW c, c.from \in Nat \ {0}, Opener(c), NEW m \in Nat,
         OpenUpTo(c, m), ~EndsContents(c, m), NEW p \in Nat,
         \A k \in m + 1 .. p - 1 : SymbolAt(k) # "<"
  PROVE  OpenUpTo(c, p)
<1>1. ASSUME NEW k \in c.from .. p - 1 PROVE ~EndsContents(c, k)
  <2>1. k \in c.from .. m - 1 \/ k = m \/ k \in m + 1 .. p - 1
    OBVIOUS
  <2>2. CASE k \in c.from .. m - 1
    BY <2>2, Zenon DEF OpenUpTo
  <2>3. CASE k \in m + 1 .. p - 1
    <3>1. SymbolAt(k) # "<" /\ k \in Nat
      BY <2>3
    <3>2. QED BY <3>1, EndsContentsAt
  <2>4. QED BY <2>1, <2>2, <2>3
<1>2. QED BY <1>1 DEF OpenUpTo

\* What was read from the mark is text, and read again.
LEMMA BackToText ==
  ASSUME NEW z, Reading(z), Marks_(z), OpenUpTo(z.content, z.pos),
         NEW x, Calm(z, x), NEW state \in Emitting(z.content.state),
         z.content.state = "SCRIPT_DATA" => Escapes(z.content.from, z.pos, state, x.tmp)
  PROVE  Onward(Advanced(Back(x, state)))
<1> DEFINE y == reconsume_in_state(x, state)
<1>1. z.start = z.mark /\ z.mark < z.pos
  BY DEF Marks_
<1>2. z.pos \in z.pos .. Len(text) + 1
  BY ReadingIs
<1>3. DOMAIN x = StateFields /\ x.content = z.content /\ x.out = z.out /\ x.start = z.start
      /\ x.mark = z.mark /\ x.last = z.last /\ x.pos = z.pos
  BY DEF Calm
<1>4. /\ DOMAIN y = StateFields /\ y.content = z.content /\ y.out = z.out /\ y.start = z.start
      /\ y.mark = z.mark /\ y.last = z.last /\ y.pos = z.pos /\ y.state = state /\ y.tmp = x.tmp
  BY <1>3 DEF reconsume_in_state, StateFields
<1> HIDE DEF y
<1>5. Onward(Advanced(emit_from_mark(y)))
  BY <1>1, <1>2, <1>4, BackGoes
<1>6. QED BY <1>5 DEF y, Back

\* After the <.
LEMMA LessThanGoes ==
  ASSUME NEW z, Reading(z), Marks_(z), z.state \in LtStates, z.content.state \in Hidden,
         NEW x, Calm(z, x), x.reconsume = FALSE,
         NEW state \in Emitting(z.content.state), NEW endTagOpen \in EndTagOpens,
         endTagOpen \in Marking(z.content.state),
         z.content.state = "SCRIPT_DATA" =>
           /\ SymbolAt(z.pos) = "/" => Escapes(z.content.from, z.pos + 1, endTagOpen, x.tmp)
           /\ SymbolAt(z.pos) # "/" => Escapes(z.content.from, z.pos, state, x.tmp)
  PROVE  Onward(Advanced(LessThan(x, SymbolAt(z.pos), state, endTagOpen)))
<1> DEFINE c == z.content
<1>1. /\ text \in Seq(Symbols) /\ c.from \in Nat \ {0} /\ Opener(c)
      /\ z.pos \in Nat \ {0} /\ z.pos <= Len(text) + 1 /\ z.mark \in Nat \ {0}
      /\ (SymbolAt(z.pos) = EOF <=> z.pos = Len(text) + 1)
  BY ReadingIs
<1>2. /\ z.start = z.mark /\ z.pos = z.mark + 1 /\ SymbolAt(z.mark) = "<" /\ OpenUpTo(c, z.mark)
      /\ c.state = "SCRIPT_DATA" => ~InDouble(c.from, z.mark)
  BY DEF Marks_
<1>3. CASE SymbolAt(z.pos) = "/"
  <2> DEFINE r == gumbo_tokenizer_set_state(x, endTagOpen)
             n == Advanced(r)
  <2>1. /\ DOMAIN r = StateFields /\ r.content = c /\ r.out = z.out /\ r.start = z.start
        /\ r.last = z.last /\ r.resume = 0 /\ r.emitted = FALSE /\ r.reconsume = FALSE
        /\ r.pos = z.pos /\ r.mark = z.mark /\ r.state = endTagOpen /\ r.tmp = x.tmp
    BY DEF gumbo_tokenizer_set_state, Calm, Reading, Called, StateFields
  <2> HIDE DEF r
  <2>2. /\ n.content = c /\ n.start = z.start /\ n.last = z.last /\ n.resume = 0
        /\ n.emitted = FALSE /\ n.mark = z.mark /\ n.state = endTagOpen /\ n.tmp = x.tmp
        /\ n.pos = Behind(r)
    BY <2>1, AdvancedIs
  <2> HIDE DEF n
  <2>3. Behind(r) = z.pos + 1
    <3>1. SymbolAt(z.pos) # EOF
      BY <1>3 DEF EOF
    <3>2. QED BY <1>1, <2>1, <3>1 DEF Behind
  <2>4. ReadTo(n) = z.pos + 1 /\ n.pos = z.mark + 2
    BY <1>1, <1>2, <2>2, <2>3 DEF ReadTo
  <2>5. endTagOpen \notin LtStates /\ endTagOpen \notin NamesEndTag
    BY DEF LtStates, EndTagOpens, NamesEndTag
  <2>6. Marks_(n)
    BY <1>1, <1>2, <1>3, <2>2, <2>4, <2>5 DEF Marks_
  <2>7. Within(n)
    BY <1>3, <2>2, <2>4, <2>6 DEF Within, Reading
  <2>8. Onward(n)
    BY <2>2, <2>7, QuietGoes
  <2>9. LessThan(x, SymbolAt(z.pos), state, endTagOpen) = r
    BY <1>3 DEF LessThan, r
  <2>10. QED BY <2>8, <2>9 DEF n
<1>4. CASE SymbolAt(z.pos) # "/"
  <2>1. OpenUpTo(c, z.mark + 1)
    BY <1>1, <1>2, <1>4, OpenMore
  <2>2. Onward(Advanced(Back(x, state)))
    BY <1>2, <1>4, <2>1, BackToText
  <2>3. QED BY <1>4, <2>2 DEF LessThan
<1>5. QED BY <1>3, <1>4

\* After </.
LEMMA EndTagOpenGoes ==
  ASSUME NEW z, Reading(z), Marks_(z), z.state \in EndTagOpens, z.content.state \in Hidden,
         NEW state \in Emitting(z.content.state), NEW endTagName \in NamesEndTag,
         endTagName \in Marking(z.content.state),
         z.content.state = "SCRIPT_DATA" =>
           /\ Escapes(z.content.from, z.pos, endTagName, z.tmp)
           /\ Escapes(z.content.from, z.pos, state, z.tmp)
  PROVE  Onward(Advanced(EndTagOpen(z, SymbolAt(z.pos), state, endTagName)))
<1> DEFINE c == z.content
<1>1. /\ text \in Seq(Symbols) /\ c.from \in Nat \ {0} /\ Opener(c)
      /\ z.pos \in Nat \ {0} /\ z.pos <= Len(text) + 1 /\ z.mark \in Nat \ {0}
  BY ReadingIs
<1>2. /\ z.start = z.mark /\ z.pos = z.mark + 2 /\ SymbolAt(z.mark) = "<"
      /\ SymbolAt(z.mark + 1) = "/" /\ OpenUpTo(c, z.mark)
      /\ c.state = "SCRIPT_DATA" => ~InDouble(c.from, z.mark)
  BY DEF Marks_
<1>3. Calm(z, z) /\ z.reconsume = FALSE
  BY DEF Reading, Called, Calm
<1>4. CASE is_alpha(SymbolAt(z.pos))
  <2> DEFINE x == reconsume_in_state(z, endTagName)
             r == start_new_tag(x, FALSE)
             n == Advanced(r)
  <2>1. /\ DOMAIN x = StateFields /\ Calm(z, x) /\ x.state = endTagName /\ x.reconsume = TRUE
        /\ x.tmp = z.tmp
    <3>1. Calm(z, x)
      BY <1>3, CalmOps
    <3>2. x.state = endTagName /\ x.reconsume = TRUE /\ x.tmp = z.tmp
      BY <1>3 DEF reconsume_in_state, Calm, StateFields
    <3> HIDE DEF x
    <3>3. QED BY <3>1, <3>2 DEF Calm
  <2> HIDE DEF x
  <2>2. Calm(z, r)
    BY <2>1, CalmOps
  <2>3. /\ r.state = endTagName /\ r.reconsume = TRUE /\ r.tmp = z.tmp
        /\ r.tag = [NoTag EXCEPT !.open = TRUE, !.listed = TRUE, !.is_start = FALSE]
    BY <2>1 DEF start_new_tag, assert, StateFields
  <2>4. r.tag.buffer = <<>> /\ r.tag.is_start = FALSE
    BY <2>3 DEF NoTag
  <2> HIDE DEF r
  <2>5. /\ n.content = c /\ n.start = z.start /\ n.last = z.last /\ n.resume = 0
        /\ n.emitted = FALSE /\ n.mark = z.mark /\ n.state = endTagName /\ n.tmp = z.tmp
        /\ n.pos = z.pos /\ n.tag.buffer = <<>> /\ n.tag.is_start = FALSE
    BY <2>2, <2>3, <2>4, AdvancedIs DEF Calm, Reading, Called
  <2> HIDE DEF n
  <2>6. ReadTo(n) = z.pos
    BY <2>5 DEF ReadTo
  <2>7. endTagName \notin LtStates /\ endTagName \notin EndTagOpens
    BY DEF LtStates, EndTagOpens, NamesEndTag
  <2>8. Spells(<<>>, z.mark + 2, z.pos)
    <3>1. IsSeq(<<>>) /\ Len(<<>>) = 0
      BY DEF IsSeq
    <3>2. QED BY <1>1, <1>2, <3>1 DEF Spells
  <2>9. Marks_(n)
    BY <1>1, <1>2, <2>5, <2>7, <2>8 DEF Marks_
  <2>10. Within(n)
    BY <2>5, <2>6, <2>9 DEF Within, Reading
  <2>11. Onward(n)
    BY <2>5, <2>10, QuietGoes
  <2>12. EndTagOpen(z, SymbolAt(z.pos), state, endTagName) = r
    BY <1>4 DEF EndTagOpen, r, x
  <2>13. QED BY <2>11, <2>12 DEF n
<1>5. CASE ~is_alpha(SymbolAt(z.pos))
  <2>1. ~EndsContents(c, z.mark)
    <3>1. ASSUME EndsContents(c, z.mark) PROVE FALSE
      <4>1. PICK word \in {"title", "style", "script"} : SymbolAt(z.mark + 2) = word
        BY <1>1, <3>1, EndsContentsAt
      <4>2. is_alpha(SymbolAt(z.mark + 2))
        BY <4>1, LettersAre
      <4>3. QED BY <1>2, <1>5, <4>2
    <3>2. QED BY <3>1
  <2>2. \A k \in z.mark + 1 .. z.pos - 1 : SymbolAt(k) # "<"
    <3>1. \A k \in z.mark + 1 .. z.pos - 1 : k = z.mark + 1
      BY <1>1, <1>2
    <3>2. QED BY <1>2, <3>1
  <2>3. OpenUpTo(c, z.pos)
    BY <1>1, <1>2, <2>1, <2>2, OpenFurther
  <2>4. Onward(Advanced(Back(z, state)))
    BY <1>3, <2>3, BackToText
  <2>5. QED BY <1>5, <2>4 DEF EndTagOpen
<1>6. QED BY <1>4, <1>5

\* The name that was read ends the contents if it is theirs and ends there.
LEMMA NamedIs ==
  ASSUME NEW z, Reading(z), Marks_(z), z.state \in NamesEndTag, ~is_alpha(SymbolAt(z.pos))
  PROVE  EndsContents(z.content, z.mark)
           <=> is_appropriate_end_tag(z) /\ SymbolAt(z.pos) \in Delimiters
<1> DEFINE c == z.content
           m == z.mark
           p == z.pos
           word == z.tag.buffer
<1>1. /\ text \in Seq(Symbols) /\ c.from \in Nat \ {0} /\ Opener(c) /\ p \in Nat \ {0}
      /\ m \in Nat \ {0}
  BY ReadingIs
<1>2. /\ z.start = m /\ SymbolAt(m) = "<" /\ SymbolAt(m + 1) = "/" /\ p >= m + 2
      /\ Spells(word, m + 2, p)
      /\ c.state = "SCRIPT_DATA" => ~InDouble(c.from, m)
  BY DEF Marks_
<1>3. c.from <= m /\ z.last = c.name
  BY <1>2 DEF Reading
<1>4. \A w \in {"title", "style", "script"} : word = <<w>> <=> p = (m + 2) + 1 /\ SymbolAt(m + 2) = w
  <2>1. m + 2 \in Nat
    BY <1>1
  <2>2. ASSUME NEW w \in {"title", "style", "script"}
        PROVE  word = <<w>> <=> p = (m + 2) + 1 /\ SymbolAt(m + 2) = w
    <3>1. p \in Nat /\ Spells(word, m + 2, p)
      BY <1>1, <1>2
    <3> HIDE DEF m, p, word
    <3>2. QED BY <2>1, <3>1, SpellsWord
  <2>3. QED BY <2>2
<1>5. \A k \in m + 2 .. p - 1 : is_alpha(SymbolAt(k))
  BY <1>2, Zenon DEF Spells
<1>6. ASSUME EndsContents(c, m)
      PROVE  is_appropriate_end_tag(z) /\ SymbolAt(p) \in Delimiters
  <2>1. PICK w \in {"title", "style", "script"} :
          c.name = <<w>> /\ SymbolAt(m + 2) = w /\ SymbolAt(m + 3) \in Delimiters
    BY <1>1, <1>6, EndsContentsAt
  <2>2. is_alpha(SymbolAt(m + 2)) /\ ~is_alpha(SymbolAt(m + 3))
    BY <2>1, LettersAre DEF Delimiters
  <2>3. p # m + 2
    BY <2>2
  <2>4. m + 3 \notin m + 2 .. p - 1
    BY <1>5, <2>2
  <2>5. p = m + 3
    BY <1>1, <1>2, <2>3, <2>4
  <2>6. word = <<w>>
    BY <1>1, <1>4, <2>1, <2>5
  <2>7. Tag(word) = word
    BY <2>6 DEF Tag
  <2>8. c.name # <<>>
    <3>1. Len(<<w>>) = 1 /\ Len(<<>>) = 0
      OBVIOUS
    <3>2. QED BY <2>1, <3>1
  <2>9. QED BY <1>3, <2>1, <2>5, <2>6, <2>7, <2>8 DEF is_appropriate_end_tag
<1>7. ASSUME is_appropriate_end_tag(z), SymbolAt(p) \in Delimiters
      PROVE  EndsContents(c, m)
  <2>1. c.name # <<>> /\ c.name = Tag(word)
    BY <1>3, <1>7 DEF is_appropriate_end_tag
  <2>2. PICK w \in {"title", "style", "script"} : c.name = <<w>>
    <3>1. c.name \in {<<"title">>, <<"style">>, <<"script">>}
      BY <1>1, <2>1 DEF Opener
    <3>2. QED BY <3>1
  <2>3. <<w>> # <<"UNKNOWN">>
    <3>1. <<w>>[1] = w /\ <<"UNKNOWN">>[1] = "UNKNOWN" /\ w # "UNKNOWN"
      OBVIOUS
    <3>2. QED BY <3>1
  <2>4. word = <<w>>
    BY <2>1, <2>2, <2>3 DEF Tag
  <2>5. p = m + 3 /\ SymbolAt(m + 2) = w
    BY <1>1, <1>4, <2>4
  <2>6. SymbolAt(m + 3) \in Delimiters
    BY <1>7, <2>5
  <2>7. /\ c.from <= m /\ c.name = <<w>> /\ SymbolAt(m) = "<" /\ SymbolAt(m + 1) = "/"
        /\ SymbolAt(m + 2) = w /\ SymbolAt(m + 3) \in Delimiters
        /\ ~(c.state = "SCRIPT_DATA" /\ InDouble(c.from, m))
    BY <1>2, <1>3, <2>2, <2>5, <2>6
  <2>8. m \in Nat
    BY <1>1
  <2> HIDE DEF c, m
  <2>9. QED BY <1>1, <2>7, <2>8, EndsContentsAt
<1>8. QED BY <1>6, <1>7

\* The name goes on.
LEMMA NameGoesOn ==
  ASSUME NEW z, Reading(z), Marks_(z), z.state \in NamesEndTag, z.content.state \in Hidden,
         is_alpha(SymbolAt(z.pos)), z.state \in Marking(z.content.state),
         z.content.state = "SCRIPT_DATA" => Escapes(z.content.from, z.pos + 1, z.state, z.tmp)
  PROVE  Onward(Advanced(append_to_tag_buffer(z, <<ensure_lowercase(SymbolAt(z.pos))>>)))
<1> DEFINE c == z.content
           r == append_to_tag_buffer(z, <<ensure_lowercase(SymbolAt(z.pos))>>)
           n == Advanced(r)
<1>1. /\ z.pos \in Nat \ {0} /\ z.pos <= Len(text) + 1 /\ z.mark \in Nat \ {0}
      /\ (SymbolAt(z.pos) = EOF <=> z.pos = Len(text) + 1)
  BY ReadingIs
<1>2. /\ z.start = z.mark /\ z.pos >= z.mark + 2 /\ SymbolAt(z.mark) = "<"
      /\ SymbolAt(z.mark + 1) = "/" /\ OpenUpTo(c, z.mark)
      /\ Spells(z.tag.buffer, z.mark + 2, z.pos) /\ z.tag.is_start = FALSE
      /\ c.state = "SCRIPT_DATA" => ~InDouble(c.from, z.mark)
  BY DEF Marks_
<1>3. Calm(z, r) /\ DOMAIN z.tag = TagFields
  <2>1. Calm(z, z) /\ DOMAIN z.tag = TagFields
    BY DEF Reading, Called, Calm, Ready, Kept, Shape
  <2>2. QED BY <2>1, CalmOps
<1>4. /\ r.state = z.state /\ r.reconsume = FALSE /\ r.tmp = z.tmp /\ r.tag.is_start = FALSE
      /\ r.tag.buffer = z.tag.buffer \o <<ensure_lowercase(SymbolAt(z.pos))>>
  BY <1>2, <1>3 DEF append_to_tag_buffer, Reading, Called, StateFields, TagFields
<1>5. Behind(r) = z.pos + 1
  <2>1. SymbolAt(z.pos) # EOF
    BY LettersAre
  <2> HIDE DEF r
  <2>2. QED BY <1>1, <1>3, <1>4, <2>1 DEF Behind, Calm
<1>6. Spells(r.tag.buffer, z.mark + 2, z.pos + 1)
  <2>1. z.mark + 2 \in Nat /\ z.pos \in Nat
    BY <1>1
  <2> HIDE DEF r
  <2>2. QED BY <1>2, <1>4, <2>1, SpellsMore
<1> HIDE DEF r
<1>7. /\ n.content = c /\ n.start = z.start /\ n.last = z.last /\ n.resume = 0
      /\ n.emitted = FALSE /\ n.mark = z.mark /\ n.state = z.state /\ n.tmp = z.tmp
      /\ n.pos = z.pos + 1 /\ n.tag = r.tag
  BY <1>3, <1>4, <1>5, AdvancedIs DEF Calm, Reading, Called
<1> HIDE DEF n
<1>8. ReadTo(n) = z.pos + 1
  BY <1>1, <1>7 DEF ReadTo
<1>9. z.state \notin LtStates /\ z.state \notin EndTagOpens
  BY DEF LtStates, EndTagOpens, NamesEndTag
<1>10. Marks_(n)
  <2>1. Spells(n.tag.buffer, n.mark + 2, n.pos) /\ n.tag.is_start = FALSE
    BY <1>4, <1>6, <1>7
  <2>2. n.mark < n.pos /\ n.pos >= n.mark + 2
    BY <1>1, <1>2, <1>7
  <2>3. QED BY <1>2, <1>7, <1>9, <2>1, <2>2 DEF Marks_
<1>11. Within(n)
  BY <1>7, <1>8, <1>10 DEF Within, Reading
<1>12. Onward(n)
  BY <1>7, <1>11, QuietGoes
<1>13. QED BY <1>12 DEF n, r

\* It is their end tag, whose attributes follow.
LEMMA EndTagFollows ==
  ASSUME NEW z, Reading(z), Marks_(z), z.state \in NamesEndTag, z.content.state \in Hidden,
         EndsContents(z.content, z.mark),
         NEW state \in {"BEFORE_ATTR_NAME", "SELF_CLOSING_START_TAG"}
  PROVE  Onward(Advanced(gumbo_tokenizer_set_state(finish_tag_name(z), state)))
<1> DEFINE c == z.content
           x == finish_tag_name(z)
           r == gumbo_tokenizer_set_state(x, state)
           n == Advanced(r)
<1>1. z.start = z.mark /\ OpenUpTo(c, z.mark) /\ z.tag.is_start = FALSE
  BY DEF Marks_
<1>2. Calm(z, z) /\ DOMAIN z.tag = TagFields
  BY DEF Reading, Called, Calm, Ready, Kept, Shape
<1>3. Calm(z, x)
  BY <1>2, CalmOps
<1>4. x.tag.is_start = FALSE
  BY <1>1, <1>2 DEF finish_tag_name, reinitialize_tag_buffer, assert, Calm, StateFields, TagFields
<1> HIDE DEF x
<1>5. Calm(z, r)
  BY <1>3, CalmOps
<1>6. r.state = state /\ r.tag = x.tag
  BY <1>3 DEF gumbo_tokenizer_set_state, Calm, StateFields
<1> HIDE DEF r
<1>7. n.content = c /\ n.start = z.start /\ n.emitted = FALSE /\ n.state = state /\ n.tag = x.tag
  BY <1>5, <1>6, AdvancedIs DEF Calm, Reading, Called
<1> HIDE DEF n
<1>8. state \in BuildsTag /\ state # "TAG_NAME" /\ state \notin NamesEndTag
  BY DEF BuildsTag, Attributes, NamesEndTag
<1>9. InEndTag(n)
  BY <1>1, <1>4, <1>7, <1>8 DEF InEndTag, InTag
<1>10. Onward(n)
  BY <1>7, <1>9, QuietGoes
<1>11. QED BY <1>10 DEF n, r, x

\* ... or which ends at once.
LEMMA EndTagEnds ==
  ASSUME NEW z, Reading(z), Marks_(z), z.state \in NamesEndTag, z.content.state \in Hidden,
         EndsContents(z.content, z.mark)
  PROVE  Onward(Advanced(emit_current_tag(gumbo_tokenizer_set_state(finish_tag_name(z), "DATA"))))
<1> DEFINE c == z.content
           x == finish_tag_name(z)
           y == gumbo_tokenizer_set_state(x, "DATA")
           r == emit_current_tag(y)
           n == Advanced(r)
<1>1. z.start = z.mark /\ z.mark < z.pos /\ OpenUpTo(c, z.mark) /\ z.tag.is_start = FALSE
  BY DEF Marks_
<1>2. /\ text \in Seq(Symbols) /\ c.from \in Nat \ {0} /\ z.pos \in Nat \ {0}
      /\ z.mark \in Nat \ {0} /\ IsSeq(z.out) /\ z.pos <= Len(text) + 1
  <2>1. IsSeq(z.out)
    BY DEF Reading, Ready, Kept, History
  <2>2. QED BY <2>1, ReadingIs
<1>3. Calm(z, z) /\ DOMAIN z.tag = TagFields
  BY DEF Reading, Called, Calm, Ready, Kept, Shape
<1>4. Calm(z, x)
  BY <1>3, CalmOps
<1>5. x.tag.is_start = FALSE
  BY <1>1, <1>3 DEF finish_tag_name, reinitialize_tag_buffer, assert, Calm, StateFields, TagFields
<1> HIDE DEF x
<1>6. Calm(z, y)
  BY <1>4, CalmOps
<1>7. y.tag.is_start = FALSE
  BY <1>4, <1>5 DEF gumbo_tokenizer_set_state, Calm, StateFields
<1> HIDE DEF y
<1>8. PICK value : Tells(y, r, "END_TAG", value)
  BY <1>6, <1>7, TagTells DEF Calm
<1> HIDE DEF r
<1>9. /\ n.content = c /\ n.emitted = TRUE /\ n.start = Behind(y)
      /\ n.out = Append(z.out, Token("END_TAG", value, z.start, r.pos, y.pos))
  BY <1>6, <1>8, AdvancedIs DEF Tells, Calm
<1> HIDE DEF n
<1>10. z.pos <= n.start /\ n.start \in Nat
  BY <1>2, <1>6, <1>9 DEF Behind, Calm
<1>11. Over(n)
  BY <1>1, <1>2, <1>9, <1>10 DEF Over
<1>12. n.out[Len(n.out)].type = "END_TAG" /\ n.out[Len(n.out)].from = z.mark
  BY <1>1, <1>2, <1>9, LastToken
<1>13. ContentEnd(c) = z.mark
  <2>1. ContentEnd(c) \in Nat /\ ContentEnd(c) <= z.mark
    BY <1>2, ContentEndIs
  <2>2. z.mark <= ContentEnd(c)
    BY <1>1, <1>2, OpenEnd
  <2>3. QED BY <1>2, <2>1, <2>2
<1>14. LiesRight(n)
  BY <1>9, <1>12, <1>13 DEF LiesRight
<1>15. Onward(n)
  BY <1>11, <1>14 DEF Onward
<1>16. QED BY <1>15 DEF n, r, y, x

\* After </ and letters.
LEMMA EndTagNameGoes ==
  ASSUME NEW z, Reading(z), Marks_(z), z.state \in NamesEndTag, z.content.state \in Hidden,
         z.state \in Marking(z.content.state), NEW state \in Emitting(z.content.state),
         z.content.state = "SCRIPT_DATA" =>
           /\ is_alpha(SymbolAt(z.pos)) => Escapes(z.content.from, z.pos + 1, z.state, z.tmp)
           /\ Escapes(z.content.from, z.pos, state, z.tmp)
  PROVE  Onward(Advanced(EndTagName(z, SymbolAt(z.pos), state)))
<1> DEFINE c == z.content
           ends == is_appropriate_end_tag(z)
<1>1. /\ text \in Seq(Symbols) /\ c.from \in Nat \ {0} /\ Opener(c)
      /\ z.pos \in Nat \ {0} /\ z.mark \in Nat \ {0}
  BY ReadingIs
<1>2. CASE is_alpha(SymbolAt(z.pos))
  <2> DEFINE x == append_to_tag_buffer(z, <<ensure_lowercase(SymbolAt(z.pos))>>)
  <2>1. Onward(Advanced(x))
    BY <1>2, NameGoesOn
  <2>2. EndTagName(z, SymbolAt(z.pos), state) = x
    BY <1>2, LettersAre DEF EndTagName, Space
  <2> HIDE DEF x
  <2>3. QED BY <2>1, <2>2
<1>3. CASE ~is_alpha(SymbolAt(z.pos)) /\ ends /\ SymbolAt(z.pos) \in Delimiters
  <2>1. EndsContents(c, z.mark)
    BY <1>3, NamedIs
  <2>2. /\ \A next \in {"BEFORE_ATTR_NAME", "SELF_CLOSING_START_TAG"} :
             Onward(Advanced(gumbo_tokenizer_set_state(finish_tag_name(z), next)))
        /\ Onward(Advanced(emit_current_tag(gumbo_tokenizer_set_state(finish_tag_name(z), "DATA"))))
    BY <2>1, EndTagFollows, EndTagEnds
  <2> DEFINE attribute == gumbo_tokenizer_set_state(finish_tag_name(z), "BEFORE_ATTR_NAME")
             solidus == gumbo_tokenizer_set_state(finish_tag_name(z), "SELF_CLOSING_START_TAG")
             done == emit_current_tag(gumbo_tokenizer_set_state(finish_tag_name(z), "DATA"))
  <2>3. EndTagName(z, SymbolAt(z.pos), state) \in {attribute, solidus, done}
    <3> HIDE DEF attribute, solidus, done
    <3>1. SymbolAt(z.pos) \in {" ", "/", ">"}
      BY <1>3 DEF Delimiters
    <3>2. EndTagName(z, SymbolAt(z.pos), state) =
            CASE is_alpha(SymbolAt(z.pos)) ->
                   append_to_tag_buffer(z, <<ensure_lowercase(SymbolAt(z.pos))>>)
              [] SymbolAt(z.pos) \in Space /\ ends -> attribute
              [] SymbolAt(z.pos) = "/" /\ ends -> solidus
              [] SymbolAt(z.pos) = ">" /\ ends -> done
              [] OTHER -> Back(abandon_current_tag(z), state)
      BY DEF EndTagName, attribute, solidus, done
    <3>3. QED BY <1>3, <3>1, <3>2 DEF Space
  <2>4. Onward(Advanced(attribute)) /\ Onward(Advanced(solidus)) /\ Onward(Advanced(done))
    BY <2>2
  <2> HIDE DEF attribute, solidus, done
  <2>5. QED BY <2>3, <2>4
<1>4. CASE ~is_alpha(SymbolAt(z.pos)) /\ ~(ends /\ SymbolAt(z.pos) \in Delimiters)
  <2> DEFINE x == abandon_current_tag(z)
  <2>1. /\ z.pos >= z.mark + 2 /\ SymbolAt(z.mark + 1) = "/" /\ OpenUpTo(c, z.mark)
        /\ Spells(z.tag.buffer, z.mark + 2, z.pos)
    BY DEF Marks_
  <2>2. ~EndsContents(c, z.mark)
    BY <1>4, NamedIs
  <2>3. \A k \in z.mark + 2 .. z.pos - 1 : is_alpha(SymbolAt(k))
    BY <2>1, Zenon DEF Spells
  <2>4. \A k \in z.mark + 1 .. z.pos - 1 : SymbolAt(k) # "<"
    <3>1. SUFFICES ASSUME NEW k \in z.mark + 1 .. z.pos - 1 PROVE SymbolAt(k) # "<"
      OBVIOUS
    <3>2. k = z.mark + 1 \/ k \in z.mark + 2 .. z.pos - 1
      BY <1>1
    <3>3. QED BY <2>1, <2>3, <3>2, LettersAre
  <2>5. OpenUpTo(c, z.pos)
    BY <1>1, <2>1, <2>2, <2>4, OpenFurther
  <2>6. Calm(z, z)
    BY DEF Reading, Called, Calm
  <2>7. Calm(z, x)
    BY <2>6, CalmOps
  <2>8. x.tmp = z.tmp
    BY <2>6 DEF abandon_current_tag, assert, Calm, StateFields
  <2> HIDE DEF x
  <2>9. Onward(Advanced(Back(x, state)))
    BY <2>5, <2>7, <2>8, BackToText
  <2>10. EndTagName(z, SymbolAt(z.pos), state) = Back(x, state)
    BY <1>4 DEF EndTagName, Delimiters, Space, x
  <2>11. QED BY <2>9, <2>10
<1>5. QED BY <1>2, <1>3, <1>4

\* In which contents those states are.
LEMMA MarkingWhere ==
  /\ Marking("RCDATA") = {"RCDATA_LT", "RCDATA_END_TAG_OPEN", "RCDATA_END_TAG_NAME"}
  /\ Marking("RAWTEXT") = {"RAWTEXT_LT", "RAWTEXT_END_TAG_OPEN", "RAWTEXT_END_TAG_NAME"}
  /\ Marking("SCRIPT_DATA") = {"SCRIPT_DATA_LT", "SCRIPT_DATA_END_TAG_OPEN", "SCRIPT_DATA_END_TAG_NAME",
                               "SCRIPT_DATA_ESCAPED_LT", "SCRIPT_DATA_ESCAPED_END_TAG_OPEN",
                               "SCRIPT_DATA_ESCAPED_END_TAG_NAME"}
BY DEF Marking

\* A script after <!, which may begin a comment.
LEMMA BangGoes ==
  ASSUME NEW z, Reading(z), Marks_(z), z.state = "SCRIPT_DATA_LT", z.content.state = "SCRIPT_DATA",
         Escapes(z.content.from, z.pos, "SCRIPT_DATA_LT", z.tmp), SymbolAt(z.pos) = "!"
  PROVE  Onward(Advanced(Back(utf8iterator_next(z), "SCRIPT_DATA_ESCAPED_START")))
<1> DEFINE c == z.content
           x == reconsume_in_state(utf8iterator_next(z), "SCRIPT_DATA_ESCAPED_START")
<1>1. /\ text \in Seq(Symbols) /\ c.from \in Nat \ {0} /\ Opener(c)
      /\ z.pos \in Nat \ {0} /\ z.pos <= Len(text) + 1 /\ z.mark \in Nat \ {0}
      /\ (SymbolAt(z.pos) = EOF <=> z.pos = Len(text) + 1)
  BY ReadingIs
<1>2. /\ z.start = z.mark /\ z.pos = z.mark + 1 /\ SymbolAt(z.mark) = "<" /\ OpenUpTo(c, z.mark)
  BY DEF Marks_, LtStates
<1>3. c.from <= z.mark /\ z.pos - 1 = z.mark
  BY <1>1, <1>2 DEF Reading
<1>4. z.pos <= Len(text)
  <2>1. SymbolAt(z.pos) # EOF
    BY DEF EOF
  <2>2. QED BY <1>1, <2>1
<1>5. /\ DOMAIN x = StateFields /\ x.content = c /\ x.out = z.out /\ x.start = z.start
      /\ x.mark = z.mark /\ x.last = z.last /\ x.pos = z.pos + 1
      /\ x.state = "SCRIPT_DATA_ESCAPED_START" /\ x.tmp = z.tmp
  BY <1>1, <1>4 DEF reconsume_in_state, utf8iterator_next, Reading, Called, StateFields
<1>6. OpenUpTo(c, z.mark + 1)
  BY <1>1, <1>2, OpenMore
<1>7. OpenUpTo(c, z.pos + 1)
  BY <1>1, <1>2, <1>6, OpenMore
<1>8. Escapes(c.from, z.pos + 1, "SCRIPT_DATA_ESCAPED_START", z.tmp)
  <2>1. SymbolAt(z.pos - 1) = "<" /\ c.from <= z.pos - 1 /\ z.pos \in Nat
    BY <1>1, <1>2, <1>3
  <2>2. QED BY <1>1, <2>1, OutsideGoes
<1>9. "SCRIPT_DATA_ESCAPED_START" \in Emitting("SCRIPT_DATA")
  BY EmittingWhere DEF Scripts, Plain
<1>10. z.pos + 1 \in z.pos .. Len(text) + 1 /\ z.mark < z.pos
  BY <1>1, <1>2, <1>4
<1> HIDE DEF x
<1>11. Onward(Advanced(emit_from_mark(x)))
  BY <1>2, <1>5, <1>7, <1>8, <1>9, <1>10, BackGoes
<1>12. QED BY <1>11 DEF x, Back

\* The end tags of RCDATA, RAWTEXT and a script outside of comments.
LEMMA EndTagsGo ==
  ASSUME NEW z, Reading(z), Within(z), z.state \in EndTags
  PROVE  Onward(Advanced(LexEndTag(z, Current(z))))
<1> DEFINE c == z.content
           p == z.pos
<1>1. /\ text \in Seq(Symbols) /\ c.from \in Nat \ {0} /\ Opener(c)
      /\ p \in Nat \ {0} /\ z.mark \in Nat \ {0} /\ Current(z) = SymbolAt(p)
  BY ReadingIs
<1>2. c.state \in Hidden
  BY DEF Reading
<1>3. /\ z.state \in Marking(c.state) /\ Marks_(z) /\ Calm(z, z) /\ z.reconsume = FALSE
      /\ c.state = "SCRIPT_DATA" => Escapes(c.from, p, z.state, z.tmp)
  <2>1. EndTags \subseteq Marking("RCDATA") \cup Marking("RAWTEXT") \cup Marking("SCRIPT_DATA")
    BY MarkingWhere DEF EndTags
  <2>2. z.state \in Marking("RCDATA") \cup Marking("RAWTEXT") \cup Marking("SCRIPT_DATA")
    BY <2>1
  <2>3. QED BY <2>2, MarkingIs
<1>4. CASE c.state \in {"RCDATA", "RAWTEXT"}
  <2>1. c.state # "SCRIPT_DATA" /\ c.state \in Emitting(c.state)
    BY <1>4, EmittingWhere
  <2>2. \A endTagOpen \in EndTagOpens \cap Marking(c.state) :
          z.state \in LtStates => Onward(Advanced(LessThan(z, SymbolAt(p), c.state, endTagOpen)))
    BY <1>2, <1>3, <2>1, LessThanGoes
  <2>3. \A endTagName \in NamesEndTag \cap Marking(c.state) :
          z.state \in EndTagOpens => Onward(Advanced(EndTagOpen(z, SymbolAt(p), c.state, endTagName)))
    BY <1>2, <1>3, <2>1, EndTagOpenGoes
  <2>4. z.state \in NamesEndTag => Onward(Advanced(EndTagName(z, SymbolAt(p), c.state)))
    BY <1>2, <1>3, <2>1, EndTagNameGoes
  <2>5. CASE c.state = "RCDATA"
    <3>1. /\ "RCDATA_END_TAG_OPEN" \in EndTagOpens \cap Marking("RCDATA")
          /\ "RCDATA_END_TAG_NAME" \in NamesEndTag \cap Marking("RCDATA")
      BY MarkingWhere DEF EndTagOpens, NamesEndTag
    <3>2. CASE z.state = "RCDATA_LT"
      <4>1. Onward(Advanced(LessThan(z, SymbolAt(p), "RCDATA", "RCDATA_END_TAG_OPEN")))
        BY <2>2, <2>5, <3>1, <3>2 DEF LtStates
      <4>2. QED BY <1>1, <3>2, <4>1 DEF LexEndTag, handle_rcdata_lt_state
    <3>3. CASE z.state = "RCDATA_END_TAG_OPEN"
      <4>1. Onward(Advanced(EndTagOpen(z, SymbolAt(p), "RCDATA", "RCDATA_END_TAG_NAME")))
        BY <2>3, <2>5, <3>1, <3>3
      <4>2. QED BY <1>1, <3>3, <4>1 DEF LexEndTag, handle_rcdata_end_tag_open_state
    <3>4. CASE z.state = "RCDATA_END_TAG_NAME"
      <4>1. Onward(Advanced(EndTagName(z, SymbolAt(p), "RCDATA")))
        BY <2>4, <2>5, <3>1, <3>4
      <4>2. QED BY <1>1, <3>4, <4>1 DEF LexEndTag, handle_rcdata_end_tag_name_state
    <3>5. QED BY <1>3, <2>5, <3>2, <3>3, <3>4, MarkingWhere
  <2>6. CASE c.state = "RAWTEXT"
    <3>1. /\ "RAWTEXT_END_TAG_OPEN" \in EndTagOpens \cap Marking("RAWTEXT")
          /\ "RAWTEXT_END_TAG_NAME" \in NamesEndTag \cap Marking("RAWTEXT")
      BY MarkingWhere DEF EndTagOpens, NamesEndTag
    <3>2. CASE z.state = "RAWTEXT_LT"
      <4>1. Onward(Advanced(LessThan(z, SymbolAt(p), "RAWTEXT", "RAWTEXT_END_TAG_OPEN")))
        BY <2>2, <2>6, <3>1, <3>2 DEF LtStates
      <4>2. QED BY <1>1, <3>2, <4>1 DEF LexEndTag, handle_rawtext_lt_state
    <3>3. CASE z.state = "RAWTEXT_END_TAG_OPEN"
      <4>1. Onward(Advanced(EndTagOpen(z, SymbolAt(p), "RAWTEXT", "RAWTEXT_END_TAG_NAME")))
        BY <2>3, <2>6, <3>1, <3>3
      <4>2. QED BY <1>1, <3>3, <4>1 DEF LexEndTag, handle_rawtext_end_tag_open_state
    <3>4. CASE z.state = "RAWTEXT_END_TAG_NAME"
      <4>1. Onward(Advanced(EndTagName(z, SymbolAt(p), "RAWTEXT")))
        BY <2>4, <2>6, <3>1, <3>4
      <4>2. QED BY <1>1, <3>4, <4>1 DEF LexEndTag, handle_rawtext_end_tag_name_state
    <3>5. QED BY <1>3, <2>6, <3>2, <3>3, <3>4, MarkingWhere
  <2>7. QED BY <1>4, <2>5, <2>6
<1>5. CASE c.state = "SCRIPT_DATA"
  <2>1. /\ "SCRIPT_DATA" \in Emitting(c.state) /\ c.state \in Hidden
        /\ "SCRIPT_DATA_END_TAG_OPEN" \in EndTagOpens
        /\ "SCRIPT_DATA_END_TAG_NAME" \in NamesEndTag
        /\ "SCRIPT_DATA_END_TAG_OPEN" \in Marking(c.state)
        /\ "SCRIPT_DATA_END_TAG_NAME" \in Marking(c.state)
    BY <1>2, <1>5, EmittingWhere, MarkingWhere DEF EndTagOpens, NamesEndTag
  <2>2. p \in Nat /\ Escapes(c.from, p, z.state, z.tmp)
    BY <1>1, <1>3, <1>5
  <2>3. {"SCRIPT_DATA", "SCRIPT_DATA_END_TAG_OPEN", "SCRIPT_DATA_END_TAG_NAME"} = Plainly
    BY DEF Plainly
  <2>4. CASE z.state = "SCRIPT_DATA_LT"
    <3>1. z.state \in LtStates /\ SymbolAt(p - 1) = "<" /\ c.from <= p - 1
      BY <1>1, <1>3, <2>4 DEF Marks_, LtStates, Reading
    <3>2. CASE SymbolAt(p) = "!"
      <4>1. Onward(Advanced(Back(utf8iterator_next(z), "SCRIPT_DATA_ESCAPED_START")))
        BY <1>3, <1>5, <2>2, <2>4, <3>2, BangGoes
      <4>2. QED BY <1>1, <2>4, <3>2, <4>1 DEF LexEndTag, handle_script_data_lt_state
    <3>3. CASE SymbolAt(p) # "!"
      <4>1. /\ SymbolAt(p) = "/" => Escapes(c.from, p + 1, "SCRIPT_DATA_END_TAG_OPEN", z.tmp)
            /\ SymbolAt(p) # "/" => Escapes(c.from, p, "SCRIPT_DATA", z.tmp)
        BY <1>1, <2>2, <2>4, <3>1, <3>3, OutsideGoes
      <4>2. Onward(Advanced(LessThan(z, SymbolAt(p), "SCRIPT_DATA", "SCRIPT_DATA_END_TAG_OPEN")))
        BY <1>3, <2>1, <3>1, <4>1, LessThanGoes
      <4>3. QED BY <1>1, <2>4, <3>3, <4>2 DEF LexEndTag, handle_script_data_lt_state
    <3>4. QED BY <3>2, <3>3
  <2>5. CASE z.state = "SCRIPT_DATA_END_TAG_OPEN"
    <3>1. /\ Escapes(c.from, p, "SCRIPT_DATA_END_TAG_NAME", z.tmp)
          /\ Escapes(c.from, p, "SCRIPT_DATA", z.tmp)
      BY <1>1, <2>2, <2>3, <2>5, OutsideGoes
    <3>2. Onward(Advanced(EndTagOpen(z, SymbolAt(p), "SCRIPT_DATA", "SCRIPT_DATA_END_TAG_NAME")))
      BY <1>3, <2>1, <2>5, <3>1, EndTagOpenGoes
    <3>3. QED BY <1>1, <2>5, <3>2 DEF LexEndTag, handle_script_data_end_tag_open_state
  <2>6. CASE z.state = "SCRIPT_DATA_END_TAG_NAME"
    <3>1. /\ SymbolAt(p) # "<" => Escapes(c.from, p + 1, "SCRIPT_DATA_END_TAG_NAME", z.tmp)
          /\ Escapes(c.from, p, "SCRIPT_DATA", z.tmp)
      BY <1>1, <2>2, <2>3, <2>6, OutsideGoes
    <3>2. is_alpha(SymbolAt(p)) => SymbolAt(p) # "<"
      BY LettersAre
    <3>3. Onward(Advanced(EndTagName(z, SymbolAt(p), "SCRIPT_DATA")))
      BY <1>3, <2>1, <2>6, <3>1, <3>2, EndTagNameGoes
    <3>4. QED BY <1>1, <2>6, <3>3 DEF LexEndTag, handle_script_data_end_tag_name_state
  <2>7. QED BY <1>3, <1>5, <2>4, <2>5, <2>6, MarkingWhere DEF EndTags
<1>6. QED BY <1>2, <1>4, <1>5 DEF Hidden

(* ----------------------------- Escaped scripts ------------------------------ *)

\* A character of them is emitted.
LEMMA EscapedGoes ==
  ASSUME NEW z, Reading(z), z.start = z.pos, OpenUpTo(z.content, z.pos), NEW next,
         SymbolAt(z.pos) # EOF =>
           /\ next \in Emitting(z.content.state)
           /\ \/ SymbolAt(z.pos) # "<"
              \/ z.content.state = "SCRIPT_DATA" /\ InDouble(z.content.from, z.pos)
           /\ z.content.state = "SCRIPT_DATA" => Escapes(z.content.from, z.pos + 1, next, z.tmp)
  PROVE  /\ Onward(Advanced(emit_char(gumbo_tokenizer_set_state(z, next), SymbolAt(z.pos))))
         /\ Onward(Advanced(Escaped(z, SymbolAt(z.pos), next)))
<1> DEFINE c == SymbolAt(z.pos)
           x == gumbo_tokenizer_set_state(z, next)
           y == tokenizer_add_parse_error(x)
           e == tokenizer_add_parse_error(z)
<1>1. Calm(z, z) /\ z.reconsume = FALSE
  BY DEF Reading, Called, Calm
<1>2. Calm(z, x) /\ Calm(z, e)
  BY <1>1, CalmOps
<1>3. /\ x.state = next /\ x.reconsume = FALSE /\ x.tmp = z.tmp /\ DOMAIN x = StateFields
      /\ e.reconsume = FALSE
  BY <1>1 DEF gumbo_tokenizer_set_state, tokenizer_add_parse_error, Calm, StateFields
<1> HIDE DEF x
<1>4. Calm(z, y)
  BY <1>2, CalmOps
<1>5. y.state = next /\ y.reconsume = FALSE /\ y.tmp = z.tmp
  BY <1>3 DEF tokenizer_add_parse_error, StateFields
<1> HIDE DEF y, e
<1>6. Onward(Advanced(emit_char(x, c)))
  BY <1>2, <1>3, ContentEmits
<1>7. CASE c = NUL
  <2>1. c # EOF
    BY <1>7 DEF NUL, EOF
  <2>2. Onward(Advanced(emit_char(y, REPL)))
    BY <1>4, <1>5, <2>1, ContentEmits
  <2>3. Escaped(z, c, next) = emit_char(y, REPL)
    BY <1>7 DEF Escaped, NUL, EOF, emit_replacement_char, x, y
  <2>4. QED BY <1>6, <2>2, <2>3 DEF x
<1>8. CASE c = EOF
  <2>1. Onward(Advanced(emit_char(e, EOF)))
    BY <1>2, <1>3, <1>8, ContentEmits
  <2>2. Escaped(z, c, next) = emit_char(e, EOF)
    BY <1>8 DEF Escaped, NUL, EOF, emit_eof, e
  <2>3. QED BY <1>6, <2>1, <2>2 DEF x
<1>9. CASE c \notin {NUL, EOF}
  <2>1. Escaped(z, c, next) = emit_char(x, c)
    BY <1>9 DEF Escaped, x
  <2>2. QED BY <1>6, <2>1 DEF x
<1>10. QED BY <1>7, <1>8, <1>9

\* What a name decides.
LEMMA DoubleEscapeGoes ==
  ASSUME NEW z, Reading(z), z.start = z.pos, OpenUpTo(z.content, z.pos),
         z.content.state = "SCRIPT_DATA",
         NEW inside \in Emitting("SCRIPT_DATA"), NEW outside \in Emitting("SCRIPT_DATA"),
         NEW otherwise \in Emitting("SCRIPT_DATA"), z.state \in Emitting("SCRIPT_DATA"),
         /\ SymbolAt(z.pos) \in Delimiters /\ z.tmp = <<"script">> =>
              Escapes(z.content.from, z.pos + 1, inside, z.tmp)
         /\ SymbolAt(z.pos) \in Delimiters /\ z.tmp # <<"script">> =>
              Escapes(z.content.from, z.pos + 1, outside, z.tmp)
         /\ is_alpha(SymbolAt(z.pos)) =>
              Escapes(z.content.from, z.pos + 1, z.state,
                      z.tmp \o <<ensure_lowercase(SymbolAt(z.pos))>>)
         /\ ~is_alpha(SymbolAt(z.pos)) /\ SymbolAt(z.pos) \notin Delimiters =>
              Escapes(z.content.from, z.pos, otherwise, z.tmp)
  PROVE  Onward(Advanced(DoubleEscape(z, SymbolAt(z.pos), inside, outside, otherwise)))
<1> DEFINE c == SymbolAt(z.pos)
<1>1. Calm(z, z) /\ z.reconsume = FALSE
  BY DEF Reading, Called, Calm
<1>2. CASE c \in Delimiters
  <2> DEFINE next == IF IsScript(z) THEN inside ELSE outside
  <2>1. Escapes(z.content.from, z.pos + 1, next, z.tmp) /\ next \in Emitting("SCRIPT_DATA")
    BY <1>2 DEF IsScript
  <2>2. c # "<"
    BY <1>2 DEF Delimiters
  <2> HIDE DEF next
  <2>3. Onward(Advanced(emit_char(gumbo_tokenizer_set_state(z, next), c)))
    BY <2>1, <2>2, EscapedGoes
  <2>4. c \in Space \cup {"/", ">"}
    BY <1>2 DEF Delimiters, Space
  <2>5. DoubleEscape(z, c, inside, outside, otherwise) = emit_char(gumbo_tokenizer_set_state(z, next), c)
    <3>1. ~is_alpha(c)
      BY <1>2, LettersAre DEF Delimiters
    <3>2. QED BY <2>4, <3>1 DEF DoubleEscape, next
  <2>6. QED BY <2>3, <2>5
<1>3. CASE c \notin Delimiters /\ is_alpha(c)
  <2> DEFINE x == append_to_temporary_buffer(z, <<ensure_lowercase(c)>>)
  <2>1. Calm(z, x)
    BY <1>1, CalmOps
  <2>2. x.state = z.state /\ x.reconsume = FALSE /\ x.tmp = z.tmp \o <<ensure_lowercase(c)>>
    BY <1>1 DEF append_to_temporary_buffer, Calm, StateFields
  <2> HIDE DEF x
  <2>3. c # "<"
    BY <1>3, LettersAre
  <2>4. Onward(Advanced(emit_char(x, c)))
    BY <1>3, <2>1, <2>2, <2>3, ContentEmits
  <2>5. DoubleEscape(z, c, inside, outside, otherwise) = emit_char(x, c)
    BY <1>3 DEF DoubleEscape, x, Delimiters, Space
  <2>6. QED BY <2>4, <2>5
<1>4. CASE c \notin Delimiters /\ ~is_alpha(c)
  <2> DEFINE x == reconsume_in_state(z, otherwise)
  <2>1. Calm(z, x)
    BY <1>1, CalmOps
  <2>2. x.state = otherwise /\ x.reconsume = TRUE /\ x.tmp = z.tmp
    BY <1>1 DEF reconsume_in_state, Calm, StateFields
  <2> HIDE DEF x
  <2>3. Onward(Advanced(x))
    BY <1>4, <2>1, <2>2, SwitchGoes
  <2>4. DoubleEscape(z, c, inside, outside, otherwise) = x
    BY <1>4 DEF DoubleEscape, x, Delimiters, Space
  <2>5. QED BY <2>3, <2>4
<1>5. QED BY <1>2, <1>3, <1>4

\* The handlers that emit.
LEMMA ScriptsEmit ==
  ASSUME NEW z, Reading(z), Within(z), z.state \in Scripts \cap Plain
  PROVE  Onward(Advanced(LexScript(z, Current(z))))
<1> DEFINE c == z.content
           p == z.pos
           x == SymbolAt(p)
<1>1. /\ text \in Seq(Symbols) /\ c.from \in Nat \ {0} /\ Opener(c)
      /\ p \in Nat /\ Current(z) = x
  BY ReadingIs
<1>2. /\ z.start = p /\ OpenUpTo(c, p) /\ z.state \in Emitting(c.state)
      /\ c.state = "SCRIPT_DATA" => Escapes(c.from, p, z.state, z.tmp)
      /\ Calm(z, z) /\ z.reconsume = FALSE
  BY EmittingIs
<1>3. c.state = "SCRIPT_DATA" /\ Escapes(c.from, p, z.state, z.tmp)
  <2>1. c.state \in Hidden
    BY DEF Reading
  <2>2. CASE c.state = "RCDATA"
    BY <1>2, <2>2, EmittingWhere
  <2>3. CASE c.state = "RAWTEXT"
    BY <1>2, <2>3, EmittingWhere
  <2>4. QED BY <1>2, <2>1, <2>2, <2>3 DEF Hidden
<1>4. {"SCRIPT_DATA", "SCRIPT_DATA_ESCAPED_START", "SCRIPT_DATA_ESCAPED_START_DASH",
       "SCRIPT_DATA_ESCAPED", "SCRIPT_DATA_ESCAPED_DASH", "SCRIPT_DATA_ESCAPED_DASH_DASH",
       "SCRIPT_DATA_DOUBLE_ESCAPED_START", "SCRIPT_DATA_DOUBLE_ESCAPED",
       "SCRIPT_DATA_DOUBLE_ESCAPED_DASH", "SCRIPT_DATA_DOUBLE_ESCAPED_DASH_DASH",
       "SCRIPT_DATA_DOUBLE_ESCAPED_LT", "SCRIPT_DATA_DOUBLE_ESCAPED_END"} = Emitting("SCRIPT_DATA")
  BY EmittingWhere DEF Scripts, Plain, Texts
<1>5. ASSUME NEW next \in Emitting("SCRIPT_DATA"), x # "<" \/ InDouble(c.from, p),
             Escapes(c.from, p + 1, next, z.tmp)
      PROVE  /\ Onward(Advanced(emit_char(gumbo_tokenizer_set_state(z, next), x)))
             /\ Onward(Advanced(Escaped(z, x, next)))
  BY <1>2, <1>3, <1>5, EscapedGoes
<1>6. ASSUME NEW next \in Emitting("SCRIPT_DATA"), Escapes(c.from, p, next, z.tmp)
      PROVE  Onward(Advanced(reconsume_in_state(z, next)))
  <2> DEFINE y == reconsume_in_state(z, next)
  <2>1. Calm(z, y)
    BY <1>2, CalmOps
  <2>2. y.state = next /\ y.reconsume = TRUE /\ y.tmp = z.tmp
    BY <1>2 DEF reconsume_in_state, Calm, StateFields
  <2> HIDE DEF y
  <2>3. Onward(Advanced(y))
    BY <1>2, <1>3, <1>6, <2>1, <2>2, SwitchGoes
  <2>4. QED BY <2>3 DEF y
<1>7. ASSUME x = "<", Single(c.from, p), \A tmp : Escapes(c.from, p + 1, "SCRIPT_DATA_ESCAPED_LT", tmp)
      PROVE  Onward(Advanced(EscapedLessThan(z)))
  <2>1. "SCRIPT_DATA_ESCAPED_LT" \in LtStates /\ "SCRIPT_DATA_ESCAPED_LT" \in Marking(c.state)
    BY <1>3, MarkingWhere DEF LtStates
  <2>2. QED BY <1>2, <1>3, <1>7, <2>1, OpensGoes DEF Single
<1>8. p + 1 \in Nat
  BY <1>1
<1>9. CASE z.state = "SCRIPT_DATA_ESCAPED_START"
  <2>1. LexScript(z, x) = handle_script_data_escaped_start_state(z, x)
    BY <1>9 DEF LexScript
  <2>2. /\ x = "-" => Escapes(c.from, p + 1, "SCRIPT_DATA_ESCAPED_START_DASH", z.tmp)
        /\ x # "-" => Escapes(c.from, p, "SCRIPT_DATA", z.tmp)
    BY <1>1, <1>3, <1>9, OutsideGoes
  <2>3. CASE x = "-"
    <3>1. Onward(Advanced(emit_char(gumbo_tokenizer_set_state(z, "SCRIPT_DATA_ESCAPED_START_DASH"), x)))
      BY <1>4, <1>5, <2>2, <2>3
    <3>2. handle_script_data_escaped_start_state(z, x) = emit_char(gumbo_tokenizer_set_state(z, "SCRIPT_DATA_ESCAPED_START_DASH"), x)
      BY <2>3 DEF handle_script_data_escaped_start_state
    <3>3. QED BY <1>1, <2>1, <3>1, <3>2
  <2>4. CASE x # "-"
    <3>1. Onward(Advanced(reconsume_in_state(z, "SCRIPT_DATA")))
      BY <1>4, <1>6, <2>2, <2>4
    <3>2. handle_script_data_escaped_start_state(z, x) = reconsume_in_state(z, "SCRIPT_DATA")
      BY <2>4 DEF handle_script_data_escaped_start_state
    <3>3. QED BY <1>1, <2>1, <3>1, <3>2
  <2>5. QED BY <2>3, <2>4
<1>10. CASE z.state = "SCRIPT_DATA_ESCAPED_START_DASH"
  <2>1. LexScript(z, x) = handle_script_data_escaped_start_dash_state(z, x)
    BY <1>10 DEF LexScript
  <2>2. /\ x = "-" => Escapes(c.from, p + 1, "SCRIPT_DATA_ESCAPED_DASH_DASH", z.tmp)
        /\ x # "-" => Escapes(c.from, p, "SCRIPT_DATA", z.tmp)
    BY <1>1, <1>3, <1>10, OutsideGoes
  <2>3. CASE x = "-"
    <3>1. Onward(Advanced(emit_char(gumbo_tokenizer_set_state(z, "SCRIPT_DATA_ESCAPED_DASH_DASH"), x)))
      BY <1>4, <1>5, <2>2, <2>3
    <3>2. handle_script_data_escaped_start_dash_state(z, x) = emit_char(gumbo_tokenizer_set_state(z, "SCRIPT_DATA_ESCAPED_DASH_DASH"), x)
      BY <2>3 DEF handle_script_data_escaped_start_dash_state
    <3>3. QED BY <1>1, <2>1, <3>1, <3>2
  <2>4. CASE x # "-"
    <3>1. Onward(Advanced(reconsume_in_state(z, "SCRIPT_DATA")))
      BY <1>4, <1>6, <2>2, <2>4
    <3>2. handle_script_data_escaped_start_dash_state(z, x) = reconsume_in_state(z, "SCRIPT_DATA")
      BY <2>4 DEF handle_script_data_escaped_start_dash_state
    <3>3. QED BY <1>1, <2>1, <3>1, <3>2
  <2>5. QED BY <2>3, <2>4
<1>11. CASE z.state = "SCRIPT_DATA_ESCAPED"
  <2>1. LexScript(z, x) = handle_script_data_escaped_state(z, x)
    BY <1>11 DEF LexScript
  <2>2. \A next :
          /\ x = "<" => Escapes(c.from, p + 1, "SCRIPT_DATA_ESCAPED_LT", next)
          /\ x = "-" => Escapes(c.from, p + 1, "SCRIPT_DATA_ESCAPED_DASH", next)
          /\ x \notin {"<", "-"} => Escapes(c.from, p + 1, "SCRIPT_DATA_ESCAPED", next)
    BY <1>1, <1>3, <1>11, OnceGoes
  <2>3. CASE x = "<"
    <3>1. Single(c.from, p)
      BY <1>3, <1>11, EscapesIs
    <3>2. Onward(Advanced(EscapedLessThan(z)))
      BY <1>7, <2>2, <2>3, <3>1
    <3>3. handle_script_data_escaped_state(z, x) = EscapedLessThan(z)
      BY <2>3 DEF handle_script_data_escaped_state
    <3>4. QED BY <1>1, <2>1, <3>2, <3>3
  <2>4. CASE x # "<"
    <3> DEFINE next == IF x = "-" THEN "SCRIPT_DATA_ESCAPED_DASH" ELSE "SCRIPT_DATA_ESCAPED"
    <3>1. handle_script_data_escaped_state(z, x) = Escaped(z, x, next)
      BY <2>4 DEF handle_script_data_escaped_state
    <3>2. Escapes(c.from, p + 1, next, z.tmp) /\ next \in Emitting("SCRIPT_DATA")
      BY <1>4, <2>2, <2>4
    <3> HIDE DEF next
    <3>3. Onward(Advanced(Escaped(z, x, next)))
      BY <1>5, <2>4, <3>2
    <3>4. QED BY <1>1, <2>1, <3>1, <3>3
  <2>5. QED BY <2>3, <2>4
<1>12. CASE z.state = "SCRIPT_DATA_ESCAPED_DASH"
  <2>1. LexScript(z, x) = handle_script_data_escaped_dash_state(z, x)
    BY <1>12 DEF LexScript
  <2>2. \A next :
          /\ x = "<" => Escapes(c.from, p + 1, "SCRIPT_DATA_ESCAPED_LT", next)
          /\ x = "-" => Escapes(c.from, p + 1, "SCRIPT_DATA_ESCAPED_DASH_DASH", next)
          /\ x \notin {"<", "-"} => Escapes(c.from, p + 1, "SCRIPT_DATA_ESCAPED", next)
    BY <1>1, <1>3, <1>12, OnceGoes
  <2>3. CASE x = "<"
    <3>1. Single(c.from, p)
      BY <1>3, <1>12, EscapesIs
    <3>2. Onward(Advanced(EscapedLessThan(z)))
      BY <1>7, <2>2, <2>3, <3>1
    <3>3. handle_script_data_escaped_dash_state(z, x) = EscapedLessThan(z)
      BY <2>3 DEF handle_script_data_escaped_dash_state
    <3>4. QED BY <1>1, <2>1, <3>2, <3>3
  <2>4. CASE x # "<"
    <3> DEFINE next == IF x = "-" THEN "SCRIPT_DATA_ESCAPED_DASH_DASH" ELSE "SCRIPT_DATA_ESCAPED"
    <3>1. handle_script_data_escaped_dash_state(z, x) = Escaped(z, x, next)
      BY <2>4 DEF handle_script_data_escaped_dash_state
    <3>2. Escapes(c.from, p + 1, next, z.tmp) /\ next \in Emitting("SCRIPT_DATA")
      BY <1>4, <2>2, <2>4
    <3> HIDE DEF next
    <3>3. Onward(Advanced(Escaped(z, x, next)))
      BY <1>5, <2>4, <3>2
    <3>4. QED BY <1>1, <2>1, <3>1, <3>3
  <2>5. QED BY <2>3, <2>4
<1>13. CASE z.state = "SCRIPT_DATA_ESCAPED_DASH_DASH"
  <2>1. LexScript(z, x) = handle_script_data_escaped_dash_dash_state(z, x)
    BY <1>13 DEF LexScript
  <2>2. \A next :
          /\ x = "<" => Escapes(c.from, p + 1, "SCRIPT_DATA_ESCAPED_LT", next)
          /\ x = "-" => Escapes(c.from, p + 1, "SCRIPT_DATA_ESCAPED_DASH_DASH", next)
          /\ x = ">" => Escapes(c.from, p + 1, "SCRIPT_DATA", next)
          /\ x \notin {"<", "-", ">"} => Escapes(c.from, p + 1, "SCRIPT_DATA_ESCAPED", next)
    BY <1>1, <1>3, <1>13, OnceGoes
  <2>3. CASE x = "<"
    <3>1. Single(c.from, p)
      BY <1>3, <1>13, EscapesIs
    <3>2. Onward(Advanced(EscapedLessThan(z)))
      BY <1>7, <2>2, <2>3, <3>1
    <3>3. handle_script_data_escaped_dash_dash_state(z, x) = EscapedLessThan(z)
      BY <2>3 DEF handle_script_data_escaped_dash_dash_state
    <3>4. QED BY <1>1, <2>1, <3>2, <3>3
  <2>4. CASE x = ">"
    <3>1. Onward(Advanced(emit_char(gumbo_tokenizer_set_state(z, "SCRIPT_DATA"), x)))
      BY <1>4, <1>5, <2>2, <2>4
    <3>2. handle_script_data_escaped_dash_dash_state(z, x) = emit_char(gumbo_tokenizer_set_state(z, "SCRIPT_DATA"), x)
      BY <2>4 DEF handle_script_data_escaped_dash_dash_state
    <3>3. QED BY <1>1, <2>1, <3>1, <3>2
  <2>5. CASE x \notin {"<", ">"}
    <3> DEFINE next == IF x = "-" THEN "SCRIPT_DATA_ESCAPED_DASH_DASH" ELSE "SCRIPT_DATA_ESCAPED"
    <3>1. handle_script_data_escaped_dash_dash_state(z, x) = Escaped(z, x, next)
      BY <2>5 DEF handle_script_data_escaped_dash_dash_state
    <3>2. Escapes(c.from, p + 1, next, z.tmp) /\ next \in Emitting("SCRIPT_DATA")
      BY <1>4, <2>2, <2>5
    <3> HIDE DEF next
    <3>3. Onward(Advanced(Escaped(z, x, next)))
      BY <1>5, <2>5, <3>2
    <3>4. QED BY <1>1, <2>1, <3>1, <3>3
  <2>6. QED BY <2>3, <2>4, <2>5
<1>14. CASE z.state = "SCRIPT_DATA_DOUBLE_ESCAPED_START"
  <2> DEFINE double == "SCRIPT_DATA_DOUBLE_ESCAPED"
             single == "SCRIPT_DATA_ESCAPED"
  <2>1. LexScript(z, x) = DoubleEscape(z, x, double, single, single)
    BY <1>14 DEF LexScript, handle_script_data_double_escaped_start_state
  <2>2. Escapes(c.from, p, "SCRIPT_DATA_DOUBLE_ESCAPED_START", z.tmp)
    BY <1>3, <1>14
  <2>3. /\ x \in Delimiters /\ z.tmp = <<"script">> => Escapes(c.from, p + 1, double, z.tmp)
        /\ x \in Delimiters /\ z.tmp # <<"script">> => Escapes(c.from, p + 1, single, z.tmp)
        /\ is_alpha(x) => Escapes(c.from, p + 1, z.state, z.tmp \o <<ensure_lowercase(x)>>)
        /\ ~is_alpha(x) /\ x \notin Delimiters => Escapes(c.from, p, single, z.tmp)
    BY <1>1, <1>14, <2>2, StartGoes
  <2>4. {double, single, z.state} \subseteq Emitting("SCRIPT_DATA")
    BY <1>4, <1>14
  <2> HIDE DEF double, single
  <2>5. Onward(Advanced(DoubleEscape(z, x, double, single, single)))
    BY <1>2, <1>3, <2>3, <2>4, DoubleEscapeGoes
  <2>6. QED BY <1>1, <2>1, <2>5
<1>15. CASE z.state = "SCRIPT_DATA_DOUBLE_ESCAPED"
  <2> DEFINE next == CASE x = "-" -> "SCRIPT_DATA_DOUBLE_ESCAPED_DASH"
                       [] x = "<" -> "SCRIPT_DATA_DOUBLE_ESCAPED_LT"
                       [] OTHER   -> "SCRIPT_DATA_DOUBLE_ESCAPED"
  <2>1. LexScript(z, x) = Escaped(z, x, next)
    BY <1>15 DEF LexScript, handle_script_data_double_escaped_state
  <2>2. InDouble(c.from, p)
    BY <1>3, <1>15, EscapesIs
  <2>3. /\ x = "<" => Escapes(c.from, p + 1, "SCRIPT_DATA_DOUBLE_ESCAPED_LT", z.tmp)
        /\ x = "-" => Escapes(c.from, p + 1, "SCRIPT_DATA_DOUBLE_ESCAPED_DASH", z.tmp)
        /\ x \notin {"<", "-"} => Escapes(c.from, p + 1, "SCRIPT_DATA_DOUBLE_ESCAPED", z.tmp)
    BY <1>1, <1>3, <1>15, TwiceGoes
  <2>4. Escapes(c.from, p + 1, next, z.tmp) /\ next \in Emitting("SCRIPT_DATA")
    BY <1>4, <2>3
  <2> HIDE DEF next
  <2>5. QED BY <1>1, <1>5, <2>1, <2>2, <2>4
<1>16. CASE z.state = "SCRIPT_DATA_DOUBLE_ESCAPED_DASH"
  <2> DEFINE next == CASE x = "-" -> "SCRIPT_DATA_DOUBLE_ESCAPED_DASH_DASH"
                       [] x = "<" -> "SCRIPT_DATA_DOUBLE_ESCAPED_LT"
                       [] OTHER   -> "SCRIPT_DATA_DOUBLE_ESCAPED"
  <2>1. LexScript(z, x) = Escaped(z, x, next)
    BY <1>16 DEF LexScript, handle_script_data_double_escaped_dash_state
  <2>2. InDouble(c.from, p)
    BY <1>3, <1>16, EscapesIs
  <2>3. /\ x = "<" => Escapes(c.from, p + 1, "SCRIPT_DATA_DOUBLE_ESCAPED_LT", z.tmp)
        /\ x = "-" => Escapes(c.from, p + 1, "SCRIPT_DATA_DOUBLE_ESCAPED_DASH_DASH", z.tmp)
        /\ x \notin {"<", "-"} => Escapes(c.from, p + 1, "SCRIPT_DATA_DOUBLE_ESCAPED", z.tmp)
    BY <1>1, <1>3, <1>16, TwiceGoes
  <2>4. Escapes(c.from, p + 1, next, z.tmp) /\ next \in Emitting("SCRIPT_DATA")
    BY <1>4, <2>3
  <2> HIDE DEF next
  <2>5. QED BY <1>1, <1>5, <2>1, <2>2, <2>4
<1>17. CASE z.state = "SCRIPT_DATA_DOUBLE_ESCAPED_DASH_DASH"
  <2> DEFINE next == CASE x = "-" -> "SCRIPT_DATA_DOUBLE_ESCAPED_DASH_DASH"
                       [] x = "<" -> "SCRIPT_DATA_DOUBLE_ESCAPED_LT"
                       [] x = ">" -> "SCRIPT_DATA"
                       [] OTHER   -> "SCRIPT_DATA_DOUBLE_ESCAPED"
  <2>1. LexScript(z, x) = Escaped(z, x, next)
    BY <1>17 DEF LexScript, handle_script_data_double_escaped_dash_dash_state
  <2>2. InDouble(c.from, p)
    BY <1>3, <1>17, EscapesIs
  <2>3. /\ x = "<" => Escapes(c.from, p + 1, "SCRIPT_DATA_DOUBLE_ESCAPED_LT", z.tmp)
        /\ x = "-" => Escapes(c.from, p + 1, "SCRIPT_DATA_DOUBLE_ESCAPED_DASH_DASH", z.tmp)
        /\ x = ">" => Escapes(c.from, p + 1, "SCRIPT_DATA", z.tmp)
        /\ x \notin {"<", "-", ">"} => Escapes(c.from, p + 1, "SCRIPT_DATA_DOUBLE_ESCAPED", z.tmp)
    BY <1>1, <1>3, <1>17, TwiceGoes
  <2>4. Escapes(c.from, p + 1, next, z.tmp) /\ next \in Emitting("SCRIPT_DATA")
    BY <1>4, <2>3
  <2> HIDE DEF next
  <2>5. QED BY <1>1, <1>5, <2>1, <2>2, <2>4
<1>18. CASE z.state = "SCRIPT_DATA_DOUBLE_ESCAPED_LT"
  <2>1. LexScript(z, x) = handle_script_data_double_escaped_lt_state(z, x)
    BY <1>18 DEF LexScript
  <2>2. /\ x = "/" => Escapes(c.from, p + 1, "SCRIPT_DATA_DOUBLE_ESCAPED_END", <<>>)
        /\ x # "/" => Escapes(c.from, p, "SCRIPT_DATA_DOUBLE_ESCAPED", z.tmp)
    BY <1>1, <1>3, <1>18, StopGoes
  <2>3. CASE x = "/"
    <3> DEFINE y == gumbo_tokenizer_set_state(z, "SCRIPT_DATA_DOUBLE_ESCAPED_END")
               u == clear_temporary_buffer(y)
    <3>1. Calm(z, y)
      BY <1>2, CalmOps
    <3>2. y.state = "SCRIPT_DATA_DOUBLE_ESCAPED_END" /\ y.reconsume = FALSE /\ DOMAIN y = StateFields
      BY <1>2 DEF gumbo_tokenizer_set_state, Calm, StateFields
    <3> HIDE DEF y
    <3>3. Calm(z, u)
      BY <3>1, CalmOps
    <3>4. u.state = "SCRIPT_DATA_DOUBLE_ESCAPED_END" /\ u.reconsume = FALSE /\ u.tmp = <<>>
      BY <3>2 DEF clear_temporary_buffer, StateFields
    <3> HIDE DEF u
    <3>5. Onward(Advanced(emit_char(u, x)))
      BY <1>2, <1>3, <1>4, <2>2, <2>3, <3>3, <3>4, ContentEmits
    <3>6. handle_script_data_double_escaped_lt_state(z, x) = emit_char(u, x)
      BY <2>3 DEF handle_script_data_double_escaped_lt_state, u, y
    <3>7. QED BY <1>1, <2>1, <3>5, <3>6
  <2>4. CASE x # "/"
    <3>1. Onward(Advanced(reconsume_in_state(z, "SCRIPT_DATA_DOUBLE_ESCAPED")))
      BY <1>4, <1>6, <2>2, <2>4
    <3>2. handle_script_data_double_escaped_lt_state(z, x) = reconsume_in_state(z, "SCRIPT_DATA_DOUBLE_ESCAPED")
      BY <2>4 DEF handle_script_data_double_escaped_lt_state
    <3>3. QED BY <1>1, <2>1, <3>1, <3>2
  <2>5. QED BY <2>3, <2>4
<1>19. CASE z.state = "SCRIPT_DATA_DOUBLE_ESCAPED_END"
  <2> DEFINE double == "SCRIPT_DATA_DOUBLE_ESCAPED"
             single == "SCRIPT_DATA_ESCAPED"
  <2>1. LexScript(z, x) = DoubleEscape(z, x, single, double, double)
    BY <1>19 DEF LexScript, handle_script_data_double_escaped_end_state
  <2>2. Escapes(c.from, p, "SCRIPT_DATA_DOUBLE_ESCAPED_END", z.tmp)
    BY <1>3, <1>19
  <2>3. /\ x \in Delimiters /\ z.tmp = <<"script">> => Escapes(c.from, p + 1, single, z.tmp)
        /\ x \in Delimiters /\ z.tmp # <<"script">> => Escapes(c.from, p + 1, double, z.tmp)
        /\ is_alpha(x) => Escapes(c.from, p + 1, z.state, z.tmp \o <<ensure_lowercase(x)>>)
        /\ ~is_alpha(x) /\ x \notin Delimiters => Escapes(c.from, p, double, z.tmp)
    BY <1>1, <1>19, <2>2, StopGoes
  <2>4. {double, single, z.state} \subseteq Emitting("SCRIPT_DATA")
    BY <1>4, <1>19
  <2> HIDE DEF double, single
  <2>5. Onward(Advanced(DoubleEscape(z, x, single, double, double)))
    BY <1>2, <1>3, <2>3, <2>4, DoubleEscapeGoes
  <2>6. QED BY <1>1, <2>1, <2>5
<1>20. z.state \in Emitting("SCRIPT_DATA") /\ z.state # "SCRIPT_DATA"
  BY <1>2, <1>3 DEF Scripts
<1>21. QED BY <1>4, <1>9, <1>10, <1>11, <1>12, <1>13, <1>14, <1>15, <1>16, <1>17, <1>18, <1>19, <1>20

\* An end tag in a comment of the script, or a script that begins there.
LEMMA EscapedTagsGo ==
  ASSUME NEW z, Reading(z), Within(z), z.state \in Scripts \ Plain
  PROVE  Onward(Advanced(LexScript(z, Current(z))))
<1> DEFINE c == z.content
           p == z.pos
           x == SymbolAt(p)
<1>1. /\ text \in Seq(Symbols) /\ c.from \in Nat \ {0} /\ Opener(c)
      /\ p \in Nat \ {0} /\ p <= Len(text) + 1 /\ z.mark \in Nat \ {0} /\ Current(z) = x
  BY ReadingIs
<1>2. z.state \in {"SCRIPT_DATA_ESCAPED_LT", "SCRIPT_DATA_ESCAPED_END_TAG_OPEN",
                   "SCRIPT_DATA_ESCAPED_END_TAG_NAME"}
  BY DEF Scripts, Plain
<1>3. /\ z.state \in Marking(c.state) /\ Marks_(z) /\ Calm(z, z) /\ z.reconsume = FALSE
      /\ c.state = "SCRIPT_DATA" => Escapes(c.from, p, z.state, z.tmp)
  <2>1. z.state \in Marking("RCDATA") \cup Marking("RAWTEXT") \cup Marking("SCRIPT_DATA")
    BY <1>2, MarkingWhere
  <2>2. QED BY <2>1, MarkingIs
<1>4. c.state = "SCRIPT_DATA" /\ Escapes(c.from, p, z.state, z.tmp)
  <2>1. c.state \in Hidden
    BY DEF Reading
  <2>2. QED BY <1>2, <1>3, <2>1, MarkingWhere DEF Hidden
<1>5. /\ "SCRIPT_DATA_ESCAPED" \in Emitting(c.state)
      /\ "SCRIPT_DATA_DOUBLE_ESCAPED_START" \in Emitting(c.state)
      /\ c.state \in Hidden
      /\ "SCRIPT_DATA_ESCAPED_END_TAG_OPEN" \in EndTagOpens
      /\ "SCRIPT_DATA_ESCAPED_END_TAG_NAME" \in NamesEndTag
      /\ "SCRIPT_DATA_ESCAPED_END_TAG_OPEN" \in Marking(c.state)
      /\ "SCRIPT_DATA_ESCAPED_END_TAG_NAME" \in Marking(c.state)
  BY <1>4, EmittingWhere, MarkingWhere DEF EndTagOpens, NamesEndTag, Hidden, Scripts, Plain
<1>6. /\ z.start = z.mark /\ SymbolAt(z.mark) = "<" /\ OpenUpTo(c, z.mark) /\ z.mark < p
  BY <1>3 DEF Marks_
<1>7. CASE z.state = "SCRIPT_DATA_ESCAPED_LT"
  <2>1. z.state \in LtStates /\ SymbolAt(p - 1) = "<" /\ c.from <= p - 1 /\ p = z.mark + 1
    BY <1>1, <1>3, <1>7 DEF Marks_, LtStates, Reading
  <2>2. z.tmp = <<>>
    BY <1>7 DEF Reading, Ready, Kept, Clean, Unused
  <2>3. assert(z, temporary_buffer_is_empty(z)) = z
    BY <2>2 DEF assert, temporary_buffer_is_empty
  <2>4. /\ is_alpha(x) => Escapes(c.from, p, "SCRIPT_DATA_DOUBLE_ESCAPED_START", <<>>)
        /\ x = "/" => Escapes(c.from, p + 1, "SCRIPT_DATA_ESCAPED_END_TAG_OPEN", z.tmp)
        /\ ~is_alpha(x) => Escapes(c.from, p, "SCRIPT_DATA_ESCAPED", z.tmp)
    <3>1. p \in Nat /\ Escapes(c.from, p, "SCRIPT_DATA_ESCAPED_LT", z.tmp)
      BY <1>1, <1>4, <1>7
    <3>2. QED BY <1>1, <2>1, <3>1, EscapedTagGoes
  <2>5. CASE is_alpha(x)
    <3>1. x # "/"
      BY <2>5, LettersAre
    <3>2. OpenUpTo(c, p)
      BY <1>1, <1>6, <2>1, <3>1, OpenMore
    <3>3. Onward(Advanced(Back(z, "SCRIPT_DATA_DOUBLE_ESCAPED_START")))
      BY <1>3, <1>5, <2>2, <2>4, <2>5, <3>2, BackToText
    <3>4. LexScript(z, x) = Back(z, "SCRIPT_DATA_DOUBLE_ESCAPED_START")
      BY <1>7, <2>3, <2>5 DEF LexScript, handle_script_data_escaped_lt_state
    <3>5. QED BY <1>1, <3>3, <3>4
  <2>6. CASE ~is_alpha(x)
    <3>1. Onward(Advanced(LessThan(z, x, "SCRIPT_DATA_ESCAPED", "SCRIPT_DATA_ESCAPED_END_TAG_OPEN")))
      BY <1>3, <1>5, <2>1, <2>4, <2>6, LessThanGoes
    <3>2. LexScript(z, x) = LessThan(z, x, "SCRIPT_DATA_ESCAPED", "SCRIPT_DATA_ESCAPED_END_TAG_OPEN")
      BY <1>7, <2>3, <2>6 DEF LexScript, handle_script_data_escaped_lt_state
    <3>3. QED BY <1>1, <3>1, <3>2
  <2>7. QED BY <2>5, <2>6
<1>8. ASSUME NEW state \in {"SCRIPT_DATA_ESCAPED_END_TAG_OPEN", "SCRIPT_DATA_ESCAPED_END_TAG_NAME"},
             z.state = state
      PROVE  /\ Escapes(c.from, p, "SCRIPT_DATA_ESCAPED_END_TAG_NAME", z.tmp)
             /\ is_alpha(x) => Escapes(c.from, p + 1, "SCRIPT_DATA_ESCAPED_END_TAG_NAME", z.tmp)
             /\ SymbolAt(p - 1) = "/" \/ (is_alpha(SymbolAt(p - 1)) /\ SymbolAt(p - 2) # "<") =>
                  Escapes(c.from, p, "SCRIPT_DATA_ESCAPED", z.tmp)
  <2>1. p \in Nat /\ Escapes(c.from, p, state, z.tmp)
    BY <1>1, <1>4, <1>8
  <2> HIDE DEF c, p
  <2>2. QED BY <1>1, <2>1, EscapedTagGoes
<1>9. CASE z.state = "SCRIPT_DATA_ESCAPED_END_TAG_OPEN"
  <2>1. z.state \in EndTagOpens /\ SymbolAt(p - 1) = "/"
    <3>1. z.state \in EndTagOpens
      BY <1>5, <1>9
    <3>2. p = z.mark + 2 /\ SymbolAt(z.mark + 1) = "/"
      BY <1>3, <3>1 DEF Marks_
    <3>3. p - 1 = z.mark + 1
      BY <1>1, <3>2
    <3>4. QED BY <3>1, <3>2, <3>3
  <2>2. /\ Escapes(c.from, p, "SCRIPT_DATA_ESCAPED_END_TAG_NAME", z.tmp)
        /\ Escapes(c.from, p, "SCRIPT_DATA_ESCAPED", z.tmp)
    BY <1>8, <1>9, <2>1
  <2>3. Onward(Advanced(EndTagOpen(z, x, "SCRIPT_DATA_ESCAPED", "SCRIPT_DATA_ESCAPED_END_TAG_NAME")))
    BY <1>3, <1>5, <2>1, <2>2, EndTagOpenGoes
  <2>4. LexScript(z, x) = EndTagOpen(z, x, "SCRIPT_DATA_ESCAPED", "SCRIPT_DATA_ESCAPED_END_TAG_NAME")
    BY <1>9 DEF LexScript, handle_script_data_escaped_end_tag_open_state
  <2>5. QED BY <1>1, <2>3, <2>4
<1>10. CASE z.state = "SCRIPT_DATA_ESCAPED_END_TAG_NAME"
  <2>1. z.state \in NamesEndTag
    BY <1>5, <1>10
  <2>2. p >= z.mark + 2 /\ SymbolAt(z.mark + 1) = "/" /\ Spells(z.tag.buffer, z.mark + 2, p)
    BY <1>3, <2>1 DEF Marks_
  <2>3. \A k \in z.mark + 2 .. p - 1 : is_alpha(SymbolAt(k))
    BY <2>2, Zenon DEF Spells
  <2>4. SymbolAt(p - 1) = "/" \/ (is_alpha(SymbolAt(p - 1)) /\ SymbolAt(p - 2) # "<")
    <3>1. CASE p = z.mark + 2
      <4>1. p - 1 = z.mark + 1
        BY <1>1, <3>1
      <4>2. QED BY <2>2, <4>1
    <3>2. CASE p = z.mark + 3
      <4>1. p - 2 = z.mark + 1 /\ p - 1 \in z.mark + 2 .. p - 1
        BY <1>1, <3>2
      <4>2. QED BY <2>2, <2>3, <4>1
    <3>3. CASE p > z.mark + 3
      <4>1. p - 2 \in z.mark + 2 .. p - 1 /\ p - 1 \in z.mark + 2 .. p - 1
        BY <1>1, <3>3
      <4>2. is_alpha(SymbolAt(p - 1)) /\ is_alpha(SymbolAt(p - 2))
        BY <2>3, <4>1
      <4>3. QED BY <4>2, LettersAre
    <3>4. QED BY <1>1, <2>2, <3>1, <3>2, <3>3
  <2>5. /\ is_alpha(x) => Escapes(c.from, p + 1, z.state, z.tmp)
        /\ Escapes(c.from, p, "SCRIPT_DATA_ESCAPED", z.tmp)
    BY <1>8, <1>10, <2>4
  <2>6. Onward(Advanced(EndTagName(z, x, "SCRIPT_DATA_ESCAPED")))
    BY <1>3, <1>5, <2>1, <2>5, EndTagNameGoes
  <2>7. LexScript(z, x) = EndTagName(z, x, "SCRIPT_DATA_ESCAPED")
    BY <1>10 DEF LexScript, handle_script_data_escaped_end_tag_name_state
  <2>8. QED BY <1>1, <2>6, <2>7
<1>11. QED BY <1>2, <1>7, <1>9, <1>10

(* ----------------------- What the handlers of text leave ------------------- *)

\* A handler that is called, of the states that have a mark to return to.
LEMMA ReadyCalled ==
  ASSUME NEW z, Ready(z)
  PROVE  /\ Called(z) /\ z.pos \in 1 .. Len(text) + 1
         /\ z.state \in MayBeText => z.mark \in 1 .. z.pos - 1 /\ z.start <= z.mark
<1>1. DOMAIN z = StateFields
  BY DEF Ready, Kept, Shape
<1>2. /\ z.pos \in 1 .. Len(text) + 1 /\ z.mark \in 1 .. Len(text) + 1
      /\ z.start \in Nat /\ z.start <= z.pos
  BY DEF Ready, Kept, Places
<1>3. z.reconsume = FALSE
  BY DEF Ready, Kept
<1>4. Called(z)
  BY <1>1, <1>2, <1>3 DEF Ready, Called
<1>5. ASSUME z.state \in MayBeText PROVE z.mark \in 1 .. z.pos - 1 /\ z.start <= z.mark
  <2>1. MarkedAt(z, "<")
    BY <1>5 DEF Ready, Kept, Stands
  <2>2. z.start <= z.mark /\ z.mark < z.pos
    BY <2>1 DEF MarkedAt
  <2>3. QED BY <1>2, <2>2
<1>6. QED BY <1>2, <1>4, <1>5

\* Text.
LEMMA TextsEnd ==
  ASSUME NEW z, Called(z), z.state \in Texts, NEW c
  PROVE  Outcome(z, Advanced(LexText(z, c)))
<1>1. Calm(z, z)
  BY DEF Called, Calm
<1>2. \A x : Calm(z, x) => /\ \A e : Outcome(z, Advanced(emit_char(x, e)))
                           /\ Outcome(z, Advanced(emit_replacement_char(x)))
  BY EmissionEnds
<1>3. Calm(z, tokenizer_add_parse_error(z))
  BY <1>1, CalmOps
<1>4. Outcome(z, Advanced(handle_data_state(z, c)))
  BY <1>1, <1>2, <1>3, OpensEnd DEF handle_data_state
<1>5. Outcome(z, Advanced(handle_rcdata_state(z, c)))
  BY <1>1, <1>2, OpensEnd DEF handle_rcdata_state
<1>6. Outcome(z, Advanced(handle_rawtext_state(z, c)))
  BY <1>1, <1>2, OpensEnd DEF handle_rawtext_state
<1>7. Outcome(z, Advanced(handle_script_data_state(z, c)))
  BY <1>1, <1>2, OpensEnd DEF handle_script_data_state
<1>8. Outcome(z, Advanced(handle_plaintext_state(z, c)))
  BY <1>1, <1>2 DEF handle_plaintext_state
<1>9. QED BY <1>4, <1>5, <1>6, <1>7, <1>8 DEF Texts, LexText

\* What may be an end tag.
LEMMA EndTagsEnd ==
  ASSUME NEW z, Called(z), NEW c, text \in Seq(Symbols), z.pos \in 1 .. Len(text) + 1,
         z.mark \in 1 .. z.pos - 1, z.start <= z.mark
  PROVE  /\ \A state : Outcome(z, Advanced(Back(z, state)))
         /\ \A x, state : Calm(z, x) => Outcome(z, Advanced(Back(x, state)))
         /\ \A x, state, next : Calm(z, x) => Outcome(z, Advanced(LessThan(x, c, state, next)))
         /\ \A state, next : Outcome(z, Advanced(EndTagOpen(z, c, state, next)))
         /\ \A state : Outcome(z, Advanced(EndTagName(z, c, state)))
<1>1. Calm(z, z)
  BY DEF Called, Calm
<1>2. \A x, state : Calm(z, x) => Outcome(z, Advanced(Back(x, state)))
  BY CalmOps, MarkEnds DEF Back
<1>3. \A x, state, next : Calm(z, x) => Outcome(z, Advanced(LessThan(x, c, state, next)))
  BY <1>2, CalmOps, CalmEnds DEF LessThan
<1>4. \A state, next : Outcome(z, Advanced(EndTagOpen(z, c, state, next)))
  BY <1>1, <1>2, CalmOps, CalmEnds DEF EndTagOpen
<1>5. \A state : Outcome(z, Advanced(EndTagName(z, c, state)))
  <2>1. Calm(z, finish_tag_name(z)) /\ Calm(z, abandon_current_tag(z))
    BY <1>1, CalmOps
  <2>2. \A next : Calm(z, gumbo_tokenizer_set_state(finish_tag_name(z), next))
    BY <2>1, CalmOps
  <2>3. Outcome(z, Advanced(TagDone(finish_tag_name(z))))
    BY <2>1, MarkupEnds
  <2>4. \A word : Outcome(z, Advanced(append_to_tag_buffer(z, word)))
    BY <1>1, CalmOps, CalmEnds
  <2>5. \A next : Outcome(z, Advanced(gumbo_tokenizer_set_state(finish_tag_name(z), next)))
    BY <2>2, CalmEnds
  <2>6. \A state : Outcome(z, Advanced(Back(abandon_current_tag(z), state)))
    BY <1>2, <2>1
  <2>7. QED BY <2>3, <2>4, <2>5, <2>6 DEF EndTagName, TagDone
<1>6. QED BY <1>1, <1>2, <1>3, <1>4, <1>5

\* The families of what may be an end tag.
LEMMA LexEndTagEnds ==
  ASSUME NEW z, Called(z), z.state \in EndTags, NEW c, text \in Seq(Symbols),
         z.pos \in 1 .. Len(text) + 1, z.mark \in 1 .. z.pos - 1, z.start <= z.mark
  PROVE  Outcome(z, Advanced(LexEndTag(z, c)))
<1>1. Calm(z, z)
  BY DEF Called, Calm
<1>2. /\ \A state, next : Outcome(z, Advanced(LessThan(z, c, state, next)))
      /\ \A state, next : Outcome(z, Advanced(EndTagOpen(z, c, state, next)))
      /\ \A state : Outcome(z, Advanced(EndTagName(z, c, state)))
  BY <1>1, EndTagsEnd
<1>3. \A state : Outcome(z, Advanced(Back(utf8iterator_next(z), state)))
  <2>1. CASE z.pos > Len(text)
    <3>1. utf8iterator_next(z) = z
      BY <2>1 DEF utf8iterator_next
    <3>2. QED BY <1>1, <3>1, EndTagsEnd
  <2>2. CASE ~(z.pos > Len(text))
    <3> DEFINE y == Advance(z, 1)
    <3>1. utf8iterator_next(z) = y
      BY <2>2 DEF utf8iterator_next, Advance
    <3>2. Called(y) /\ Calm(y, y) /\ \A n : Outcome(y, n) => Outcome(z, n)
      BY OpensEnd
    <3>3. y.pos = z.pos + 1 /\ y.mark = z.mark /\ y.start = z.start
      BY DEF Advance, Called, StateFields
    <3> HIDE DEF y
    <3>4. y.pos \in 1 .. Len(text) + 1 /\ y.mark \in 1 .. y.pos - 1 /\ y.start <= y.mark
      BY <2>2, <3>3 DEF Called
    <3>5. \A state : Outcome(y, Advanced(Back(y, state)))
      BY <3>2, <3>4, EndTagsEnd
    <3>6. QED BY <3>1, <3>2, <3>5
  <2>3. QED BY <2>1, <2>2
<1>4. Outcome(z, Advanced(handle_script_data_lt_state(z, c)))
  BY <1>2, <1>3 DEF handle_script_data_lt_state
<1>5. /\ Outcome(z, Advanced(handle_rcdata_lt_state(z, c)))
      /\ Outcome(z, Advanced(handle_rcdata_end_tag_open_state(z, c)))
      /\ Outcome(z, Advanced(handle_rcdata_end_tag_name_state(z, c)))
      /\ Outcome(z, Advanced(handle_rawtext_lt_state(z, c)))
      /\ Outcome(z, Advanced(handle_rawtext_end_tag_open_state(z, c)))
      /\ Outcome(z, Advanced(handle_rawtext_end_tag_name_state(z, c)))
      /\ Outcome(z, Advanced(handle_script_data_end_tag_open_state(z, c)))
      /\ Outcome(z, Advanced(handle_script_data_end_tag_name_state(z, c)))
  BY <1>2 DEF handle_rcdata_lt_state, handle_rcdata_end_tag_open_state,
              handle_rcdata_end_tag_name_state, handle_rawtext_lt_state,
              handle_rawtext_end_tag_open_state, handle_rawtext_end_tag_name_state,
              handle_script_data_end_tag_open_state, handle_script_data_end_tag_name_state
<1>6. QED BY <1>4, <1>5 DEF EndTags, LexEndTag

\* Scripts after <!--.
LEMMA ScriptsEnd ==
  ASSUME NEW z, Called(z), z.state \in Scripts, NEW c, text \in Seq(Symbols),
         z.pos \in 1 .. Len(text) + 1,
         z.state \in MayBeText => z.mark \in 1 .. z.pos - 1 /\ z.start <= z.mark
  PROVE  Outcome(z, Advanced(LexScript(z, c)))
<1>1. Calm(z, z)
  BY DEF Called, Calm
<1>2. \A next, e : Outcome(z, Advanced(emit_char(gumbo_tokenizer_set_state(z, next), e)))
  BY <1>1, CalmOps, EmissionEnds
<1>3. \A next : Outcome(z, Advanced(reconsume_in_state(z, next)))
  BY <1>1, CalmOps, CalmEnds
<1>4. \A next : Outcome(z, Advanced(Escaped(z, c, next)))
  <2>1. \A next : Outcome(z, Advanced(emit_replacement_char(gumbo_tokenizer_set_state(z, next))))
    BY <1>1, CalmOps, EmissionEnds
  <2>2. Outcome(z, Advanced(emit_eof(tokenizer_add_parse_error(z))))
    BY <1>1, CalmOps, EmissionEnds
  <2>3. QED BY <1>2, <2>1, <2>2 DEF Escaped
<1>5. Outcome(z, Advanced(EscapedLessThan(z)))
  BY OpensEnd
<1>6. /\ Outcome(z, Advanced(handle_script_data_escaped_start_state(z, c)))
      /\ Outcome(z, Advanced(handle_script_data_escaped_start_dash_state(z, c)))
  BY <1>2, <1>3 DEF handle_script_data_escaped_start_state,
                    handle_script_data_escaped_start_dash_state
<1>7. /\ Outcome(z, Advanced(handle_script_data_escaped_state(z, c)))
      /\ Outcome(z, Advanced(handle_script_data_escaped_dash_state(z, c)))
      /\ Outcome(z, Advanced(handle_script_data_escaped_dash_dash_state(z, c)))
  BY <1>2, <1>4, <1>5 DEF handle_script_data_escaped_state,
       handle_script_data_escaped_dash_state, handle_script_data_escaped_dash_dash_state
<1>8. \A inside, outside, otherwise :
        Outcome(z, Advanced(DoubleEscape(z, c, inside, outside, otherwise)))
  <2>1. \A word : Outcome(z, Advanced(emit_char(append_to_temporary_buffer(z, word), c)))
    BY <1>1, CalmOps, EmissionEnds
  <2>2. QED BY <1>2, <1>3, <2>1 DEF DoubleEscape
<1>9. /\ Outcome(z, Advanced(handle_script_data_double_escaped_start_state(z, c)))
      /\ Outcome(z, Advanced(handle_script_data_double_escaped_end_state(z, c)))
  BY <1>8 DEF handle_script_data_double_escaped_start_state,
              handle_script_data_double_escaped_end_state
<1>10. /\ Outcome(z, Advanced(handle_script_data_double_escaped_state(z, c)))
       /\ Outcome(z, Advanced(handle_script_data_double_escaped_dash_state(z, c)))
       /\ Outcome(z, Advanced(handle_script_data_double_escaped_dash_dash_state(z, c)))
  BY <1>4 DEF handle_script_data_double_escaped_state,
       handle_script_data_double_escaped_dash_state, handle_script_data_double_escaped_dash_dash_state
<1>11. Outcome(z, Advanced(handle_script_data_double_escaped_lt_state(z, c)))
  <2>1. \A next : Outcome(z, Advanced(emit_char(clear_temporary_buffer(
                                gumbo_tokenizer_set_state(z, next)), c)))
    BY <1>1, CalmOps, EmissionEnds
  <2>2. QED BY <1>3, <2>1 DEF handle_script_data_double_escaped_lt_state
<1>12. ASSUME z.state \in MayBeText
       PROVE  /\ Outcome(z, Advanced(handle_script_data_escaped_lt_state(z, c)))
              /\ Outcome(z, Advanced(handle_script_data_escaped_end_tag_open_state(z, c)))
              /\ Outcome(z, Advanced(handle_script_data_escaped_end_tag_name_state(z, c)))
  <2>1. /\ \A x, state : Calm(z, x) => Outcome(z, Advanced(Back(x, state)))
        /\ \A x, state, next : Calm(z, x) => Outcome(z, Advanced(LessThan(x, c, state, next)))
        /\ \A state, next : Outcome(z, Advanced(EndTagOpen(z, c, state, next)))
        /\ \A state : Outcome(z, Advanced(EndTagName(z, c, state)))
    BY <1>12, EndTagsEnd
  <2>2. \A condition : Calm(z, assert(z, condition))
    BY <1>1, CalmOps
  <2>3. Outcome(z, Advanced(handle_script_data_escaped_lt_state(z, c)))
    <3> DEFINE a == assert(z, temporary_buffer_is_empty(z))
    <3>1. Calm(z, a)
      BY <2>2
    <3>2. handle_script_data_escaped_lt_state(z, c) =
            IF is_alpha(c) THEN Back(a, "SCRIPT_DATA_DOUBLE_ESCAPED_START")
            ELSE LessThan(a, c, "SCRIPT_DATA_ESCAPED", "SCRIPT_DATA_ESCAPED_END_TAG_OPEN")
      BY DEF handle_script_data_escaped_lt_state
    <3> HIDE DEF a
    <3>3. QED BY <2>1, <3>1, <3>2
  <2>4. QED BY <2>1, <2>3 DEF handle_script_data_escaped_end_tag_open_state,
                              handle_script_data_escaped_end_tag_name_state
<1>13. {"SCRIPT_DATA_ESCAPED_LT", "SCRIPT_DATA_ESCAPED_END_TAG_OPEN",
        "SCRIPT_DATA_ESCAPED_END_TAG_NAME"} \subseteq MayBeText
  BY DEF MayBeText, NamesEndTag
<1>14. CASE z.state \in MayBeText
  BY <1>6, <1>7, <1>9, <1>10, <1>11, <1>12, <1>14 DEF Scripts, LexScript
<1>15. CASE z.state \notin MayBeText
  BY <1>6, <1>7, <1>9, <1>10, <1>11, <1>13, <1>15 DEF Scripts, LexScript
<1>16. QED BY <1>14, <1>15

\* References in RCDATA.
LEMMA ReferencesGo ==
  ASSUME NEW z, Reading(z), Within(z), z.state \in References, NEW n, Kept(n), RefOutcome(z, n)
  PROVE  Onward(n)
<1> DEFINE c == z.content
<1>1. /\ text \in Seq(Symbols) /\ c.from \in Nat \ {0} /\ Opener(c) /\ IsSeq(z.out)
      /\ z.pos \in Nat \ {0} /\ z.start \in Nat /\ c.from <= z.start /\ z.last = c.name
      /\ ReadTo(z) = z.pos /\ c.state \in Hidden
  BY ReadingIs DEF Reading, Ready, Kept, History, Called, ReadTo
<1>2. c.state = "RCDATA" /\ z.return = "RCDATA" /\ OpenUpTo(c, z.pos)
  <2>1. References \cap Marking(c.state) = {}
    BY <1>1 DEF Hidden, References, Marking
  <2>2. References \cap Scripts = {}
    BY DEF References, Scripts
  <2>3. References \cap Emitting(c.state) = {}
    BY <1>1, <2>2 DEF Hidden, References, Emitting
  <2>4. QED BY <1>1, <2>1, <2>3 DEF Within
<1>3. "RCDATA" \notin InValue
  BY DEF InValue
<1>4. TextOutcome(z, n) /\ Outcome(z, n)
  BY <1>2, <1>3 DEF RefOutcome
<1> DEFINE q == ReadTo(n)
<1>5. OpenUpTo(c, q)
  <2>1. SUFFICES ASSUME NEW k \in c.from .. q - 1 PROVE ~EndsContents(c, k)
    BY DEF OpenUpTo
  <2>2. q \in Nat /\ NoLess(z.pos, q)
    BY <1>4 DEF TextOutcome
  <2>3. k \in Nat
    BY <1>1, <2>2
  <2>4. CASE k < z.pos
    <3>1. k \in c.from .. z.pos - 1
      BY <1>1, <2>2, <2>4
    <3>2. QED BY <1>2, <3>1 DEF OpenUpTo
  <2>5. CASE z.pos <= k
    <3>1. text[k] # "<"
      BY <1>1, <2>2, <2>5 DEF NoLess
    <3>2. SymbolAt(k) # "<"
      BY <3>1 DEF SymbolAt, EOF
    <3>3. QED BY <1>1, <2>3, <3>2, EndsContentsAt
  <2>6. QED BY <1>1, <2>3, <2>4, <2>5
<1>6. /\ n.content = c /\ n.start \in Nat /\ z.start <= n.start
      /\ n.return = "RCDATA" /\ n.state \in References \cup {"RCDATA"}
      /\ n.state = "RCDATA" => n.start = n.pos
  BY <1>1, <1>2, <1>4 DEF Outcome, TextOutcome
<1>7. n.last = z.last => Within(n)
  <2>1. c.from <= n.start
    BY <1>1, <1>6
  <2>2. CASE n.state = "RCDATA"
    <3>1. n.state \in Emitting(c.state)
      BY <1>2, <2>2, EmittingWhere
    <3>2. QED BY <1>1, <1>2, <1>5, <1>6, <2>1, <2>2, <3>1 DEF Within
  <2>3. CASE n.state \in References
    BY <1>1, <1>2, <1>5, <1>6, <2>1, <2>3 DEF Within
  <2>4. QED BY <1>6, <2>2, <2>3
<1>8. CASE n.emitted = FALSE
  <2>1. n.last = z.last
    BY <1>4, <1>8 DEF Outcome
  <2>2. QED BY <1>7, <1>8, <2>1, QuietGoes
<1>9. CASE n.emitted = TRUE
  <2>1. PICK type \in Characters \cup {"EOF"} : \E value, to, at :
          to <= q /\ n.out = Append(z.out, Token(type, value, z.start, to, at))
    BY <1>4, <1>9 DEF TextOutcome
  <2>2. PICK value, to, at :
          to <= q /\ n.out = Append(z.out, Token(type, value, z.start, to, at))
    BY <2>1
  <2>3. n.out[Len(n.out)].to = to /\ n.out[Len(n.out)].type = type
    BY <1>1, <2>2, LastToken
  <2>4. to \in Nat /\ to <= Len(text) + 1
    <3>1. n.out # <<>>
      BY <1>9 DEF Kept, Between
    <3>2. to \in 1 .. n.start /\ n.start \in Nat /\ n.start <= Len(text) + 1
      BY <1>1, <2>3, <3>1 DEF Kept, History, Places
    <3>3. QED BY <1>1, <3>2
  <2>5. n.last = z.last
    <3>1. PICK ty, va, t2, a2 :
            /\ n.out = Append(z.out, Token(ty, va, z.start, t2, a2))
            /\ ty # "START_TAG" => n.last = z.last
      BY <1>4, <1>9 DEF Outcome
    <3>2. n.out[Len(n.out)].type = ty
      BY <1>1, <3>1, LastToken
    <3>3. type # "START_TAG"
      BY DEF Characters
    <3>4. QED BY <2>3, <3>1, <3>2, <3>3
  <2>6. OpenUpTo(c, to)
    <3>1. q \in Nat
      BY <1>4 DEF TextOutcome
    <3>2. \A k \in c.from .. to - 1 : k \in c.from .. q - 1
      BY <1>1, <2>2, <2>4, <3>1
    <3>3. QED BY <1>5, <3>2 DEF OpenUpTo
  <2>7. Within(n)
    BY <1>7, <2>5
  <2>8. QED BY <1>6, <1>9, <2>2, <2>4, <2>6, <2>7, CharacterGoes DEF Reading
<1>10. QED BY <1>4, <1>8, <1>9 DEF Outcome

(* ------------------------------ CDATA sections ----------------------------- *)

\* The words around a section, by the symbols there.
LEMMA SectionWords ==
  ASSUME text \in Seq(Symbols), NEW k \in Nat \ {0}
  PROVE  /\ IsAt(<<"]", "]", ">">>, k) =>
              SymbolAt(k) = "]" /\ SymbolAt(k + 1) = "]" /\ SymbolAt(k + 2) = ">"
         /\ SectionAt(k) <=>
              SymbolAt(k) = "<" /\ SymbolAt(k + 1) = "!" /\ SymbolAt(k + 2) = "[CDATA["
<1>1. EOF \notin Marks
  BY DEF EOF, Marks
<1>2. ASSUME NEW word \in Seq(Marks), Len(word) = 3
      PROVE  IsAt(word, k) <=> /\ SymbolAt(k) = word[1] /\ SymbolAt(k + 1) = word[2]
                               /\ SymbolAt(k + 2) = word[3]
  <2>1. Len(word) >= 1
    BY <1>2
  <2>2. IsAt(word, k) <=> \A j \in 1 .. Len(word) : SymbolAt(k + j - 1) = word[j]
    BY <1>1, <2>1, IsAtIs
  <2>3. 1 .. 3 = {1, 2, 3} /\ k + 1 - 1 = k /\ k + 2 - 1 = k + 1 /\ k + 3 - 1 = k + 2
    OBVIOUS
  <2>4. (\A j \in 1 .. 3 : SymbolAt(k + j - 1) = word[j]) <=>
          /\ SymbolAt(k) = word[1] /\ SymbolAt(k + 1) = word[2] /\ SymbolAt(k + 2) = word[3]
    BY <2>3
  <2>5. QED BY <1>2, <2>2, <2>4
<1> DEFINE end == <<"]", "]", ">">>
           begin == <<"<", "!", "[CDATA[">>
<1>3. /\ end \in Seq(Marks) /\ Len(end) = 3 /\ end[1] = "]" /\ end[2] = "]" /\ end[3] = ">"
      /\ begin \in Seq(Marks) /\ Len(begin) = 3 /\ begin[1] = "<" /\ begin[2] = "!"
      /\ begin[3] = "[CDATA["
  BY DEF Marks
<1> HIDE DEF end, begin
<1>4. IsAt(end, k) <=> SymbolAt(k) = "]" /\ SymbolAt(k + 1) = "]" /\ SymbolAt(k + 2) = ">"
  <2>1. IsAt(end, k) <=> /\ SymbolAt(k) = end[1] /\ SymbolAt(k + 1) = end[2]
                         /\ SymbolAt(k + 2) = end[3]
    BY <1>2, <1>3
  <2>2. QED BY <1>3, <2>1
<1>5. IsAt(begin, k) <=> SymbolAt(k) = "<" /\ SymbolAt(k + 1) = "!" /\ SymbolAt(k + 2) = "[CDATA["
  <2>1. IsAt(begin, k) <=> /\ SymbolAt(k) = begin[1] /\ SymbolAt(k + 1) = begin[2]
                           /\ SymbolAt(k + 2) = begin[3]
    BY <1>2, <1>3
  <2>2. QED BY <1>3, <2>1
<1>6. QED BY <1>4, <1>5 DEF end, begin, SectionAt

\* No section ends at a place without its sign.
LEMMA NoneEndsHere ==
  ASSUME text \in Seq(Symbols), NEW lo \in Nat, NEW p \in Nat, lo >= 1, NoSectionEnd(lo, p),
         p >= 1 => SymbolAt(p) # "]" \/ SymbolAt(p + 1) # "]" \/ SymbolAt(p + 2) # ">"
  PROVE  NoSectionEnd(lo, p + 1)
<1>1. SUFFICES ASSUME NEW e \in lo .. (p + 1) - 1 PROVE ~IsAt(<<"]", "]", ">">>, e)
  BY DEF NoSectionEnd
<1>2. CASE e = p
  <2>1. e \in Nat \ {0}
    BY <1>1
  <2>2. QED BY <1>2, <2>1, SectionWords
<1>3. CASE e # p
  <2>1. e \in lo .. p - 1
    BY <1>1, <1>3
  <2>2. QED BY <2>1 DEF NoSectionEnd
<1>4. QED BY <1>2, <1>3

\* In the states of neither the contents nor their end tag they are over.
LEMMA Elsewhere ==
  ASSUME NEW z, Ready(z), Contents(z), z.content.state \in Hidden,
         z.state \notin Texts \cup EndTags \cup Scripts \cup References \cup Attributes
  PROVE  Over(z)
<1>1. z.emitted = FALSE
  BY DEF Ready
<1>2. ~InEndTag(z)
  BY DEF InEndTag, InTag, BuildsTag, NamesEndTag
<1>3. Emitting(z.content.state) \subseteq Texts \cup Scripts
  BY DEF Emitting, Texts, Hidden
<1>4. Marking(z.content.state) \subseteq EndTags \cup Scripts
  BY DEF Marking, EndTags, Scripts, Hidden
<1>5. ~Within(z)
  BY <1>3, <1>4 DEF Within
<1>6. QED BY <1>1, <1>2, <1>5 DEF Contents

\* What was read stays read.
LEMMA OverGoes ==
  ASSUME NEW z, Ready(z), Contents(z), z.content.state \in Hidden => Over(z),
         NEW n, n.content = z.content, n.emitted = FALSE, n.resume = 0,
         n.start \in Nat, z.start <= n.start
  PROVE  Contents(n)
<1>1. z.start \in Nat
  BY DEF Ready, Kept, Places
<1>2. ASSUME n.content.state \in Hidden PROVE Over(n)
  <2>1. PICK k \in 1 .. z.start - 1 : EndsContents(z.content, k)
    BY <1>2 DEF Over
  <2>2. QED BY <1>1, <2>1 DEF Over
<1>3. QED BY <1>2 DEF Contents, Announced, LiesRight

\* One more token of a section.
LEMMA SectionTokens ==
  ASSUME NEW z, Ready(z), Sections(z), NEW type, NEW value, NEW from, NEW to, NEW at \in Nat,
         NEW q, q = Append(z.out, Token(type, value, from, to, at)),
         type = "CDATA" =>
           \E b \in 1 .. at : SectionAt(b) /\ b + 2 < at /\ NoSectionEnd(b + 3, at + 1)
  PROVE  \A i \in DOMAIN q : SectionToken(q[i])
<1>1. IsSeq(z.out) /\ \A i \in DOMAIN z.out : SectionToken(z.out[i])
  BY DEF Ready, Kept, History, Sections
<1> DEFINE new == Token(type, value, from, to, at)
<1>2. SectionToken(new)
  BY DEF Token, SectionToken
<1> HIDE DEF new
<1>3. q = Append(z.out, new)
  BY DEF new
<1>4. QED BY <1>1, <1>2, <1>3, AppendSeq

\* <! : a comment, a doctype or a section.
LEMMA DeclarationEnds ==
  ASSUME NEW z, Called(z), NEW c, ~(Begins(<<"[CDATA[">>, Rest(z)) /\ z.foreign)
  PROVE  Outcome(z, Advanced(handle_markup_declaration_open_state(z, c)))
<1>1. Calm(z, z)
  BY DEF Called, Calm
<1> DEFINE bogus == reconsume_in_state(tokenizer_add_parse_error(clear_temporary_buffer(z)),
                                       "BOGUS_COMMENT")
<1>2. Calm(z, bogus)
  <2>1. Calm(z, tokenizer_add_parse_error(clear_temporary_buffer(z)))
    BY <1>1, CalmOps
  <2>2. QED BY <2>1, CalmOps
<1>3. Outcome(z, Advanced(bogus))
  BY <1>2, CalmEnds
<1>4. \A k \in Nat : \A state : Outcome(z, Advanced(reconsume_in_state(Advance(z, k), state)))
  <2>1. TAKE k \in Nat
  <2>2. TAKE state
  <2> DEFINE y == Advance(z, k)
  <2>3. Called(y) /\ Calm(y, y) /\ \A n : Outcome(y, n) => Outcome(z, n)
    BY OpensEnd
  <2> HIDE DEF y
  <2>4. Outcome(y, Advanced(reconsume_in_state(y, state)))
    BY <2>3, CalmOps, CalmEnds
  <2>5. QED BY <2>3, <2>4 DEF y
<1>5. Outcome(z, Advanced([reconsume_in_state(Advance(z, 1), "DOCTYPE") EXCEPT !.doctype.owned = TRUE]))
  <2> DEFINE y == Advance(z, 1)
             x == [reconsume_in_state(y, "DOCTYPE") EXCEPT !.doctype.owned = TRUE]
  <2>1. Called(y) /\ Calm(y, y) /\ \A n : Outcome(y, n) => Outcome(z, n)
    BY OpensEnd
  <2> HIDE DEF y
  <2>2. Calm(y, x)
    BY <2>1 DEF Calm, reconsume_in_state, StateFields
  <2> HIDE DEF x
  <2>3. Outcome(y, Advanced(x))
    BY <2>1, <2>2, CalmEnds
  <2>4. QED BY <2>1, <2>3 DEF x, y
<1>6. Outcome(z, Advanced(append_to_temporary_buffer(Advance(bogus, 1), <<"[CDATA[">>)))
  <2> DEFINE y == Advance(z, 1)
             x == Advance(bogus, 1)
  <2>1. Called(y) /\ Calm(y, y) /\ \A n : Outcome(y, n) => Outcome(z, n)
    BY OpensEnd
  <2>2. Calm(y, x)
    <3> HIDE DEF bogus
    <3>1. y.pos = z.pos + 1 /\ y.mark = z.mark /\ y.return = z.return
          /\ y.content = z.content /\ y.out = z.out /\ y.start = z.start /\ y.last = z.last
          /\ y.cdata = z.cdata /\ y.buffered = z.buffered /\ y.resume = z.resume
          /\ y.emitted = z.emitted
      BY DEF Advance, Called, StateFields
    <3> HIDE DEF y
    <3>2. QED BY <1>2, <3>1 DEF Calm, Advance, StateFields
  <2> HIDE DEF y, x
  <2>3. Outcome(y, Advanced(append_to_temporary_buffer(x, <<"[CDATA[">>)))
    BY <2>1, <2>2, CalmOps, CalmEnds
  <2>4. QED BY <2>1, <2>3 DEF x, y
<1> DEFINE rest == Rest(z)
<1> HIDE DEF bogus, rest
<1>7. CASE Begins(<<"[CDATA[">>, rest)
  <2>1. ~z.foreign
    BY <1>7 DEF rest
  <2>2. handle_markup_declaration_open_state(z, c) \in
          {reconsume_in_state(Advance(z, 2), "COMMENT_START"),
           [reconsume_in_state(Advance(z, 1), "DOCTYPE") EXCEPT !.doctype.owned = TRUE],
           append_to_temporary_buffer(Advance(bogus, 1), <<"[CDATA[">>), bogus}
    BY <2>1, Zenon DEF handle_markup_declaration_open_state, bogus
  <2>3. QED BY <1>3, <1>4, <1>5, <1>6, <2>2
<1>8. CASE ~Begins(<<"[CDATA[">>, rest)
  <2>1. handle_markup_declaration_open_state(z, c) \in
          {reconsume_in_state(Advance(z, 2), "COMMENT_START"),
           [reconsume_in_state(Advance(z, 1), "DOCTYPE") EXCEPT !.doctype.owned = TRUE],
           append_to_temporary_buffer(Advance(bogus, 1), <<"[CDATA[">>), bogus}
    BY <1>8, Zenon DEF handle_markup_declaration_open_state, bogus, rest
  <2>2. QED BY <1>3, <1>4, <1>5, <1>6, <2>1
<1>9. QED BY <1>7, <1>8

\* A word at a place that the rest of the text begins with.
LEMMA WordHere ==
  ASSUME NEW z, Ready(z), NEW word, Begins(<<word>>, Rest(z))
  PROVE  z.pos <= Len(text) /\ SymbolAt(z.pos) = word
<1> DEFINE w == <<word>>
<1>1. text \in Seq(Symbols) /\ z.pos \in 1 .. Len(text) + 1
  BY DEF Ready, Kept, Places
<1>2. w \in Seq({word}) /\ Len(w) = 1 /\ Len(w) >= 1 /\ w[1] = word
  OBVIOUS
<1>3. Begins(w, Rest(z))
  OBVIOUS
<1> HIDE DEF w
<1>4. z.pos + Len(w) <= Len(text) + 1 /\ \A j \in 1 .. Len(w) : text[z.pos + j - 1] = w[j]
  BY <1>1, <1>2, <1>3, BeginsIs, ZenonT(60)
<1>5. z.pos + 1 - 1 = z.pos /\ z.pos <= Len(text) /\ z.pos \in Nat \ {0}
  BY <1>1, <1>2, <1>4
<1>6. text[z.pos] = word
  BY <1>2, <1>4, <1>5
<1>7. QED BY <1>1, <1>5, <1>6, SymbolAtIs

\* A section begins.
LEMMA SectionBegins ==
  ASSUME NEW z, Ready(z), Contents(z), Sections(z), z.state = "MARKUP_DECLARATION_OPEN",
         Begins(<<"[CDATA[">>, Rest(z)),
         NEW r, r = [reset_token_start_point(reconsume_in_state(Advance(z, 1), "CDATA_SECTION"))
                     EXCEPT !.cdata = TRUE]
  PROVE  Contents(Advanced(r)) /\ Sections(Advanced(r))
<1> DEFINE n == Advanced(r)
           b == z.mark
<1>1. /\ text \in Seq(Symbols) /\ DOMAIN z = StateFields /\ z.pos \in Nat \ {0}
      /\ z.start \in Nat /\ z.start <= z.pos /\ b \in Nat \ {0}
      /\ z.emitted = FALSE /\ z.resume = 0 /\ z.buffered = NoChar
  BY DEF Ready, Kept, Places, Shape
<1>2. z.pos = b + 2 /\ text[b] = "<" /\ text[b + 1] = "!"
  BY DEF Ready, Kept, Stands, MayBeText, MarkedAt
<1>3. z.pos <= Len(text) /\ SymbolAt(z.pos) = "[CDATA["
  BY WordHere
<1>4. SectionAt(b)
  <2>1. b <= Len(text) /\ b + 1 <= Len(text) /\ b + 1 \in Nat \ {0}
    BY <1>1, <1>2, <1>3
  <2>2. SymbolAt(b) = "<" /\ SymbolAt(b + 1) = "!"
    BY <1>1, <1>2, <2>1, SymbolAtIs
  <2>3. SymbolAt(b + 2) = "[CDATA["
    BY <1>2, <1>3
  <2>4. QED BY <1>1, <2>2, <2>3, SectionWords
<1>5. /\ DOMAIN r = StateFields /\ r.content = z.content /\ r.out = z.out
      /\ r.buffered = NoChar /\ r.resume = 0 /\ r.emitted = FALSE /\ r.cdata = TRUE
      /\ r.state = "CDATA_SECTION" /\ r.reconsume = TRUE /\ r.pos = z.pos + 1
      /\ r.start = z.pos + 1
  BY <1>1 DEF reset_token_start_point, reconsume_in_state, Advance, StateFields
<1>6. /\ n.content = z.content /\ n.out = z.out
      /\ n.buffered = NoChar /\ n.resume = 0 /\ n.emitted = FALSE /\ n.cdata = TRUE
      /\ n.state = "CDATA_SECTION" /\ n.pos = z.pos + 1 /\ n.start = z.pos + 1
  BY <1>5, AdvancedIs
<1> HIDE DEF n
<1>7. Contents(n)
  <2>1. z.state \notin Texts \cup EndTags \cup Scripts \cup References \cup Attributes
    BY DEF Texts, EndTags, Scripts, References, Attributes
  <2>2. z.content.state \in Hidden => Over(z)
    BY <2>1, Elsewhere
  <2>3. n.start \in Nat /\ z.start <= n.start
    BY <1>1, <1>6
  <2>4. QED BY <1>6, <2>2, <2>3, OverGoes
<1>8. Section(n)
  <2>1. ReadTo(n) = b + 3 /\ n.pos = b + 3
    BY <1>1, <1>2, <1>6 DEF ReadTo
  <2>2. NoSectionEnd(b + 3, b + 3)
    BY <1>1 DEF NoSectionEnd
  <2>3. b \in 1 .. n.pos
    BY <1>1, <2>1
  <2>4. QED BY <1>1, <1>4, <1>6, <2>1, <2>2, <2>3 DEF Section
<1>9. Sections(n)
  BY <1>6, <1>8 DEF Sections, CDatas
<1>10. QED BY <1>7, <1>9 DEF n

\* <! leaves the contents and the sections as they should be.
LEMMA DeclarationGoes ==
  ASSUME NEW z, Ready(z), Contents(z), Sections(z), z.state = "MARKUP_DECLARATION_OPEN", NEW c,
         Kept(Advanced(LexComment(z, c)))
  PROVE  LET n == Advanced(LexComment(z, c)) IN Contents(n) /\ Sections(n)
<1> DEFINE h == handle_markup_declaration_open_state(z, c)
<1>1. LexComment(z, c) = h
  BY DEF LexComment
<1>2. Called(z)
  BY ReadyCalled
<1>3. CASE Begins(<<"[CDATA[">>, Rest(z)) /\ z.foreign
  <2> DEFINE rest == Rest(z)
             r == [reset_token_start_point(reconsume_in_state(Advance(z, 1), "CDATA_SECTION"))
                   EXCEPT !.cdata = TRUE]
  <2>1. ~Begins(<<"-", "-">>, rest) /\ ~Begins(<<"DOCTYPE">>, rest)
    <3>1. SymbolAt(z.pos) = "[CDATA["
      BY <1>3, WordHere
    <3>2. ~Begins(<<"DOCTYPE">>, Rest(z))
      <4>1. Begins(<<"DOCTYPE">>, Rest(z)) => SymbolAt(z.pos) = "DOCTYPE"
        BY WordHere
      <4>2. QED BY <3>1, <4>1
    <3>3. ~Begins(<<"-", "-">>, Rest(z))
      BY <3>1, DashesAre DEF Ready, Kept, Places
    <3>4. QED BY <3>2, <3>3
  <2>2. Begins(<<"[CDATA[">>, rest)
    BY <1>3
  <2> HIDE DEF rest
  <2>3. h = r
    BY <1>3, <2>1, <2>2, Zenon DEF handle_markup_declaration_open_state, rest
  <2> HIDE DEF h
  <2>4. Contents(Advanced(h)) /\ Sections(Advanced(h))
    BY <1>3, <2>3, SectionBegins
  <2>5. QED BY <1>1, <2>4
<1>4. CASE ~(Begins(<<"[CDATA[">>, Rest(z)) /\ z.foreign)
  <2>1. Outcome(z, Advanced(h))
    BY <1>2, <1>4, DeclarationEnds
  <2> HIDE DEF h
  <2>2. z.state \notin Texts \cup EndTags \cup Scripts \cup References \cup Attributes
    BY DEF Texts, EndTags, Scripts, References, Attributes
  <2>3. z.content.state \in Hidden => Over(z)
    BY <2>2, Elsewhere
  <2>4. Contents(Advanced(h))
    BY <1>1, <2>1, <2>3, ContentsGo
  <2>5. z.cdata = FALSE
    BY DEF Sections, CDatas
  <2>6. Sections(Advanced(h))
    BY <2>1, <2>5, SectionsGo
  <2>7. QED BY <1>1, <2>4, <2>6
<1>5. QED BY <1>3, <1>4

\* A bracket at the mark turns out to be text of the section.
LEMMA SectionBack ==
  ASSUME NEW z, Ready(z), Sections(z), NEW b \in Nat \ {0}, SectionAt(b), b + 3 <= z.mark,
         NoSectionEnd(b + 3, z.mark + 1), NEW n, n.cdata = TRUE, n.buffered = NoChar,
         n.state = "CDATA_SECTION", n.pos = z.mark + 1, NoSectionEnd(b + 3, ReadTo(n)),
         NEW type, NEW value, NEW from, NEW to,
         n.out = Append(z.out, Token(type, value, from, to, z.mark))
  PROVE  Sections(n)
<1>1. z.mark \in Nat
  BY DEF Ready, Kept, Places
<1>2. b \in 1 .. z.mark /\ b + 2 < z.mark /\ b \in 1 .. n.pos /\ b + 3 <= n.pos
  BY <1>1
<1>3. \A i \in DOMAIN n.out : SectionToken(n.out[i])
  BY <1>1, <1>2, SectionTokens
<1>4. Section(n)
  BY <1>2 DEF Section
<1>5. QED BY <1>3, <1>4 DEF Sections, CDatas

\* The text of a section.
LEMMA SectionGoes ==
  ASSUME NEW z, Ready(z), Contents(z), Sections(z), z.state = "CDATA_SECTION"
  PROVE  LET n == Advanced(LexCData(z, Current(z)))
         IN  Outcome(z, n) /\ (z.cdata => Sections(n))
<1> DEFINE p == z.pos
           h == handle_cdata_section_state(z, SymbolAt(p))
<1>1. /\ text \in Seq(Symbols) /\ p \in Nat \ {0} /\ p <= Len(text) + 1
      /\ DOMAIN z = StateFields /\ Called(z) /\ Calm(z, z) /\ z.reconsume = FALSE
      /\ (SymbolAt(p) = EOF <=> p > Len(text)) /\ IsSeq(z.out)
  <2>1. Called(z) /\ p \in 1 .. Len(text) + 1 /\ text \in Seq(Symbols) /\ IsSeq(z.out)
    BY ReadyCalled DEF Ready, Kept, History
  <2>2. SymbolAt(p) = EOF <=> p > Len(text)
    BY <2>1, SymbolAtIs
  <2>3. QED BY <2>1, <2>2 DEF Called, Calm
<1>2. LexCData(z, Current(z)) = h
  BY DEF LexCData, Current, SymbolAt
<1>3. ASSUME z.cdata
      PROVE  z.cdata = TRUE /\ \E b \in 1 .. p : SectionAt(b) /\ b + 3 <= p /\ NoSectionEnd(b + 3, p)
  <2>1. z.emitted = FALSE /\ ReadTo(z) = p
    BY DEF Ready, ReadTo
  <2>2. z.cdata = TRUE /\ Section(z)
    BY <1>3, <2>1 DEF Sections
  <2>3. QED BY <2>1, <2>2 DEF Section
<1>4. ASSUME NEW x, Calm(z, x), x.reconsume = FALSE, x.state = "CDATA_SECTION",
             SymbolAt(p) # "]"
      PROVE  z.cdata => Sections(Advanced(emit_char(x, SymbolAt(p))))
  <2> DEFINE c == SymbolAt(p)
             type == get_char_token_type(x.cdata, c)
             r == emit_char(x, c)
             n == Advanced(r)
  <2>1. SUFFICES ASSUME z.cdata PROVE Sections(n)
    OBVIOUS
  <2>2. PICK b \in 1 .. p : SectionAt(b) /\ b + 3 <= p /\ NoSectionEnd(b + 3, p)
    BY <1>3, <2>1
  <2>3. Tells(x, r, type, c)
    BY <1>4, CharTells DEF Calm
  <2>4. c = EOF => type = "EOF"
    BY DEF get_char_token_type, EOF, NUL, WhiteSpace, Space
  <2> HIDE DEF r, type, c
  <2>5. /\ n.cdata = TRUE /\ n.buffered = NoChar /\ n.resume = 0 /\ n.emitted = TRUE
        /\ n.state = "CDATA_SECTION" /\ n.pos = Behind(x)
        /\ n.out = Append(z.out, Token(type, c, z.start, Behind(x), p))
    <3>1. /\ DOMAIN r = StateFields /\ r.cdata = x.cdata /\ r.buffered = x.buffered
          /\ r.resume = x.resume /\ r.state = x.state /\ r.emitted = TRUE /\ r.pos = Behind(x)
          /\ r.out = Append(x.out, Token(type, c, x.start, r.pos, x.pos))
      BY <2>3 DEF Tells
    <3>2. /\ x.cdata = TRUE /\ x.buffered = NoChar /\ x.resume = 0 /\ x.start = z.start
          /\ x.pos = p /\ x.out = z.out
      BY <1>1, <1>3, <1>4, <2>1 DEF Calm, Called
    <3>3. /\ n.cdata = r.cdata /\ n.buffered = r.buffered /\ n.resume = r.resume
          /\ n.emitted = r.emitted /\ n.state = r.state /\ n.out = r.out
          /\ n.pos = IF r.emitted \/ r.reconsume THEN r.pos ELSE Behind(r)
      BY <3>1, AdvancedIs
    <3> HIDE DEF n
    <3>4. QED BY <1>4, <3>1, <3>2, <3>3
  <2> HIDE DEF n
  <2>6. b + 3 \in Nat /\ b + 3 >= 1 /\ SymbolAt(p) # "]"
    BY <1>4, <2>2
  <2>7. NoSectionEnd(b + 3, p + 1)
    BY <1>1, <2>2, <2>6, NoneEndsHere
  <2>8. \A i \in DOMAIN n.out : SectionToken(n.out[i])
    <3>1. b \in 1 .. p /\ b + 2 < p
      BY <1>1, <2>2
    <3>2. QED BY <1>1, <2>2, <2>5, <2>7, <3>1, SectionTokens
  <2>9. CASE c = EOF
    <3>1. n.out[Len(n.out)].type = "EOF"
      BY <1>1, <2>4, <2>5, <2>9, LastToken
    <3>2. QED BY <2>5, <2>8, <3>1 DEF Sections, Ended, CDatas
  <2>10. CASE c # EOF
    <3>1. Behind(x) = p + 1
      BY <1>1, <1>4, <2>10 DEF Behind, Calm, c
    <3>2. ReadTo(n) = p + 1 /\ n.pos = p + 1
      BY <2>5, <3>1 DEF ReadTo
    <3>3. b \in 1 .. n.pos /\ b + 3 <= n.pos
      BY <1>1, <2>2, <3>2
    <3>4. Section(n)
      BY <2>2, <2>5, <2>7, <3>2, <3>3 DEF Section
    <3>5. QED BY <2>5, <2>8, <3>4 DEF Sections, CDatas
  <2>11. QED BY <2>9, <2>10
<1>5. CASE SymbolAt(p) = "]"
  <2> DEFINE r == Opens(z, "CDATA_SECTION_BRACKET")
             n == Advanced(r)
  <2>1. h = r
    BY <1>5 DEF handle_cdata_section_state, EOF
  <2>2. Outcome(z, n)
    BY <1>1, OpensEnd
  <2>3. ASSUME z.cdata PROVE Sections(n)
    <3>1. PICK b \in 1 .. p : SectionAt(b) /\ b + 3 <= p /\ NoSectionEnd(b + 3, p)
      BY <1>3, <2>3
    <3>2. /\ DOMAIN r = StateFields /\ r.out = z.out /\ r.cdata = z.cdata /\ r.resume = 0
          /\ r.buffered = NoChar /\ r.emitted = FALSE /\ r.reconsume = FALSE /\ r.pos = p
          /\ r.mark = p /\ r.state = "CDATA_SECTION_BRACKET"
      BY <1>1 DEF Opens, set_mark, gumbo_tokenizer_set_state, Called, StateFields
    <3> HIDE DEF r
    <3>3. /\ n.out = z.out /\ n.cdata = TRUE /\ n.buffered = NoChar /\ n.emitted = FALSE
          /\ n.mark = p /\ n.state = "CDATA_SECTION_BRACKET" /\ n.pos = Behind(r)
      BY <1>3, <2>3, <3>2, AdvancedIs
    <3>4. Behind(r) \in {p, p + 1}
      BY <3>2 DEF Behind
    <3> HIDE DEF n
    <3>5. b \in 1 .. n.pos /\ b + 3 <= n.pos /\ b + 3 <= n.mark
      BY <1>1, <3>1, <3>3, <3>4
    <3>6. Section(n)
      BY <3>1, <3>3, <3>5 DEF Section
    <3>7. QED BY <3>3, <3>6 DEF Sections, CDatas
  <2> HIDE DEF r
  <2>4. QED BY <1>2, <2>1, <2>2, <2>3
<1>6. CASE SymbolAt(p) = EOF
  <2> DEFINE x == tokenizer_add_parse_error(z)
  <2>1. Calm(z, x)
    BY <1>1, CalmOps
  <2>2. x.reconsume = FALSE /\ x.state = "CDATA_SECTION"
    BY <1>1 DEF tokenizer_add_parse_error, StateFields
  <2>3. h = emit_char(x, SymbolAt(p))
    BY <1>6 DEF handle_cdata_section_state, EOF, emit_eof
  <2>4. Outcome(z, Advanced(emit_char(x, SymbolAt(p))))
    BY <1>1, <2>1, EmissionEnds
  <2>5. SymbolAt(p) # "]"
    BY <1>6 DEF EOF
  <2> HIDE DEF x
  <2>6. z.cdata => Sections(Advanced(emit_char(x, SymbolAt(p))))
    BY <1>4, <2>1, <2>2, <2>5
  <2>7. QED BY <1>2, <2>3, <2>4, <2>6
<1>7. CASE SymbolAt(p) \notin {"]", EOF}
  <2>1. h = emit_char(z, SymbolAt(p))
    BY <1>7 DEF handle_cdata_section_state
  <2>2. Outcome(z, Advanced(emit_char(z, SymbolAt(p))))
    BY <1>1, EmissionEnds
  <2>3. z.cdata => Sections(Advanced(emit_char(z, SymbolAt(p))))
    BY <1>1, <1>4, <1>7
  <2>4. QED BY <1>2, <2>1, <2>2, <2>3
<1>8. QED BY <1>5, <1>6, <1>7

\* What is known of a section in the states after its brackets.
LEMMA SectionSoFar ==
  ASSUME NEW z, Ready(z), Sections(z), z.cdata,
         z.state \in {"CDATA_SECTION_BRACKET", "CDATA_SECTION_END"}
  PROVE  z.cdata = TRUE /\ \E b \in Nat \ {0} :
                             SectionAt(b) /\ b + 3 <= z.mark /\ NoSectionEnd(b + 3, z.mark)
<1>1. z.emitted = FALSE /\ z.pos \in Nat
  BY DEF Ready, Kept, Places
<1>2. z.cdata = TRUE /\ Section(z)
  BY <1>1 DEF Sections
<1>3. PICK b \in 1 .. z.pos : /\ SectionAt(b)
                              /\ b + 3 <= z.mark /\ NoSectionEnd(b + 3, z.mark)
  BY <1>2 DEF Section
<1>4. b \in Nat \ {0}
  BY <1>1
<1>5. QED BY <1>2, <1>3, <1>4

\* A bracket at the mark is emitted, and the section goes on.
LEMMA BracketBack ==
  ASSUME NEW z, Ready(z), Sections(z), Called(z),
         z.state \in {"CDATA_SECTION_BRACKET", "CDATA_SECTION_END"},
         z.mark \in 1 .. z.pos - 1,
         NEW x, Calm(z, x), x.state = "CDATA_SECTION",
         NEW n, \/ n = Advanced(emit_from_mark(x))
                \/ n = Advanced(set_mark([emit_from_mark(x) EXCEPT !.resume = 0])),
         ReadTo(n) \in Nat, z.mark < ReadTo(n),
         \A b \in Nat : b >= 1 /\ NoSectionEnd(b + 3, z.mark) => NoSectionEnd(b + 3, ReadTo(n))
  PROVE  z.cdata => Sections(n)
<1> DEFINE e == emit_from_mark(x)
           c == SymbolAt(x.mark)
           type == get_char_token_type(x.cdata, c)
           f == set_mark([e EXCEPT !.resume = 0])
<1>1. SUFFICES ASSUME z.cdata PROVE Sections(n)
  OBVIOUS
<1>2. text \in Seq(Symbols) /\ z.pos \in 1 .. Len(text) + 1
  BY DEF Ready, Kept, Places
<1>3. z.cdata = TRUE /\ \E b \in Nat \ {0} :
                          SectionAt(b) /\ b + 3 <= z.mark /\ NoSectionEnd(b + 3, z.mark)
  BY <1>1, SectionSoFar
<1>4. PICK b \in Nat \ {0} : SectionAt(b) /\ b + 3 <= z.mark /\ NoSectionEnd(b + 3, z.mark)
  BY <1>3
<1>5. DOMAIN x = StateFields /\ x.pos \in 1 .. Len(text) + 1 /\ x.mark \in 1 .. x.pos - 1
  BY <1>2 DEF Calm
<1>6. /\ x.cdata = TRUE /\ x.buffered = NoChar /\ x.out = z.out /\ x.mark = z.mark
      /\ x.start = z.start
  BY <1>3 DEF Calm, Called
<1>7. /\ DOMAIN e = StateFields /\ e.cdata = x.cdata /\ e.buffered = x.buffered
      /\ e.state = x.state /\ e.emitted = TRUE /\ e.pos = x.mark + 1
      /\ e.out = Append(x.out, Token(type, c, x.start, x.mark + 1, x.mark))
  BY <1>2, <1>5, MarkTells
<1> HIDE DEF e, c, type
<1>8. /\ DOMAIN f = StateFields /\ f.cdata = e.cdata /\ f.buffered = e.buffered
      /\ f.state = e.state /\ f.emitted = e.emitted /\ f.pos = e.pos /\ f.out = e.out
  BY <1>7 DEF set_mark, StateFields
<1> HIDE DEF f
<1>9. n = Advanced(e) \/ n = Advanced(f)
  BY DEF e, f
<1>10. /\ n.cdata = e.cdata /\ n.buffered = e.buffered /\ n.state = e.state
       /\ n.out = e.out /\ n.pos = e.pos
  <2>1. CASE n = Advanced(e)
    BY <1>7, <2>1, AdvancedIs
  <2>2. CASE n = Advanced(f)
    BY <1>7, <1>8, <2>2, AdvancedIs
  <2>3. QED BY <1>9, <2>1, <2>2
<1>11. /\ n.cdata = TRUE /\ n.buffered = NoChar /\ n.state = "CDATA_SECTION"
       /\ n.pos = z.mark + 1 /\ n.out = Append(z.out, Token(type, c, z.start, z.mark + 1, z.mark))
  BY <1>6, <1>7, <1>10
<1>12. NoSectionEnd(b + 3, ReadTo(n))
  BY <1>4
<1>13. NoSectionEnd(b + 3, z.mark + 1)
  <2>1. \A k \in b + 3 .. (z.mark + 1) - 1 : k \in b + 3 .. ReadTo(n) - 1
    BY <1>2
  <2>2. QED BY <1>12, <2>1 DEF NoSectionEnd
<1>14. QED BY <1>4, <1>11, <1>12, <1>13, SectionBack

\* A bracket after text of a section.
LEMMA BracketGoes ==
  ASSUME NEW z, Ready(z), Contents(z), Sections(z), z.state = "CDATA_SECTION_BRACKET"
  PROVE  LET n == Advanced(LexCData(z, Current(z)))
         IN  Outcome(z, n) /\ (z.cdata => Sections(n))
<1> DEFINE p == z.pos
           m == z.mark
           c == SymbolAt(p)
           h == handle_cdata_section_bracket_state(z, c)
<1>1. /\ text \in Seq(Symbols) /\ p \in 1 .. Len(text) + 1 /\ Called(z) /\ Calm(z, z)
      /\ DOMAIN z = StateFields /\ m \in Nat \ {0}
  <2>1. Called(z) /\ p \in 1 .. Len(text) + 1 /\ text \in Seq(Symbols)
    BY ReadyCalled DEF Ready
  <2>2. m \in Nat \ {0}
    BY DEF Ready, Kept, Places
  <2>3. QED BY <2>1, <2>2 DEF Called, Calm
<1>2. p = m + 1 /\ z.start <= m /\ text[m] = "]"
  BY DEF Ready, Kept, Stands, MarkedAt
<1>3. LexCData(z, Current(z)) = h
  BY DEF LexCData, Current, SymbolAt
<1>4. CASE c = "]"
  <2> DEFINE r == gumbo_tokenizer_set_state(z, "CDATA_SECTION_END")
             n == Advanced(r)
  <2>1. h = r
    BY <1>4 DEF handle_cdata_section_bracket_state
  <2>2. Calm(z, r)
    BY <1>1, CalmOps
  <2>3. Outcome(z, n)
    BY <1>1, <2>2, CalmEnds
  <2>4. r.state = "CDATA_SECTION_END" /\ r.reconsume = FALSE
    BY <1>1 DEF gumbo_tokenizer_set_state, Called, StateFields
  <2> HIDE DEF r
  <2>5. ASSUME z.cdata PROVE Sections(n)
    <3>1. z.cdata = TRUE /\ \E b \in Nat \ {0} :
                              SectionAt(b) /\ b + 3 <= m /\ NoSectionEnd(b + 3, m)
      BY <2>5, SectionSoFar
    <3>2. PICK b \in Nat \ {0} : SectionAt(b) /\ b + 3 <= m /\ NoSectionEnd(b + 3, m)
      BY <3>1
    <3>3. /\ n.out = z.out /\ n.cdata = TRUE /\ n.buffered = NoChar
          /\ n.mark = m /\ n.state = "CDATA_SECTION_END"
          /\ n.pos = IF r.emitted \/ r.reconsume THEN r.pos ELSE Behind(r)
      BY <2>2, <2>4, <3>1, <1>1, AdvancedIs DEF Calm, Called
    <3>4. n.pos \in {p, p + 1}
      BY <2>2, <3>3 DEF Behind, Calm
    <3> HIDE DEF n
    <3>5. b \in 1 .. n.pos /\ b + 3 <= n.pos
      BY <1>1, <1>2, <3>2, <3>4
    <3>6. Section(n)
      BY <3>2, <3>3, <3>5 DEF Section
    <3>7. QED BY <3>3, <3>6 DEF Sections, CDatas
  <2>6. QED BY <1>3, <2>1, <2>3, <2>5
<1>5. CASE c # "]"
  <2> DEFINE x == reconsume_in_state(z, "CDATA_SECTION")
             n == Advanced(emit_from_mark(x))
  <2>1. h = emit_from_mark(x)
    BY <1>5 DEF handle_cdata_section_bracket_state, Back
  <2>2. Calm(z, x)
    BY <1>1, CalmOps
  <2>3. x.state = "CDATA_SECTION"
    BY <1>1 DEF reconsume_in_state, StateFields
  <2>4. z.mark \in 1 .. z.pos - 1
    BY <1>1, <1>2
  <2> HIDE DEF x
  <2>5. Outcome(z, n)
    BY <1>1, <1>2, <2>2, <2>4, MarkEnds
  <2>6. ReadTo(n) = m + 1
    <3>1. DOMAIN x = StateFields /\ x.pos \in 1 .. Len(text) + 1 /\ x.mark \in 1 .. x.pos - 1
          /\ x.pos = p
      BY <1>1, <2>2, <2>4 DEF Calm
    <3> DEFINE e == emit_from_mark(x)
    <3>2. DOMAIN e = StateFields /\ e.resume = p
      BY <1>1, <3>1, MarkTells
    <3> HIDE DEF e
    <3>3. Advanced(e).resume = p
      BY <3>2, AdvancedIs
    <3>4. QED BY <1>1, <1>2, <3>3 DEF ReadTo, e
  <2>7. ASSUME NEW b \in Nat, b >= 1, NoSectionEnd(b + 3, m) PROVE NoSectionEnd(b + 3, m + 1)
    <3>1. SymbolAt(m + 1) # "]"
      BY <1>2, <1>5
    <3>2. b + 3 \in Nat /\ b + 3 >= 1 /\ m \in Nat
      BY <1>1
    <3>3. QED BY <1>1, <2>7, <3>1, <3>2, NoneEndsHere
  <2> HIDE DEF n
  <2>8. ReadTo(n) \in Nat /\ z.mark < ReadTo(n)
    BY <1>1, <2>6
  <2>9. n = Advanced(emit_from_mark(x))
    BY DEF n
  <2>10. z.cdata => Sections(n)
    <3>1. \A b \in Nat : b >= 1 /\ NoSectionEnd(b + 3, z.mark) => NoSectionEnd(b + 3, ReadTo(n))
      BY <2>6, <2>7
    <3>2. QED BY <1>1, <2>2, <2>3, <2>4, <2>8, <2>9, <3>1, BracketBack
  <2>11. QED BY <1>3, <2>1, <2>5, <2>9, <2>10
<1>6. QED BY <1>4, <1>5

\* Another bracket after two in a section, and what is not the end of it.
LEMMA BracketsGo ==
  ASSUME NEW z, Ready(z), Contents(z), Sections(z), z.state = "CDATA_SECTION_END",
         Current(z) # ">"
  PROVE  LET n == Advanced(LexCData(z, Current(z)))
         IN  Outcome(z, n) /\ (z.cdata => Sections(n))
<1> DEFINE p == z.pos
           m == z.mark
           c == SymbolAt(p)
           h == handle_cdata_section_end_state(z, c)
<1>1. /\ text \in Seq(Symbols) /\ p \in 1 .. Len(text) + 1 /\ Called(z) /\ Calm(z, z)
      /\ DOMAIN z = StateFields /\ m \in Nat \ {0}
  <2>1. Called(z) /\ p \in 1 .. Len(text) + 1 /\ text \in Seq(Symbols)
    BY ReadyCalled DEF Ready
  <2>2. m \in Nat \ {0}
    BY DEF Ready, Kept, Places
  <2>3. QED BY <2>1, <2>2 DEF Called, Calm
<1>2. p = m + 2 /\ z.start <= m /\ z.mark \in 1 .. z.pos - 1
  <2>1. p = m + 2 /\ z.start <= m
    BY DEF Ready, Kept, Stands, MarkedAt
  <2>2. QED BY <1>1, <2>1
<1>3. LexCData(z, Current(z)) = h /\ c # ">" /\ c = Current(z)
  <2>1. c = Current(z)
    BY DEF Current, SymbolAt
  <2>2. QED BY <2>1 DEF LexCData
<1>4. ASSUME NEW b \in Nat, b >= 1, NoSectionEnd(b + 3, m) PROVE NoSectionEnd(b + 3, m + 1)
  <2>1. SymbolAt(m + 2) # ">"
    BY <1>2, <1>3
  <2>2. b + 3 \in Nat /\ b + 3 >= 1 /\ m \in Nat
    BY <1>1
  <2>3. QED BY <1>1, <1>4, <2>1, <2>2, NoneEndsHere
<1>5. ASSUME NEW x, DOMAIN x = StateFields, x.pos = p, x.mark = m
      PROVE  /\ DOMAIN emit_from_mark(x) = StateFields /\ emit_from_mark(x).resume = p
             /\ emit_from_mark(x).pos = m + 1 /\ emit_from_mark(x).emitted = TRUE
  <2>1. x.pos \in 1 .. Len(text) + 1 /\ x.mark \in 1 .. x.pos - 1
    BY <1>1, <1>2, <1>5
  <2> DEFINE e == emit_from_mark(x)
  <2>2. DOMAIN e = StateFields /\ e.resume = x.pos /\ e.pos = x.mark + 1 /\ e.emitted = TRUE
    BY <1>1, <1>5, <2>1, MarkTells
  <2> HIDE DEF e
  <2>3. DOMAIN e = StateFields /\ e.resume = p /\ e.pos = m + 1 /\ e.emitted = TRUE
    BY <1>5, <2>2
  <2>4. QED BY <2>3 DEF e
<1>6. CASE c = "]"
  <2> DEFINE x == gumbo_tokenizer_set_state(z, "CDATA_SECTION")
             e == emit_from_mark(x)
             f == set_mark([e EXCEPT !.resume = 0])
             n == Advanced(f)
  <2>1. h = f
    BY <1>6 DEF handle_cdata_section_end_state
  <2>2. Calm(z, x)
    BY <1>1, CalmOps
  <2>3. x.state = "CDATA_SECTION"
    BY <1>1 DEF gumbo_tokenizer_set_state, StateFields
  <2> HIDE DEF x
  <2>4. Outcome(z, Advanced(e))
    BY <1>1, <1>2, <2>2, MarkEnds
  <2>5. DOMAIN e = StateFields /\ e.resume = p /\ e.pos = m + 1 /\ e.emitted = TRUE
    BY <1>5, <2>2 DEF Calm
  <2> HIDE DEF e
  <2>6. /\ DOMAIN f = StateFields /\ f.content = e.content /\ f.out = e.out
        /\ f.start = e.start /\ f.last = e.last /\ f.cdata = e.cdata /\ f.state = e.state
        /\ f.buffered = e.buffered /\ f.resume = 0 /\ f.emitted = e.emitted /\ f.pos = e.pos
    BY <2>5 DEF set_mark, StateFields
  <2> HIDE DEF f
  <2>7. /\ n.content = e.content /\ n.out = e.out
        /\ n.start = e.start /\ n.last = e.last /\ n.cdata = e.cdata /\ n.state = e.state
        /\ n.buffered = e.buffered /\ n.resume = 0 /\ n.emitted = e.emitted
        /\ n.pos = m + 1
    BY <2>5, <2>6, AdvancedIs
  <2> DEFINE a == Advanced(e)
  <2>8. /\ a.content = e.content /\ a.out = e.out
        /\ a.start = e.start /\ a.last = e.last /\ a.cdata = e.cdata /\ a.state = e.state
        /\ a.buffered = e.buffered /\ a.emitted = e.emitted
    BY <2>5, AdvancedIs
  <2>9. Outcome(z, a)
    BY <2>4
  <2> HIDE DEF a, n
  <2>10. Outcome(z, n)
    BY <2>7, <2>8, <2>9 DEF Outcome
  <2>11. ReadTo(n) = m + 1
    BY <2>7 DEF ReadTo
  <2>12. z.cdata => Sections(n)
    <3>1. ReadTo(n) \in Nat /\ z.mark < ReadTo(n)
      BY <1>1, <2>11
    <3>2. \A b \in Nat : b >= 1 /\ NoSectionEnd(b + 3, z.mark) => NoSectionEnd(b + 3, ReadTo(n))
      BY <1>4, <2>11
    <3>3. n = Advanced(set_mark([emit_from_mark(x) EXCEPT !.resume = 0]))
      BY DEF n, f, e
    <3>4. QED BY <1>1, <1>2, <2>2, <2>3, <3>1, <3>2, <3>3, BracketBack
  <2>13. QED BY <1>3, <2>1, <2>10, <2>12 DEF n
<1>7. CASE c # "]"
  <2> DEFINE x == reconsume_in_state(z, "CDATA_SECTION")
             e == emit_from_mark(x)
             n == Advanced(e)
  <2>1. h = e
    BY <1>3, <1>7 DEF handle_cdata_section_end_state, Back
  <2>2. Calm(z, x)
    BY <1>1, CalmOps
  <2>3. x.state = "CDATA_SECTION"
    BY <1>1 DEF reconsume_in_state, StateFields
  <2> HIDE DEF x
  <2>4. Outcome(z, n)
    BY <1>1, <1>2, <2>2, MarkEnds
  <2>5. DOMAIN e = StateFields /\ e.resume = p
    BY <1>5, <2>2 DEF Calm
  <2> HIDE DEF e
  <2>6. ReadTo(n) = m + 2
    BY <1>1, <1>2, <2>5, AdvancedIs DEF ReadTo
  <2>7. n = Advanced(emit_from_mark(x))
    BY DEF e
  <2> HIDE DEF n
  <2>8. ASSUME NEW b \in Nat, b >= 1, NoSectionEnd(b + 3, m) PROVE NoSectionEnd(b + 3, m + 2)
    <3>1. SymbolAt((m + 1) + 1) # "]"
      BY <1>1, <1>2, <1>7
    <3>2. b + 3 \in Nat /\ b + 3 >= 1 /\ m + 1 \in Nat /\ m + 2 = (m + 1) + 1
      BY <1>1
    <3>3. NoSectionEnd(b + 3, m + 1)
      BY <1>4, <2>8
    <3>4. NoSectionEnd(b + 3, (m + 1) + 1)
      BY <1>1, <3>1, <3>2, <3>3, NoneEndsHere
    <3>5. QED BY <3>2, <3>4
  <2>9. z.cdata => Sections(n)
    <3>1. ReadTo(n) \in Nat /\ z.mark < ReadTo(n)
      BY <1>1, <2>6
    <3>2. \A b \in Nat : b >= 1 /\ NoSectionEnd(b + 3, z.mark) => NoSectionEnd(b + 3, ReadTo(n))
      BY <2>6, <2>8
    <3>3. QED BY <1>1, <1>2, <2>2, <2>3, <2>7, <3>1, <3>2, BracketBack
  <2>10. QED BY <1>3, <2>1, <2>4, <2>7, <2>9 DEF e
<1>8. QED BY <1>6, <1>7

\* A section ends.
LEMMA SectionStops ==
  ASSUME NEW z, Ready(z), Contents(z), Sections(z), z.state = "CDATA_SECTION_END",
         Current(z) = ">"
  PROVE  LET n == Advanced(LexCData(z, Current(z))) IN Contents(n) /\ Sections(n)
<1> DEFINE y == utf8iterator_next(z)
           w == reconsume_in_state(reset_token_start_point(y), "DATA")
           r == [w EXCEPT !.cdata = FALSE]
           n == Advanced(r)
<1>1. LexCData(z, Current(z)) = r
  BY DEF LexCData, handle_cdata_section_end_state
<1>2. /\ DOMAIN z = StateFields /\ z.pos \in Nat /\ z.start \in Nat /\ z.start <= z.pos
      /\ z.emitted = FALSE /\ z.resume = 0 /\ z.buffered = NoChar
  BY ReadyCalled DEF Called
<1>3. /\ DOMAIN y = StateFields /\ y.content = z.content /\ y.out = z.out
      /\ y.buffered = NoChar /\ y.resume = 0 /\ y.emitted = FALSE
      /\ y.pos \in {z.pos, z.pos + 1}
  BY <1>2 DEF utf8iterator_next, StateFields
<1> HIDE DEF y
<1>4. /\ DOMAIN r = StateFields /\ r.content = z.content /\ r.out = z.out /\ r.cdata = FALSE
      /\ r.buffered = NoChar /\ r.resume = 0 /\ r.emitted = FALSE /\ r.start = y.pos
  BY <1>3 DEF reset_token_start_point, reconsume_in_state, StateFields
<1> HIDE DEF r, w
<1>5. /\ n.content = z.content /\ n.out = z.out /\ n.cdata = FALSE
      /\ n.buffered = NoChar /\ n.resume = 0 /\ n.emitted = FALSE /\ n.start = y.pos
  BY <1>4, AdvancedIs
<1> HIDE DEF n
<1>6. n.start \in Nat /\ z.start <= n.start
  BY <1>2, <1>3, <1>5
<1>7. z.state \notin Texts \cup EndTags \cup Scripts \cup References \cup Attributes
  BY DEF Texts, EndTags, Scripts, References, Attributes
<1>8. z.content.state \in Hidden => Over(z)
  BY <1>7, Elsewhere
<1>9. Contents(n)
  BY <1>5, <1>6, <1>8, OverGoes
<1>10. Sections(n)
  BY <1>5 DEF Sections
<1>11. QED BY <1>1, <1>9, <1>10 DEF n

\* The states of a section leave the contents and the sections as they should be.
LEMMA CDataGoes ==
  ASSUME NEW z, Ready(z), Contents(z), Sections(z), z.state \in CDatas
  PROVE  LET n == Advanced(LexCData(z, Current(z))) IN Contents(n) /\ Sections(n)
<1> DEFINE n == Advanced(LexCData(z, Current(z)))
<1>1. ASSUME Outcome(z, n), z.cdata => Sections(n)
      PROVE  Contents(n) /\ Sections(n)
  <2>1. Kept(n)
    BY LexCDataKept
  <2> HIDE DEF n
  <2>2. z.state \notin Texts \cup EndTags \cup Scripts \cup References \cup Attributes
    BY DEF CDatas, Texts, EndTags, Scripts, References, Attributes
  <2>3. z.content.state \in Hidden => Over(z)
    BY <2>2, Elsewhere
  <2>4. Contents(n)
    BY <1>1, <2>1, <2>3, ContentsGo
  <2>5. z.cdata \in BOOLEAN
    BY DEF Sections
  <2>6. z.cdata = FALSE => Sections(n)
    BY <1>1, SectionsGo
  <2>7. QED BY <1>1, <2>4, <2>5, <2>6
<1>2. CASE z.state = "CDATA_SECTION"
  <2>1. Outcome(z, n) /\ (z.cdata => Sections(n))
    BY <1>2, SectionGoes
  <2> HIDE DEF n
  <2>2. Contents(n) /\ Sections(n)
    BY <1>1, <2>1
  <2>3. QED BY <2>2 DEF n
<1>3. CASE z.state = "CDATA_SECTION_BRACKET"
  <2>1. Outcome(z, n) /\ (z.cdata => Sections(n))
    BY <1>3, BracketGoes
  <2> HIDE DEF n
  <2>2. Contents(n) /\ Sections(n)
    BY <1>1, <2>1
  <2>3. QED BY <2>2 DEF n
<1>4. CASE z.state = "CDATA_SECTION_END"
  <2>1. CASE Current(z) = ">"
    BY <1>4, <2>1, SectionStops
  <2>2. CASE Current(z) # ">"
    <3>1. Outcome(z, n) /\ (z.cdata => Sections(n))
      BY <1>4, <2>2, BracketsGo
    <3> HIDE DEF n
    <3>2. Contents(n) /\ Sections(n)
      BY <1>1, <3>1
    <3>3. QED BY <3>2 DEF n
  <2>3. QED BY <2>1, <2>2
<1>5. QED BY <1>2, <1>3, <1>4 DEF CDatas

(* ------------------------------ Every handler ------------------------------ *)

\* Where the tokenizer may be when a handler is called.
LEMMA ReadingCases ==
  ASSUME NEW z, Ready(z), Contents(z), z.content.state \in Hidden
  PROVE  Over(z) \/ InEndTag(z) \/ (Within(z) /\ Reading(z))
<1>1. z.emitted = FALSE /\ Called(z)
  BY ReadyCalled DEF Ready
<1>2. Over(z) \/ InEndTag(z) \/ Within(z)
  BY <1>1 DEF Contents
<1>3. Within(z) => Reading(z)
  BY <1>1 DEF Within, Reading
<1>4. QED BY <1>2, <1>3

\* A handler outside of sections.
LEMMA BothGo ==
  ASSUME NEW z, Ready(z), Contents(z), Sections(z), z.state \notin CDatas,
         NEW n, Kept(n), Outcome(z, n), z.content.state \in Hidden => Over(z) \/ Onward(n)
  PROVE  Contents(n) /\ Sections(n)
<1>1. Contents(n)
  BY ContentsGo
<1>2. z.cdata = FALSE
  BY DEF Sections
<1>3. Sections(n)
  BY <1>2, SectionsGo
<1>4. QED BY <1>1, <1>3

\* Text leaves the contents and the sections as they should be.
LEMMA TextLeaves ==
  ASSUME NEW z, Ready(z), Contents(z), Sections(z), z.state \in Texts
  PROVE  LET n == Advanced(LexText(z, Current(z))) IN Contents(n) /\ Sections(n)
<1> DEFINE n == Advanced(LexText(z, Current(z)))
<1>1. Kept(n)
  BY LexTextKept
<1>2. Outcome(z, n)
  BY ReadyCalled, TextsEnd
<1>3. z.state \notin CDatas /\ ~InEndTag(z)
  BY DEF Texts, CDatas, InEndTag, InTag, BuildsTag, Attributes, References
<1>4. Within(z) /\ Reading(z) => Onward(n)
  BY TextsGo
<1>5. z.content.state \in Hidden => Over(z) \/ (Within(z) /\ Reading(z))
  BY <1>3, ReadingCases
<1> HIDE DEF n
<1>6. Contents(n) /\ Sections(n)
  BY <1>1, <1>2, <1>3, <1>4, <1>5, BothGo
<1>7. QED BY <1>6 DEF n

\* The end tags of RCDATA, RAWTEXT and scripts.
LEMMA EndTagPartLeaves ==
  ASSUME NEW z, Ready(z), Contents(z), Sections(z), z.state \in EndTags
  PROVE  LET n == Advanced(LexEndTag(z, Current(z))) IN Contents(n) /\ Sections(n)
<1> DEFINE n == Advanced(LexEndTag(z, Current(z)))
<1>1. Kept(n)
  BY LexEndTagKept
<1>2. Outcome(z, n)
  <2>1. EndTags \subseteq MayBeText
    BY DEF EndTags, MayBeText, NamesEndTag
  <2>2. Called(z) /\ z.pos \in 1 .. Len(text) + 1 /\ text \in Seq(Symbols)
        /\ z.mark \in 1 .. z.pos - 1 /\ z.start <= z.mark
    BY <2>1, ReadyCalled DEF Ready
  <2>3. QED BY <2>2, LexEndTagEnds
<1>3. z.state \notin CDatas
  BY DEF EndTags, CDatas
<1>4. ~InEndTag(z)
  BY DEF EndTags, InEndTag, InTag, BuildsTag, NamesEndTag, Attributes, References
<1>5. Within(z) /\ Reading(z) => Onward(n)
  BY EndTagsGo
<1>6. z.content.state \in Hidden => Over(z) \/ (Within(z) /\ Reading(z))
  BY <1>4, ReadingCases
<1> HIDE DEF n
<1>7. Contents(n) /\ Sections(n)
  BY <1>1, <1>2, <1>3, <1>5, <1>6, BothGo
<1>8. QED BY <1>7 DEF n

\* Scripts.
LEMMA ScriptLeaves ==
  ASSUME NEW z, Ready(z), Contents(z), Sections(z), z.state \in Scripts
  PROVE  LET n == Advanced(LexScript(z, Current(z))) IN Contents(n) /\ Sections(n)
<1> DEFINE n == Advanced(LexScript(z, Current(z)))
<1>1. Kept(n)
  BY LexScriptKept
<1>2. Outcome(z, n)
  <2>1. /\ Called(z) /\ z.pos \in 1 .. Len(text) + 1 /\ text \in Seq(Symbols)
        /\ z.state \in MayBeText => z.mark \in 1 .. z.pos - 1 /\ z.start <= z.mark
    BY ReadyCalled DEF Ready
  <2>2. QED BY <2>1, ScriptsEnd
<1>3. z.state \notin CDatas
  BY DEF Scripts, CDatas
<1>4. ~InEndTag(z)
  BY DEF Scripts, InEndTag, InTag, BuildsTag, NamesEndTag, Attributes, References
<1>5. Within(z) /\ Reading(z) => Onward(n)
  <2>1. CASE z.state \in Plain
    BY <2>1, ScriptsEmit
  <2>2. CASE z.state \notin Plain
    BY <2>2, EscapedTagsGo
  <2>3. QED BY <2>1, <2>2
<1>6. z.content.state \in Hidden => Over(z) \/ (Within(z) /\ Reading(z))
  BY <1>4, ReadingCases
<1> HIDE DEF n
<1>7. Contents(n) /\ Sections(n)
  BY <1>1, <1>2, <1>3, <1>5, <1>6, BothGo
<1>8. QED BY <1>7 DEF n

\* The states of the contents are none of a tag.
LEMMA WithinWhere ==
  ASSUME NEW z, Within(z), z.content.state \in Hidden
  PROVE  z.state \in Texts \cup EndTags \cup Scripts
         \/ (z.state \in References /\ z.return = "RCDATA")
<1>1. Emitting(z.content.state) \subseteq Texts \cup Scripts
  BY DEF Emitting, Texts, Hidden
<1>2. Marking(z.content.state) \subseteq EndTags \cup Scripts
  BY DEF Marking, EndTags, Scripts, Hidden
<1>3. QED BY <1>1, <1>2 DEF Within

\* Tags.
LEMMA TagLeaves ==
  ASSUME NEW z, Ready(z), Contents(z), Sections(z), z.state \in Tags
  PROVE  LET n == Advanced(LexTag(z, Current(z))) IN Contents(n) /\ Sections(n)
<1> DEFINE n == Advanced(LexTag(z, Current(z)))
<1>1. Kept(n)
  BY LexTagKept
<1>2. /\ Called(z) /\ z.pos \in 1 .. Len(text) + 1 /\ text \in Seq(Symbols)
      /\ z.state \in MayBeText => z.mark \in 1 .. z.pos - 1 /\ z.start <= z.mark
      /\ DOMAIN z.tag = TagFields
  BY ReadyCalled DEF Ready, Kept, Shape
<1>3. Outcome(z, n)
  <2>1. z.state \in {"TAG_OPEN", "END_TAG_OPEN"} => z.state \in MayBeText
    BY DEF MayBeText
  <2>2. QED BY <1>2, <2>1, TagsEnd
<1>4. z.state \notin CDatas
  BY DEF Tags, CDatas, Attributes
<1>5. ~Within(z) \/ z.content.state \notin Hidden
  <2>1. Tags \cap (Texts \cup EndTags \cup Scripts \cup References) = {}
    BY DEF Tags, Attributes, Texts, EndTags, Scripts, References
  <2>2. QED BY <2>1, WithinWhere
<1>6. ASSUME InEndTag(z) PROVE Onward(n)
  <2>1. z.state \in Attributes /\ z.tag.is_start = FALSE
    <3>1. Tags \cap References = {}
      BY DEF Tags, Attributes, References
    <3>2. Tags \cap BuildsTag \subseteq Attributes \cup {"TAG_NAME"} \cup NamesEndTag
      BY DEF Tags, BuildsTag, NamesEndTag
    <3>3. QED BY <1>6, <3>1, <3>2 DEF InEndTag, InTag
  <2>2. TagOutcome(z, n)
    BY <1>2, <2>1, AttributesEnd
  <2> HIDE DEF n
  <2>3. QED BY <1>1, <1>3, <1>6, <2>2, EndTagGoes
<1>7. z.content.state \in Hidden => Over(z) \/ InEndTag(z)
  BY <1>5, ReadingCases
<1> HIDE DEF n
<1>8. Contents(n) /\ Sections(n)
  BY <1>1, <1>3, <1>4, <1>6, <1>7, BothGo
<1>9. QED BY <1>8 DEF n

\* Comments.
LEMMA CommentLeaves ==
  ASSUME NEW z, Ready(z), Contents(z), Sections(z), z.state \in Comments
  PROVE  LET n == Advanced(LexComment(z, Current(z))) IN Contents(n) /\ Sections(n)
<1> DEFINE n == Advanced(LexComment(z, Current(z)))
<1>1. Kept(n)
  BY LexCommentKept
<1>2. CASE z.state = "MARKUP_DECLARATION_OPEN"
  BY <1>1, <1>2, DeclarationGoes
<1>3. CASE z.state # "MARKUP_DECLARATION_OPEN"
  <2>1. z.state \in InComment
    BY <1>3 DEF InComment
  <2>2. Outcome(z, n)
    BY <2>1, ReadyCalled, CommentsEnd
  <2>3. z.state \notin Texts \cup EndTags \cup Scripts \cup References \cup Attributes \cup CDatas
    BY DEF Comments, Texts, EndTags, Scripts, References, Attributes, CDatas
  <2>4. z.content.state \in Hidden => Over(z)
    BY <2>3, Elsewhere
  <2> HIDE DEF n
  <2>5. Contents(n) /\ Sections(n)
    BY <1>1, <2>2, <2>3, <2>4, BothGo
  <2>6. QED BY <2>5 DEF n
<1>4. QED BY <1>2, <1>3

\* Doctypes.
LEMMA DoctypeLeaves ==
  ASSUME NEW z, Ready(z), Contents(z), Sections(z), z.state \in Doctypes
  PROVE  LET n == Advanced(LexDoctype(z, Current(z))) IN Contents(n) /\ Sections(n)
<1> DEFINE n == Advanced(LexDoctype(z, Current(z)))
<1>1. Kept(n)
  BY LexDoctypeKept
<1>2. Outcome(z, n)
  BY ReadyCalled, DoctypesEnd
<1>3. z.state \notin Texts \cup EndTags \cup Scripts \cup References \cup Attributes \cup CDatas
  BY DEF Doctypes, Texts, EndTags, Scripts, References, Attributes, CDatas
<1>4. z.content.state \in Hidden => Over(z)
  BY <1>3, Elsewhere
<1> HIDE DEF n
<1>5. Contents(n) /\ Sections(n)
  BY <1>1, <1>2, <1>3, <1>4, BothGo
<1>6. QED BY <1>5 DEF n

\* References.
LEMMA ReferenceLeaves ==
  ASSUME NEW z, Ready(z), Contents(z), Sections(z), z.state \in References
  PROVE  LET n == Advanced(LexReference(z, Current(z))) IN Contents(n) /\ Sections(n)
<1> DEFINE n == Advanced(LexReference(z, Current(z)))
<1>1. Kept(n)
  BY LexReferenceKept
<1>2. RefOutcome(z, n)
  BY ReferencesEnd
<1>3. z.state \notin CDatas /\ z.state \notin BuildsTag
  BY DEF References, CDatas, BuildsTag, Attributes, NamesEndTag
<1> HIDE DEF n
<1>4. Outcome(z, n)
  BY <1>2 DEF RefOutcome
<1>5. ASSUME InEndTag(z) PROVE Onward(n)
  <2>1. z.return \in InValue
    BY <1>3, <1>5 DEF InEndTag, InTag
  <2>2. TagOutcome(z, n)
    BY <1>2, <2>1 DEF RefOutcome
  <2>3. QED BY <1>1, <1>4, <1>5, <2>2, EndTagGoes
<1>6. Within(z) /\ Reading(z) => Onward(n)
  BY <1>1, <1>2, ReferencesGo
<1>7. z.content.state \in Hidden => Over(z) \/ Onward(n)
  BY <1>5, <1>6, ReadingCases
<1>8. Contents(n) /\ Sections(n)
  BY <1>1, <1>3, <1>4, <1>7, BothGo
<1>9. QED BY <1>8 DEF n

(* ------------------------------- Every step -------------------------------- *)

\* What is said of the contents and the sections is said of the next state.
LEMMA ContentSame ==
  ASSUME NEW r, t' = r, text' = text
  PROVE  (Contents(t)' <=> Contents(r)) /\ (Sections(t)' <=> Sections(r))
<1>1. \A word, k : (IsAt(word, k)' <=> IsAt(word, k)) /\ (Ends(word, k)' <=> Ends(word, k))
  BY DEF IsAt, Ends
<1>2. \A from, k : InEscaped(from, k)' <=> InEscaped(from, k)
  BY <1>1 DEF InEscaped
<1>3. \A from, k : InDouble(from, k)' <=> InDouble(from, k)
  BY <1>1, <1>2 DEF InDouble
<1>4. \A c, k : EndsContents(c, k)' <=> EndsContents(c, k)
  BY <1>1, <1>3 DEF EndsContents
<1>5. \A c, p : OpenUpTo(c, p)' <=> OpenUpTo(c, p)
  BY <1>4 DEF OpenUpTo
<1>6. \A k : SymbolAt(k)' = SymbolAt(k)
  BY DEF SymbolAt
<1>7. \A word, lo, p : Spells(word, lo, p)' <=> Spells(word, lo, p)
  BY <1>6 DEF Spells, IsSeq
<1>8. \A from, p, state, tmp : Escapes(from, p, state, tmp)' <=> Escapes(from, p, state, tmp)
  BY <1>1, <1>2, <1>3, <1>6, <1>7 DEF Escapes
<1>9. Marks_(t)' <=> Marks_(r)
  BY <1>3, <1>5, <1>6, <1>7 DEF Marks_
<1>10. ReadTo(t)' = ReadTo(r)
  BY DEF ReadTo
<1>11. Within(t)' <=> Within(r)
  BY <1>5, <1>8, <1>9, <1>10 DEF Within
<1>12. InEndTag(t)' <=> InEndTag(r)
  BY <1>4, <1>5 DEF InEndTag, InTag
<1>13. Over(t)' <=> Over(r)
  BY <1>4 DEF Over
<1>14. \A c : ContentEnd(c)' = ContentEnd(c)
  BY <1>1, <1>3 DEF ContentEnd
<1>15. LiesRight(t)' <=> LiesRight(r)
  BY <1>14 DEF LiesRight
<1>16. Contents(t)' <=> Contents(r)
  BY <1>11, <1>12, <1>13, <1>15 DEF Contents, Announced, Ended
<1>17. \A lo, p : NoSectionEnd(lo, p)' <=> NoSectionEnd(lo, p)
  BY <1>1 DEF NoSectionEnd
<1>18. \A b : SectionAt(b)' <=> SectionAt(b)
  BY <1>1 DEF SectionAt
<1>19. Section(t)' <=> Section(r)
  BY <1>10, <1>17, <1>18 DEF Section
<1>20. \A token : SectionToken(token)' <=> SectionToken(token)
  BY <1>17, <1>18 DEF SectionToken
<1>21. Sections(t)' <=> Sections(r)
  BY <1>19, <1>20 DEF Sections, Ended
<1>22. QED BY <1>16, <1>21

\* A handler is called when all before the mark is emitted again.
LEMMA LexingContents ==
  ASSUME Inv, ContentInv, NEW states, Lexing(states)
  PROVE  Contents(Lex(t)) /\ Sections(Lex(t))
<1> DEFINE s == Lex(t)
<1>1. DOMAIN t = StateFields /\ t.emitted = FALSE /\ t.pos \in Nat /\ t.resume \in Nat
  BY DEF Inv, Kept, Shape, Lexing, Places
<1>2. /\ DOMAIN s = StateFields /\ s.resume = 0
      /\ s.pos = t.pos /\ s.mark = t.mark /\ s.start = t.start
      /\ s.state = t.state /\ s.return = t.return /\ s.cdata = t.cdata /\ s.last = t.last
      /\ s.buffered = t.buffered /\ s.tmp = t.tmp /\ s.tag = t.tag
      /\ s.out = t.out /\ s.emitted = t.emitted /\ s.content = t.content
  BY <1>1 DEF Lex, StateFields
<1>3. ReadTo(s) = ReadTo(t)
  <2>1. t.resume # 0 => t.pos = t.resume
    BY <1>1 DEF ContentInv, Contents, Lexing
  <2>2. QED BY <1>2, <2>1 DEF ReadTo
<1> HIDE DEF s
<1>4. Within(t) => Within(s)
  BY <1>2, <1>3 DEF Within, Marks_
<1>5. (InEndTag(t) => InEndTag(s)) /\ (Over(t) => Over(s)) /\ LiesRight(s) /\ Announced(s)
  BY <1>1, <1>2 DEF InEndTag, InTag, Over, LiesRight, Announced
<1>6. Contents(s)
  BY <1>1, <1>2, <1>4, <1>5 DEF ContentInv, Contents
<1>7. Section(t) => Section(s)
  BY <1>2, <1>3 DEF Section
<1>8. Sections(s)
  BY <1>1, <1>2, <1>7 DEF ContentInv, Sections
<1>9. QED BY <1>6, <1>8 DEF s

\* Between two handlers gumbo_lex emits again what was read as something else.
LEMMA EmittedAgain ==
  ASSUME Inv, ContentInv, t.emitted = FALSE, Steady(t),
         NEW r, r.content = t.content, r.last = t.last, r.state = t.state, r.return = t.return,
         r.tmp = t.tmp, r.cdata = t.cdata, r.emitted = TRUE, r.resume = t.resume,
         r.buffered = NoChar, r.start = r.pos, r.pos \in Nat, t.pos <= r.pos,
         ReadTo(r) = ReadTo(t), r.pos <= ReadTo(t), ReadTo(t) <= Len(text) + 1,
         NEW type \in Characters \cup {"EOF"}, NEW value,
         r.out = Append(t.out, Token(type, value, t.start, r.pos, t.pos)),
         type = "CDATA" => t.cdata /\ r.pos = t.pos + 1
  PROVE  Contents(r) /\ Sections(r)
<1> DEFINE c == t.content
           token == r.out[Len(r.out)]
<1>1. /\ text \in Seq(Symbols) /\ IsSeq(t.out) /\ c.from \in Nat \ {0} /\ c.from <= Len(text) + 1
      /\ t.pos \in Nat \ {0} /\ t.start = t.pos /\ ReadTo(t) \in Nat
  BY DEF Inv, Kept, History, Places, ContentInv, Contents, Steady, ReadTo
<1>2. token.type = type /\ token.to = r.pos /\ token.from = t.pos
  BY <1>1, LastToken DEF Token
<1> HIDE DEF token
<1>3. type # "START_TAG"
  BY DEF Characters
<1>4. Announced(r)
  BY <1>2, <1>3 DEF Announced, token
<1>5. r.resume # 0 => r.pos <= r.resume
  BY DEF ReadTo
<1>6. ASSUME c.state \in Hidden
      PROVE  LiesRight(r) /\ (Over(r) \/ Ended(r) \/ Within(r)) /\ Opener(c)
  <2>1. Opener(c) /\ (Over(t) \/ Within(t))
    BY <1>6 DEF ContentInv, Contents, InEndTag, Steady
  <2>2. CASE Over(t)
    <3>1. PICK k \in 1 .. t.start - 1 : EndsContents(c, k)
      BY <2>2 DEF Over
    <3>2. Over(r)
      BY <1>1, <3>1 DEF Over
    <3>3. ContentEnd(c) \in Nat /\ ContentEnd(c) <= k
      BY <1>1, <3>1, ContentEndIs
    <3>4. token.from > ContentEnd(c)
      BY <1>1, <1>2, <3>1, <3>3
    <3>5. LiesRight(r)
      BY <3>4 DEF LiesRight, token
    <3>6. QED BY <2>1, <3>2, <3>5
  <2>3. CASE Within(t)
    <3>1. t.state \in Plain \cup {"AMBIGUOUS_AMPERSAND"}
      BY DEF Steady
    <3>2. t.state \notin Marking(c.state)
      <4>1. \A kind \in Hidden : (Plain \cup {"AMBIGUOUS_AMPERSAND"}) \cap Marking(kind) = {}
        BY DEF Plain, Texts, Marking, Hidden
      <4>2. QED BY <1>6, <3>1, <4>1
    <3>3. /\ t.last = c.name /\ c.from <= t.start /\ OpenUpTo(c, ReadTo(t))
          /\ \/ t.state \in Emitting(c.state)
             \/ c.state = "RCDATA" /\ t.state \in References /\ t.return = "RCDATA"
          /\ c.state = "SCRIPT_DATA" => Escapes(c.from, ReadTo(t), t.state, t.tmp)
      BY <2>3, <3>2 DEF Within
    <3>4. c.from <= r.start
      BY <1>1, <3>3
    <3>5. Within(r)
      BY <3>3, <3>4 DEF Within
    <3>6. LiesRight(r)
      <4>1. OpenUpTo(c, r.pos)
        BY <1>1, <3>3 DEF OpenUpTo
      <4>2. r.pos <= Len(text) + 1
        BY <1>1
      <4>3. r.pos <= ContentEnd(c)
        BY <1>1, <4>1, <4>2, OpenEnd
      <4>4. QED BY <1>2, <4>3 DEF LiesRight, token
    <3>7. QED BY <2>1, <3>5, <3>6
  <2>4. QED BY <2>1, <2>2, <2>3
<1>7. Contents(r)
  <2>1. c.state \notin Hidden => LiesRight(r)
    BY DEF LiesRight
  <2>2. QED BY <1>1, <1>4, <1>5, <1>6, <2>1 DEF Contents
<1>8. ASSUME t.cdata
      PROVE  /\ t.cdata = TRUE /\ t.state = "CDATA_SECTION"
             /\ \E b \in 1 .. t.pos : /\ SectionAt(b) /\ b + 3 <= t.pos
                                      /\ NoSectionEnd(b + 3, ReadTo(t))
  <2>1. t.cdata = TRUE /\ t.state \in CDatas /\ Section(t)
    BY <1>8 DEF ContentInv, Sections
  <2>2. t.state = "CDATA_SECTION"
    BY <2>1 DEF CDatas, Steady, Plain, Texts, Scripts
  <2>3. QED BY <2>1, <2>2 DEF Section
<1>9. type = "CDATA" =>
        \E b \in 1 .. t.pos : SectionAt(b) /\ b + 2 < t.pos /\ NoSectionEnd(b + 3, t.pos + 1)
  <2>1. SUFFICES ASSUME type = "CDATA"
                 PROVE  \E b \in 1 .. t.pos :
                          SectionAt(b) /\ b + 2 < t.pos /\ NoSectionEnd(b + 3, t.pos + 1)
    OBVIOUS
  <2>2. PICK b \in 1 .. t.pos : /\ SectionAt(b) /\ b + 3 <= t.pos
                                /\ NoSectionEnd(b + 3, ReadTo(t))
    BY <1>8, <2>1
  <2>3. t.pos + 1 <= ReadTo(t)
    BY <1>1, <2>1
  <2>4. NoSectionEnd(b + 3, t.pos + 1)
    BY <1>1, <2>2, <2>3 DEF NoSectionEnd
  <2>5. QED BY <1>1, <2>2, <2>4
<1>10. \A i \in DOMAIN r.out : SectionToken(r.out[i])
  <2> DEFINE new == Token(type, value, t.start, r.pos, t.pos)
  <2>1. SectionToken(new)
    BY <1>1, <1>9 DEF Token, SectionToken
  <2> HIDE DEF new
  <2>2. r.out = Append(t.out, new) /\ \A i \in DOMAIN t.out : SectionToken(t.out[i])
    BY DEF new, ContentInv, Sections
  <2>3. QED BY <1>1, <2>1, <2>2, AppendSeq
<1>11. r.cdata => r.state \in CDatas /\ Section(r)
  <2>1. SUFFICES ASSUME t.cdata PROVE r.state \in CDatas /\ Section(r)
    OBVIOUS
  <2>2. t.state = "CDATA_SECTION"
    BY <1>8, <2>1
  <2>3. PICK b \in 1 .. t.pos : /\ SectionAt(b) /\ b + 3 <= t.pos
                                /\ NoSectionEnd(b + 3, ReadTo(t))
    BY <1>8, <2>1
  <2>4. b \in 1 .. r.pos /\ b + 3 <= r.pos
    BY <1>1, <2>3
  <2>5. Section(r)
    BY <2>2, <2>3, <2>4 DEF Section
  <2>6. QED BY <2>2, <2>5 DEF CDatas
<1>12. Sections(r)
  BY <1>10, <1>11 DEF Sections, ContentInv
<1>13. QED BY <1>7, <1>12

\* gumbo_lex emits again from the mark.
LEMMA FromMarkContent ==
  ASSUME Inv, ContentInv, FromMark
  PROVE  ContentInv'
<1> DEFINE c == Current(t)
           r == emit_char(t, c)
           type == get_char_token_type(t.cdata, c)
<1>1. /\ Kept(t) /\ Steady(t) /\ t.reconsume = FALSE /\ t.emitted = FALSE /\ t.buffered = NoChar
      /\ DOMAIN t = StateFields /\ t.pos \in Nat \ {0} /\ t.resume \in Nat
      /\ t.resume <= Len(text) + 1 /\ t.resume # 0 /\ t.pos < t.resume /\ text \in Seq(Symbols)
  BY DEF Inv, Kept, Between, FromMark, Shape, Places
<1>2. t' = r /\ text' = text
  <2>1. ~(t.pos >= t.resume)
    BY <1>1
  <2>2. t' = maybe_emit_from_mark(t) /\ text' = text
    BY DEF FromMark
  <2>3. assert(t, ~t.reconsume) = t
    BY <1>1 DEF assert
  <2>4. maybe_emit_from_mark(t) = emit_char(t, c)
    BY <1>1, <2>1, <2>3 DEF maybe_emit_from_mark
  <2>5. QED BY <2>2, <2>4
<1>3. Tells(t, r, type, c) /\ r.last = t.last /\ r.tmp = t.tmp
  BY <1>1, CharTells
<1>4. type \in Characters \cup {"EOF"} /\ (type = "CDATA" => t.cdata)
  BY CharacterTypes DEF get_char_token_type
<1> HIDE DEF r, type, c
<1>5. Behind(t) = t.pos + 1
  BY <1>1 DEF Behind
<1>6. /\ r.content = t.content /\ r.state = t.state /\ r.return = t.return
      /\ r.cdata = t.cdata /\ r.emitted = TRUE /\ r.resume = t.resume /\ r.buffered = NoChar
      /\ r.start = r.pos /\ r.pos = t.pos + 1
      /\ r.out = Append(t.out, Token(type, c, t.start, r.pos, t.pos))
  BY <1>1, <1>3, <1>5 DEF Tells
<1>7. ReadTo(r) = t.resume /\ ReadTo(t) = t.resume
  BY <1>1, <1>6 DEF ReadTo
<1>8. /\ r.pos \in Nat /\ t.pos <= r.pos /\ r.pos <= ReadTo(t) /\ ReadTo(r) = ReadTo(t)
      /\ ReadTo(t) <= Len(text) + 1
  BY <1>1, <1>6, <1>7
<1>9. Contents(r) /\ Sections(r)
  BY <1>1, <1>3, <1>4, <1>6, <1>8, EmittedAgain
<1>10. QED BY <1>2, <1>9, ContentSame DEF ContentInv

\* gumbo_lex emits the second character of a reference.
LEMMA BufferedContent ==
  ASSUME Inv, ContentInv, BufferedCharacter
  PROVE  ContentInv'
<1> DEFINE x == [t EXCEPT !.reconsume = TRUE]
           c == t.buffered
           type == get_char_token_type(x.cdata, c)
           e == emit_char(x, c)
           r == [e EXCEPT !.reconsume = FALSE, !.buffered = NoChar]
<1>1. /\ Kept(t) /\ Steady(t) /\ t.emitted = FALSE /\ t.buffered # NoChar
      /\ DOMAIN t = StateFields /\ t.pos \in Nat \ {0} /\ t.resume \in Nat
      /\ t.resume <= Len(text) + 1 /\ t.pos <= Len(text) + 1 /\ text \in Seq(Symbols)
      /\ t' = r /\ text' = text
  BY DEF Inv, Kept, Between, BufferedCharacter, Shape, Places
<1>2. t.cdata = FALSE /\ (t.resume # 0 => t.pos <= t.resume)
  BY <1>1 DEF ContentInv, Contents, Sections
<1>3. /\ DOMAIN x = StateFields /\ x.reconsume = TRUE /\ x.content = t.content
      /\ x.cdata = t.cdata /\ x.resume = t.resume /\ x.state = t.state
      /\ x.return = t.return /\ x.pos = t.pos /\ x.start = t.start /\ x.out = t.out
      /\ x.last = t.last /\ x.tmp = t.tmp
  BY <1>1 DEF StateFields
<1> HIDE DEF x, c
<1>4. Tells(x, e, type, c) /\ e.last = x.last /\ e.tmp = x.tmp
  BY <1>3, CharTells
<1>5. type \in Characters \cup {"EOF"} /\ type # "CDATA"
  BY <1>2, <1>3, CharacterTypes DEF get_char_token_type
<1> HIDE DEF e, type
<1>6. Behind(x) = x.pos
  BY <1>3 DEF Behind
<1>7. /\ e.content = t.content /\ e.state = t.state /\ e.return = t.return
      /\ e.cdata = t.cdata /\ e.emitted = TRUE /\ e.resume = t.resume /\ e.start = e.pos
      /\ e.pos = t.pos /\ e.out = Append(t.out, Token(type, c, t.start, e.pos, t.pos))
      /\ e.last = t.last /\ e.tmp = t.tmp /\ DOMAIN e = StateFields
  BY <1>3, <1>4, <1>6 DEF Tells
<1>8. /\ r.content = t.content /\ r.state = t.state /\ r.return = t.return
      /\ r.cdata = t.cdata /\ r.emitted = TRUE /\ r.resume = t.resume /\ r.start = r.pos
      /\ r.pos = t.pos /\ r.out = Append(t.out, Token(type, c, t.start, r.pos, t.pos))
      /\ r.last = t.last /\ r.tmp = t.tmp /\ r.buffered = NoChar
  BY <1>7 DEF StateFields
<1>9. t' = r /\ text' = text
  BY <1>1
<1> HIDE DEF r
<1>10. /\ r.pos \in Nat /\ t.pos <= r.pos /\ r.pos <= ReadTo(t) /\ ReadTo(r) = ReadTo(t)
       /\ ReadTo(t) <= Len(text) + 1
  BY <1>1, <1>2, <1>8 DEF ReadTo
<1>11. Contents(r) /\ Sections(r)
  BY <1>1, <1>5, <1>8, <1>10, EmittedAgain
<1>12. QED BY <1>9, <1>11, ContentSame DEF ContentInv

\* The contents of an element begin.
LEMMA ContentBegins ==
  ASSUME NEW c, c.state \in Hidden, c.from \in 1 .. Len(text) + 1, Opener(c), text \in Seq(Symbols),
         NEW r, r.content = c, r.state = c.state, r.last = c.name, r.resume = 0,
         r.pos = c.from, r.start = c.from, r.emitted = FALSE
  PROVE  Contents(r)
<1>1. c.from .. c.from - 1 = {} /\ ReadTo(r) = c.from
  BY DEF ReadTo
<1>2. OpenUpTo(c, c.from)
  BY <1>1 DEF OpenUpTo
<1>3. c.state \in Emitting(c.state)
  BY DEF Emitting, Hidden
<1>4. ASSUME c.state = "SCRIPT_DATA" PROVE Escapes(c.from, c.from, c.state, r.tmp)
  <2>1. ~InEscaped(c.from, c.from)
    BY <1>1 DEF InEscaped
  <2>2. \A i \in c.from .. c.from - 1 : c.from <= i + 3 => ~IsAt(Comments_, i)
    BY <1>1
  <2>3. c.state \notin Once \cup Twice \cup NoDash \cup OneDash \cup TwoDashes
    BY <1>4 DEF Once, Outside, Twice, NoDash, OneDash, TwoDashes
  <2>4. QED BY <1>4, <2>1, <2>2, <2>3 DEF Escapes
<1>5. Within(r)
  BY <1>1, <1>2, <1>3, <1>4 DEF Within
<1>6. QED BY <1>5 DEF Contents, Announced, LiesRight

\* Tree construction sets the state after a start tag, and otherwise lets it be.
LEMMA ConstructContent ==
  ASSUME Inv, ContentInv, Construct
  PROVE  ContentInv'
<1> DEFINE token == t.out[Len(t.out)]
           name == token.value.name
<1>1. /\ Kept(t) /\ t.emitted = TRUE /\ ~Ended(t) /\ Steady(t) /\ DOMAIN t = StateFields
      /\ t.pos \in 1 .. Len(text) + 1 /\ t.start = t.pos /\ text \in Seq(Symbols)
  BY DEF Inv, Kept, Between, Construct, Done, Ended, Shape, Places, Steady
<1>2. PICK state, foreign, content :
        /\ t' = [t EXCEPT !.emitted = FALSE, !.state = state, !.foreign = foreign,
                          !.content = content]
        /\ text' = text
        /\ token.type = "START_TAG" =>
             /\ state \in {t.state, ContentState(name)}
             /\ content = [from |-> t.pos, state |-> state, name |-> t.last]
        /\ token.type # "START_TAG" => state = t.state /\ content = t.content
  <2> DEFINE states == {t.state} \cup (IF token.type = "START_TAG" THEN {ContentState(name)} ELSE {})
             svg == {t.foreign} \cup (IF token.type \in {"START_TAG", "END_TAG"} /\ <<"svg">> = name
                                      THEN {token.type = "START_TAG"} ELSE {})
             went(state, foreign) ==
               t' = [t EXCEPT !.emitted = FALSE, !.state = state, !.foreign = foreign,
                              !.content = IF token.type = "START_TAG"
                                          THEN [from |-> t.pos, state |-> state, name |-> t.last]
                                          ELSE @]
  <2>1. text' = text
    BY DEF Construct
  <2>2. \E state \in states, foreign \in svg : went(state, foreign)
    BY Zenon DEF Construct
  <2> HIDE DEF went
  <2>3. PICK state \in states, foreign \in svg : went(state, foreign)
    BY <2>2
  <2> USE DEF went
  <2> DEFINE content == IF token.type = "START_TAG"
                        THEN [from |-> t.pos, state |-> state, name |-> t.last]
                        ELSE t.content
             next == [t EXCEPT !.emitted = FALSE, !.state = state, !.foreign = foreign,
                               !.content = content]
  <2>4. t' = next
    BY <1>1, <2>3 DEF StateFields
  <2>5. /\ token.type = "START_TAG" =>
             /\ state \in {t.state, ContentState(name)}
             /\ content = [from |-> t.pos, state |-> state, name |-> t.last]
        /\ token.type # "START_TAG" => state = t.state /\ content = t.content
    BY <2>3
  <2> HIDE DEF states, token, name, content
  <2>6. QED BY <2>1, <2>4, <2>5
<1> DEFINE r == [t EXCEPT !.emitted = FALSE, !.state = state, !.foreign = foreign,
                          !.content = content]
<1>3. /\ DOMAIN r = StateFields /\ r.emitted = FALSE /\ r.state = state /\ r.content = content
      /\ r.pos = t.pos /\ r.mark = t.mark /\ r.resume = t.resume /\ r.start = t.start
      /\ r.return = t.return /\ r.buffered = t.buffered /\ r.cdata = t.cdata
      /\ r.tmp = t.tmp /\ r.tag = t.tag /\ r.out = t.out /\ r.last = t.last
  BY <1>1 DEF StateFields
<1>4. t' = r /\ text' = text
  BY <1>2
<1> HIDE DEF r, token, name
<1>5. ~InEndTag(t)
  BY <1>1 DEF InEndTag, Steady
<1>6. LiesRight(r) /\ Announced(r)
  BY <1>3 DEF LiesRight, Announced
<1>7. CASE token.type = "START_TAG"
  <2>1. t.state = "DATA" /\ t.resume = 0 /\ t.last = Tag(name)
    BY <1>1, <1>7 DEF ContentInv, Contents, Announced, token, name
  <2>2. t.cdata = FALSE
    BY <2>1 DEF ContentInv, Sections, CDatas
  <2>3. Sections(r)
    BY <1>3, <2>2 DEF ContentInv, Sections
  <2>4. content.state = state /\ content.from = t.pos /\ content.name = t.last
    BY <1>2, <1>7
  <2>5. CASE state \in Hidden
    <3>1. state = ContentState(name)
      BY <1>2, <1>7, <2>1, <2>5 DEF Hidden
    <3>2. name \in {<<"title">>, <<"style">>, <<"script">>}
      BY <2>5, <3>1, Zenon DEF ContentState, Hidden
    <3>3. Tag(name) = name
      BY <3>2, Zenon DEF Tag
    <3>4. Opener(content)
      BY <2>1, <2>4, <3>1, <3>2, <3>3 DEF Opener
    <3>5. Contents(r)
      BY <1>1, <1>3, <2>1, <2>4, <2>5, <3>4, ContentBegins
    <3>6. QED BY <1>4, <2>3, <3>5, ContentSame DEF ContentInv
  <2>6. CASE state \notin Hidden
    <3>1. Contents(r)
      BY <1>1, <1>3, <1>6, <2>1, <2>4, <2>6 DEF Contents
    <3>2. QED BY <1>4, <2>3, <3>1, ContentSame DEF ContentInv
  <2>7. QED BY <2>5, <2>6
<1>8. CASE token.type # "START_TAG"
  <2>1. r.state = t.state /\ r.content = t.content /\ ReadTo(r) = ReadTo(t)
    BY <1>2, <1>3, <1>8 DEF ReadTo
  <2>2. Within(t) => Within(r)
    BY <1>3, <2>1 DEF Within, Marks_
  <2>3. Over(t) => Over(r)
    BY <1>3, <2>1 DEF Over
  <2>4. Contents(r)
    BY <1>1, <1>3, <1>5, <1>6, <2>1, <2>2, <2>3 DEF ContentInv, Contents
  <2>5. Section(t) => Section(r)
    BY <1>3, <2>1 DEF Section
  <2>6. Sections(r)
    BY <1>1, <1>3, <2>1, <2>5 DEF ContentInv, Sections
  <2>7. QED BY <1>4, <2>4, <2>6, ContentSame DEF ContentInv
<1>9. QED BY <1>7, <1>8

\* The tokenizer starts in the contents of an element that no tag has opened.
LEMMA InitContent == Init => ContentInv
<1>1. SUFFICES ASSUME Init PROVE ContentInv
  OBVIOUS
<1>2. PICK state \in Texts :
        t = [gumbo_tokenizer_state_init EXCEPT !.state = state, !.content.state = state]
  BY <1>1 DEF Init, InitWith
<1>3. /\ t.pos = 1 /\ t.start = 1 /\ t.resume = 0 /\ t.state = state /\ t.last = <<>>
      /\ t.content.from = 1 /\ t.content.state = state /\ t.content.name = <<>>
      /\ t.out = <<>> /\ t.emitted = FALSE /\ t.cdata = FALSE /\ t.buffered = NoChar
  BY <1>2 DEF gumbo_tokenizer_state_init
<1>4. text \in Seq(Symbols) /\ 1 \in 1 .. Len(text) + 1
  BY <1>1 DEF Init, InitWith
<1>5. Contents(t)
  <2>1. CASE state \in Hidden
    BY <1>3, <1>4, <2>1, ContentBegins DEF Opener
  <2>2. CASE state \notin Hidden
    BY <1>3, <1>4, <2>2 DEF Contents, Announced, LiesRight
  <2>3. QED BY <2>1, <2>2
<1>6. Sections(t)
  <2>1. DOMAIN <<>> = {}
    OBVIOUS
  <2>2. QED BY <1>3, <2>1 DEF Sections
<1>7. QED BY <1>5, <1>6 DEF ContentInv

\* a step of a handler
LEMMA StepContent ==
  ASSUME NEW handled, Step(handled), Contents(Advanced(handled)), Sections(Advanced(handled))
  PROVE  ContentInv'
<1> DEFINE r == Advanced(handled)
<1>1. t' = r /\ text' = text
  BY DEF Step
<1>2. Contents(r) /\ Sections(r)
  OBVIOUS
<1> HIDE DEF r
<1>3. QED BY <1>1, <1>2, ContentSame DEF ContentInv

\* Every step keeps what the state says of the contents and the sections.
LEMMA NextContent == Inv /\ ContentInv /\ [Next]_vars => ContentInv'
<1>1. SUFFICES ASSUME Inv, ContentInv, [Next]_vars PROVE ContentInv'
  OBVIOUS
<1> DEFINE s == Lex(t)
<1>2. CASE BufferedCharacter
  BY <1>1, <1>2, BufferedContent
<1>3. CASE FromMark
  BY <1>1, <1>3, FromMarkContent
<1>4. ASSUME NEW states, Lexing(states)
      PROVE  Ready(s) /\ s.state \in states /\ Current(s) = Current(t) /\ Contents(s) /\ Sections(s)
  BY <1>1, <1>4, LexingReady, LexingContents
<1>5. CASE Text
  <2>1. Lexing(Texts) /\ Step(LexText(s, Current(t)))
    BY <1>5 DEF Text
  <2>2. Ready(s) /\ s.state \in Texts /\ Current(s) = Current(t) /\ Contents(s) /\ Sections(s)
    BY <1>4, <2>1
  <2> HIDE DEF s
  <2>3. Contents(Advanced(LexText(s, Current(t)))) /\ Sections(Advanced(LexText(s, Current(t))))
    BY <2>2, TextLeaves
  <2>4. QED BY <2>1, <2>3, StepContent
<1>6. CASE EndTag
  <2>1. Lexing(EndTags) /\ Step(LexEndTag(s, Current(t)))
    BY <1>6 DEF EndTag
  <2>2. Ready(s) /\ s.state \in EndTags /\ Current(s) = Current(t) /\ Contents(s) /\ Sections(s)
    BY <1>4, <2>1
  <2> HIDE DEF s
  <2>3. Contents(Advanced(LexEndTag(s, Current(t)))) /\ Sections(Advanced(LexEndTag(s, Current(t))))
    BY <2>2, EndTagPartLeaves
  <2>4. QED BY <2>1, <2>3, StepContent
<1>7. CASE Script
  <2>1. Lexing(Scripts) /\ Step(LexScript(s, Current(t)))
    BY <1>7 DEF Script
  <2>2. Ready(s) /\ s.state \in Scripts /\ Current(s) = Current(t) /\ Contents(s) /\ Sections(s)
    BY <1>4, <2>1
  <2> HIDE DEF s
  <2>3. Contents(Advanced(LexScript(s, Current(t)))) /\ Sections(Advanced(LexScript(s, Current(t))))
    BY <2>2, ScriptLeaves
  <2>4. QED BY <2>1, <2>3, StepContent
<1>8. CASE TagPart
  <2>1. Lexing(Tags) /\ Step(LexTag(s, Current(t)))
    BY <1>8 DEF TagPart
  <2>2. Ready(s) /\ s.state \in Tags /\ Current(s) = Current(t) /\ Contents(s) /\ Sections(s)
    BY <1>4, <2>1
  <2> HIDE DEF s
  <2>3. Contents(Advanced(LexTag(s, Current(t)))) /\ Sections(Advanced(LexTag(s, Current(t))))
    BY <2>2, TagLeaves
  <2>4. QED BY <2>1, <2>3, StepContent
<1>9. CASE Comment
  <2>1. Lexing(Comments) /\ Step(LexComment(s, Current(t)))
    BY <1>9 DEF Comment
  <2>2. Ready(s) /\ s.state \in Comments /\ Current(s) = Current(t) /\ Contents(s) /\ Sections(s)
    BY <1>4, <2>1
  <2> HIDE DEF s
  <2>3. Contents(Advanced(LexComment(s, Current(t)))) /\ Sections(Advanced(LexComment(s, Current(t))))
    BY <2>2, CommentLeaves
  <2>4. QED BY <2>1, <2>3, StepContent
<1>10. CASE Doctype
  <2>1. Lexing(Doctypes) /\ Step(LexDoctype(s, Current(t)))
    BY <1>10 DEF Doctype
  <2>2. Ready(s) /\ s.state \in Doctypes /\ Current(s) = Current(t) /\ Contents(s) /\ Sections(s)
    BY <1>4, <2>1
  <2> HIDE DEF s
  <2>3. Contents(Advanced(LexDoctype(s, Current(t)))) /\ Sections(Advanced(LexDoctype(s, Current(t))))
    BY <2>2, DoctypeLeaves
  <2>4. QED BY <2>1, <2>3, StepContent
<1>11. CASE CData
  <2>1. Lexing(CDatas) /\ Step(LexCData(s, Current(t)))
    BY <1>11 DEF CData
  <2>2. Ready(s) /\ s.state \in CDatas /\ Current(s) = Current(t) /\ Contents(s) /\ Sections(s)
    BY <1>4, <2>1
  <2> HIDE DEF s
  <2>3. Contents(Advanced(LexCData(s, Current(t)))) /\ Sections(Advanced(LexCData(s, Current(t))))
    BY <2>2, CDataGoes
  <2>4. QED BY <2>1, <2>3, StepContent
<1>12. CASE Reference
  <2>1. Lexing(References) /\ Step(LexReference(s, Current(t)))
    BY <1>12 DEF Reference
  <2>2. Ready(s) /\ s.state \in References /\ Current(s) = Current(t) /\ Contents(s) /\ Sections(s)
    BY <1>4, <2>1
  <2> HIDE DEF s
  <2>3. Contents(Advanced(LexReference(s, Current(t)))) /\ Sections(Advanced(LexReference(s, Current(t))))
    BY <2>2, ReferenceLeaves
  <2>4. QED BY <2>1, <2>3, StepContent
<1>13. CASE Construct
  BY <1>1, <1>13, ConstructContent
<1>14. CASE UNCHANGED vars
  <2>1. t' = t /\ text' = text
    BY <1>14 DEF vars
  <2>2. QED BY <1>1, <2>1, ContentSame DEF ContentInv
<1>15. QED BY <1>1, <1>2, <1>3, <1>5, <1>6, <1>7, <1>8, <1>9, <1>10, <1>11, <1>12, <1>13, <1>14 DEF Next

\* The contents of title, style and script are text up to the first end tag of
\* theirs that a script does not escape, and a CDATA section is text up to the
\* first ]]>, whatever the text (handle_rcdata_*, handle_rawtext_*,
\* handle_script_data_*, handle_cdata_section_*_state, emit_from_mark).
THEOREM ContentAlwaysIsText == Spec => []ContentIsText
<1>1. Inv /\ ContentInv => ContentIsText
  <2>1. SUFFICES ASSUME Inv, ContentInv PROVE ContentIsText
    OBVIOUS
  <2>2. ElementContentIsText
    <3>1. LiesRight(t)
      BY <2>1 DEF ContentInv, Contents
    <3>2. QED BY <3>1 DEF LiesRight, Hidden, ElementContentIsText
  <2>3. SectionsEnd
    <3>1. SUFFICES ASSUME NEW i \in DOMAIN t.out, t.out[i].type = "CDATA"
                   PROVE  \E b \in 1 .. t.out[i].at :
                            /\ IsAt(<<"<", "!", "[CDATA[">>, b) /\ b + 2 < t.out[i].at
                            /\ \A e \in (b + 3) .. t.out[i].at : ~IsAt(<<"]", "]", ">">>, e)
      BY DEF SectionsEnd
    <3> DEFINE at == t.out[i].at
    <3>2. PICK b \in 1 .. at : SectionAt(b) /\ b + 2 < at /\ NoSectionEnd(b + 3, at + 1)
      BY <2>1, <3>1 DEF ContentInv, Sections, SectionToken
    <3> HIDE DEF at
    <3>3. \A e \in b + 3 .. (at + 1) - 1 : ~IsAt(<<"]", "]", ">">>, e)
      BY <3>2 DEF NoSectionEnd
    <3>4. at \in Int => (at + 1) - 1 = at
      OBVIOUS
    <3>5. at \in Int
      BY <2>1, <3>1 DEF ContentInv, Sections, SectionToken, at
    <3>6. QED BY <3>2, <3>3, <3>4, <3>5 DEF SectionAt, at
  <2>4. QED BY <2>2, <2>3 DEF ContentIsText
<1>2. QED BY <1>1, InitKept, NextKept, InitContent, NextContent, PTL DEF Spec
=============================================================================
