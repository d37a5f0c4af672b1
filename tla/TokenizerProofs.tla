---------------------------- MODULE TokenizerProofs ----------------------------
(* What holds of every text: the tokenizer's invariants, proved.  The record   *)
(* of the tokenizer is taken field by field, because the tokens that it holds  *)
(* have no common type.                                                        *)
EXTENDS Tokenizer, SequenceTheorems, FunctionTheorems, FiniteSetTheorems,
        WellFoundedInduction, TLAPS

\* a sequence of any elements, like the tokens, which have no common type
IsSeq(q) == \E S : q \in Seq(S)

TagFields == {"open", "listed", "buffer", "name", "attributes", "lookup", "looking", "drop",
              "is_start", "self_closing"}
DoctypeFields == {"owned", "name", "public", "system", "force_quirks", "has_public",
                  "has_system"}
StateFields == {"pos", "mark", "resume", "start", "state", "return", "reconsume", "buffered",
                "code", "foreign", "cdata", "tmp", "tag", "last", "doctype", "too_many", "out",
                "emitted", "errors", "failed", "content"}

\* attributes of different names, and not more than allowed
Differ(attributes) ==
  /\ IsSeq(attributes) /\ Len(attributes) <= MaxAttributes
  /\ \A i \in DOMAIN attributes : "name" \in DOMAIN attributes[i]
  /\ \A i, j \in DOMAIN attributes : attributes[i].name = attributes[j].name => i = j

\* the hash map of the attributes, once there is one, has their names
Listed(tag) == Differ(tag.attributes) /\ (tag.looking => tag.lookup = Names(tag.attributes))

\* the fields of the tokenizer and of the tag and doctype it reads
Shape(s) ==
  /\ DOMAIN s = StateFields
  /\ DOMAIN s.tag = TagFields
  /\ DOMAIN s.doctype = DoctypeFields
  /\ Listed(s.tag)

\* the places in the text, in order
Places(s) ==
  /\ s.pos \in 1 .. Len(text) + 1
  /\ s.start \in 1 .. s.pos
  /\ s.mark \in 1 .. Len(text) + 1
  /\ s.resume \in 0 .. Len(text) + 1
  /\ s.code \in 0 .. MaxChar + 1

(* ----------------------------- Parts of a text ----------------------------- *)

\* the word is in the text at lo, before hi
Held(word, lo, hi) ==
  lo + Len(word) <= hi /\ \A j \in 1 .. Len(word) : text[lo + j - 1] = word[j]

\* what MadeOf says of the text from lo to hi, by positions
Covered(lo, hi, words) ==
  \A k \in lo .. hi - 1 :
    \E word \in words, i \in lo .. hi - 1 : i <= k /\ k < i + Len(word) /\ Held(word, i, hi)

\* Covered, by positions of the text, is what MadeOf says of that part of it.
LEMMA CoveredMadeOf ==
  ASSUME text \in Seq(Symbols), NEW lo \in Nat \ {0}, NEW hi \in Nat, hi <= Len(text) + 1,
         NEW W, NEW words \in SUBSET Seq(W), Covered(lo, hi, words)
  PROVE  MadeOf(SubSeq(text, lo, hi - 1), words)
<1> DEFINE seq == SubSeq(text, lo, hi - 1)
<1>1. CASE hi <= lo
  <2>1. DOMAIN seq = {}
    BY <1>1, SMT
  <2>2. QED BY <2>1 DEF MadeOf
<1>2. CASE hi > lo
  <2>1. /\ seq \in Seq(Symbols) /\ Len(seq) = hi - lo /\ DOMAIN seq = 1 .. hi - lo
        /\ \A i \in 1 .. hi - lo : seq[i] = text[lo + i - 1]
    <3>1. \A i \in lo .. hi - 1 : text[i] \in Symbols
      OBVIOUS
    <3>2. lo \in Int /\ hi - 1 \in Int /\ lo <= hi - 1
      BY <1>2
    <3>3. seq \in Seq(Symbols) /\ Len(seq) = (hi - 1) - lo + 1
          /\ \A i \in 1 .. (hi - 1) - lo + 1 : seq[i] = text[lo + i - 1]
      BY <3>1, <3>2, SubSeqProperties
    <3> HIDE DEF seq
    <3>4. (hi - 1) - lo + 1 = hi - lo
      OBVIOUS
    <3>5. DOMAIN seq = 1 .. Len(seq)
      BY <3>3, LenProperties
    <3>6. QED BY <1>2, <3>3, <3>4, <3>5
  <2> HIDE DEF seq
  <2>2. ASSUME NEW k \in 1 .. hi - lo
        PROVE  \E word \in words, i \in 1 .. hi - lo :
                 /\ i <= k /\ k < i + Len(word)
                 /\ Begins(word, SubSeq(seq, i, Len(seq)))
    <3>1. lo + k - 1 \in lo .. hi - 1
      OBVIOUS
    <3>2. PICK word \in words, i \in lo .. hi - 1 :
            i <= lo + k - 1 /\ lo + k - 1 < i + Len(word) /\ Held(word, i, hi)
      BY <3>1 DEF Covered
    <3> DEFINE n == i - lo + 1
    <3>3. n \in 1 .. hi - lo /\ n <= k /\ word \in Seq(W) /\ Len(word) \in Nat
      BY <3>2
    <3>4. k < n + Len(word) /\ n + Len(word) <= Len(seq) + 1
      BY <2>1, <3>2, <3>3 DEF Held
    <3>5. \A j \in 1 .. Len(word) : seq[n + j - 1] = word[j]
      <4>1. SUFFICES ASSUME NEW j \in 1 .. Len(word) PROVE seq[n + j - 1] = word[j]
        OBVIOUS
      <4>2. n + j - 1 \in 1 .. hi - lo /\ lo + (n + j - 1) - 1 = i + j - 1
        BY <2>1, <3>3, <3>4
      <4>3. seq[n + j - 1] = text[i + j - 1]
        BY <2>1, <4>2
      <4>4. QED BY <3>2, <4>3 DEF Held
    <3> HIDE DEF n
    <3> DEFINE rest == SubSeq(seq, n, Len(seq))
    <3>6. /\ rest \in Seq(Symbols) /\ Len(rest) = Len(seq) - n + 1
          /\ \A j \in 1 .. Len(seq) - n + 1 : rest[j] = seq[n + j - 1]
      <4>1. \A j \in n .. Len(seq) : seq[j] \in Symbols
        BY <2>1, <3>3
      <4>2. n \in Int /\ Len(seq) \in Int /\ n <= Len(seq)
        BY <2>1, <3>3
      <4>3. QED BY <4>1, <4>2, SubSeqProperties
    <3> HIDE DEF rest
    <3>7. Len(word) <= Len(rest)
      BY <2>1, <3>3, <3>4, <3>6
    <3>8. SubSeq(rest, 1, Len(word)) = word
      <4>1. DOMAIN word = 1 .. Len(word) /\ word = [j \in 1 .. Len(word) |-> word[j]]
        BY <3>3
      <4>2. \A j \in 1 .. Len(word) : rest[j] = word[j]
        BY <2>1, <3>3, <3>4, <3>5, <3>6
      <4> DEFINE first == SubSeq(rest, 1, Len(word))
      <4>3. \A j \in 1 .. Len(word) : rest[j] \in W
        BY <3>3, <4>2
      <4>4. /\ first \in Seq(W) /\ Len(first) = IF 1 <= Len(word) THEN Len(word) - 1 + 1 ELSE 0
            /\ \A j \in 1 .. Len(word) - 1 + 1 : first[j] = rest[1 + j - 1]
        BY <3>3, <4>3, SubSeqProperties
      <4> HIDE DEF first
      <4>5. Len(first) = Len(word) /\ \A j \in 1 .. Len(word) : first[j] = word[j]
        BY <3>3, <4>2, <4>4
      <4>6. first = word
        BY <3>3, <4>4, <4>5
      <4>7. QED BY <4>6 DEF first
    <3>9. Begins(word, rest)
      BY <3>7, <3>8 DEF Begins
    <3>10. QED BY <3>2, <3>3, <3>4, <3>9 DEF rest
  <2>3. MadeOf(seq, words)
    BY <2>1, <2>2 DEF MadeOf
  <2>4. QED BY <2>3 DEF seq
<1>3. QED BY <1>1, <1>2

\* Two parts of the text that follow each other, both dropped, were dropped as a whole.
LEMMA CoveredJoins ==
  ASSUME NEW lo \in Nat, NEW mid \in Nat, NEW hi \in Nat, lo <= mid, mid <= hi,
         NEW W, NEW words \in SUBSET Seq(W), Covered(lo, mid, words), Covered(mid, hi, words)
  PROVE  Covered(lo, hi, words)
<1>1. SUFFICES ASSUME NEW k \in lo .. hi - 1
      PROVE  \E word \in words, i \in lo .. hi - 1 :
               i <= k /\ k < i + Len(word) /\ Held(word, i, hi)
  BY DEF Covered
<1>2. CASE k < mid
  <2>1. PICK word \in words, i \in lo .. mid - 1 :
          i <= k /\ k < i + Len(word) /\ Held(word, i, mid)
    BY <1>1, <1>2 DEF Covered
  <2>2. Len(word) \in Nat
    BY <2>1
  <2>3. Held(word, i, hi)
    BY <2>1, <2>2 DEF Held
  <2>4. QED BY <2>1, <2>3
<1>3. CASE k >= mid
  BY <1>1, <1>3 DEF Covered
<1>4. QED BY <1>1, <1>2, <1>3

\* What is made of some words is made of more words.
LEMMA CoveredMore ==
  ASSUME NEW lo, NEW hi, NEW words, NEW more, words \subseteq more, Covered(lo, hi, words)
  PROVE  Covered(lo, hi, more)
BY DEF Covered

\* Nothing between a place and itself: nothing was dropped.
LEMMA CoveredNothing ==
  \A lo \in Nat : \A words : Covered(lo, lo, words)
BY DEF Covered

\* One word that was read and dropped.
LEMMA CoveredWord ==
  ASSUME NEW lo \in Nat, NEW words, NEW word \in words, NEW W, word \in Seq(W),
         Held(word, lo, lo + Len(word))
  PROVE  Covered(lo, lo + Len(word), words)
BY DEF Covered

\* What was dropped and a < after it begin with a <.
LEMMA StartsWithLess ==
  ASSUME NEW lo \in Nat, NEW hi \in Nat, lo <= hi, Covered(lo, hi, Dropped), text[hi] = "<"
  PROVE  text[lo] = "<"
<1>1. CASE lo = hi
  BY <1>1
<1>2. CASE lo < hi
  <2> DEFINE word == <<"<", "/", ">">>
  <2>1. Held(word, lo, hi) /\ Len(word) = 3 /\ word[1] = "<"
    BY <1>2 DEF Covered, Dropped
  <2>2. text[lo + 1 - 1] = word[1]
    BY <2>1 DEF Held
  <2>3. QED BY <2>1, <2>2
<1>3. QED BY <1>1, <1>2

Marks == {"<", "/", ">", "!", "[CDATA[", "]"}

\* The words that no token shows: </> and the brackets of a CDATA section.
LEMMA WordsAre == Dropped \in SUBSET Seq(Marks) /\ Dropped \cup Brackets \in SUBSET Seq(Marks)
<1>1. <<"<", "/", ">">> \in Seq(Marks)
  BY DEF Marks
<1>2. <<"<", "!", "[CDATA[">> \in Seq(Marks)
  BY DEF Marks
<1>3. <<"]", "]", ">">> \in Seq(Marks)
  BY DEF Marks
<1>4. QED BY <1>1, <1>2, <1>3 DEF Dropped, Brackets

(* -------------------------- The inductive invariant ------------------------ *)

\* every state of the tokenizer
AllStates == UNION {Texts, EndTags, Scripts, Tags, Comments, Doctypes, CDatas, References}

\* the states that read the value of an attribute
InValue == {"ATTR_VALUE_DOUBLE_QUOTED", "ATTR_VALUE_SINGLE_QUOTED", "ATTR_VALUE_UNQUOTED"}

\* what is read in these states is emitted at once
Plain == Texts \cup
  {"SCRIPT_DATA_ESCAPED_START", "SCRIPT_DATA_ESCAPED_START_DASH", "SCRIPT_DATA_ESCAPED",
   "SCRIPT_DATA_ESCAPED_DASH", "SCRIPT_DATA_ESCAPED_DASH_DASH",
   "SCRIPT_DATA_DOUBLE_ESCAPED_START", "SCRIPT_DATA_DOUBLE_ESCAPED",
   "SCRIPT_DATA_DOUBLE_ESCAPED_DASH", "SCRIPT_DATA_DOUBLE_ESCAPED_DASH_DASH",
   "SCRIPT_DATA_DOUBLE_ESCAPED_LT", "SCRIPT_DATA_DOUBLE_ESCAPED_END", "CDATA_SECTION"}

\* the states that read the name of an end tag in text
NamesEndTag == {"RCDATA_END_TAG_NAME", "RAWTEXT_END_TAG_NAME", "SCRIPT_DATA_END_TAG_NAME",
                "SCRIPT_DATA_ESCAPED_END_TAG_NAME"}

\* after a < that may still turn out to be text
MayBeText == NamesEndTag \cup
  {"TAG_OPEN", "END_TAG_OPEN", "MARKUP_DECLARATION_OPEN",
   "RCDATA_LT", "RCDATA_END_TAG_OPEN", "RAWTEXT_LT", "RAWTEXT_END_TAG_OPEN",
   "SCRIPT_DATA_LT", "SCRIPT_DATA_END_TAG_OPEN",
   "SCRIPT_DATA_ESCAPED_LT", "SCRIPT_DATA_ESCAPED_END_TAG_OPEN"}

\* the temporary buffer is empty
Unused == {"MARKUP_DECLARATION_OPEN", "SCRIPT_DATA_ESCAPED_LT", "DOCTYPE", "BEFORE_DOCTYPE_NAME",
           "AFTER_DOCTYPE_NAME", "AFTER_DOCTYPE_PUBLIC_KEYWORD", "BEFORE_DOCTYPE_PUBLIC_ID",
           "AFTER_DOCTYPE_PUBLIC_ID", "BETWEEN_DOCTYPE_PUBLIC_SYSTEM_ID",
           "AFTER_DOCTYPE_SYSTEM_KEYWORD", "BEFORE_DOCTYPE_SYSTEM_ID", "AFTER_DOCTYPE_SYSTEM_ID"}

\* a tag is read, or a reference in the value of one of its attributes
InTag(s) == s.state \in BuildsTag \/ (s.state \in References /\ s.return \in InValue)

\* the value of an attribute is read
ReadsValue(s) == \/ s.state \in {"BEFORE_ATTR_VALUE", "AFTER_ATTR_VALUE_QUOTED"} \cup InValue
                 \/ s.state \in References /\ s.return \in InValue

\* an attribute that a value is read for
Valued(tag) == tag.drop \/ Len(tag.attributes) # 0

\* the tokenizer stands in text, nothing read that is not emitted
Steady(s) == /\ s.start = s.pos
             /\ s.state \in Plain \cup {"AMBIGUOUS_AMPERSAND"}
             /\ ~InTag(s)

\* the last token is the end of the text
Ended(s) == s.out[Len(s.out)].type = "EOF"

\* what is allocated is what is read
Owns(s) ==
  /\ s.tag.open = s.tag.listed
  /\ s.tag.open <=> ~s.emitted /\ InTag(s)
  /\ s.doctype.owned <=> ~s.emitted /\ s.state \in Doctypes

\* between two tokens, and while characters wait to be emitted, text is read
Between(s) ==
  /\ s.emitted => s.out # <<>> /\ (Ended(s) \/ Steady(s))
  /\ s.buffered # NoChar \/ s.resume # 0 => Steady(s)

\* what a handler assumes of the buffers
Clean(s) ==
  /\ s.state \in Unused => s.tmp = <<>>
  /\ ReadsValue(s) => Valued(s.tag)
  /\ s.state = "AFTER_ATTR_NAME" => Valued(s.tag) \/ Current(s) \in {"/", ">", EOF}

\* the text from the start to the mark was dropped, and c is at the mark
MarkedAt(s, c) == /\ s.start <= s.mark /\ s.mark < s.pos /\ text[s.mark] = c
                  /\ Covered(s.start, s.mark, Dropped)

\* the states that read a comment
InComment == Comments \ {"MARKUP_DECLARATION_OPEN"}

\* the symbol at a place
SymbolAt(k) == IF k > Len(text) THEN EOF ELSE text[k]

\* CommentEnds(from) has the place k, by the symbols there
EndsAt(from, k) ==
  \/ /\ SymbolAt(k) = "-" /\ SymbolAt(k + 1) = "-"
     /\ \/ SymbolAt(k + 2) \in {">", EOF}
        \/ SymbolAt(k + 2) = "!" /\ SymbolAt(k + 3) \in {">", EOF}
  \/ k = from /\ (SymbolAt(k) = ">" \/ (SymbolAt(k) = "-" /\ SymbolAt(k + 1) = ">"))
  \/ SymbolAt(k) = EOF
  \/ SymbolAt(k) = "-" /\ SymbolAt(k + 1) = EOF

\* the text from lo, before hi, as a token shows it
ShownFrom(lo, hi) == Shown(SubSeq(text, lo, hi - 1))

IsComment(start) == /\ SymbolAt(start) = "<" /\ SymbolAt(start + 1) = "!"
                    /\ SymbolAt(start + 2) = "-" /\ SymbolAt(start + 3) = "-"

\* how much of --! was read that may end the comment
Pending(state) ==
  CASE state \in {"COMMENT_START_DASH", "COMMENT_LT_BANG_DASH", "COMMENT_END_DASH"} -> 1
    [] state \in {"COMMENT_LT_BANG_DASH_DASH", "COMMENT_END"} -> 2
    [] state = "COMMENT_END_BANG" -> 3
    [] OTHER -> 0

\* The comment at start was read up to p, where it did not end, and pending
\* symbols of --! more.
ReadUpTo(start, p, pending, tmp) ==
  /\ IsComment(start) /\ start + 4 <= p
  /\ tmp = ShownFrom(start + 4, p)
  /\ \A k \in start + 4 .. p - 1 : ~EndsAt(start + 4, k)
  /\ pending >= 1 => SymbolAt(p) = "-"
  /\ pending >= 2 => SymbolAt(p + 1) = "-"
  /\ pending >= 3 => SymbolAt(p + 2) = "!"

\* where the text of a bogus comment begins
BogusStart(start) == IF SymbolAt(start + 1) = "?" THEN start + 1 ELSE start + 2

\* The bogus comment at start was read up to p.
BogusUpTo(start, p, tmp) ==
  LET from == BogusStart(start)
  IN  /\ ~IsComment(start) /\ from <= p
      /\ SymbolAt(start + 1) = "/" => SymbolAt(start + 2) # ">"
      /\ tmp = ShownFrom(from, p)
      /\ \A k \in from .. p - 1 : SymbolAt(k) # ">"

\* neither <!--> nor <!---> is the comment
NotAbrupt(start) == /\ SymbolAt(start + 4) # ">"
                    /\ SymbolAt(start + 4) = "-" => SymbolAt(start + 5) # ">"

\* what the state says of the comment at start, read before p
Told(start, p, state, tmp) ==
  /\ state = "BOGUS_COMMENT" => BogusUpTo(start, p, tmp)
  /\ state # "BOGUS_COMMENT" => ReadUpTo(start, p - Pending(state), Pending(state), tmp)
  /\ state = "COMMENT_START" => p = start + 4
  /\ state = "COMMENT_START_DASH" => p = start + 5
  /\ state \notin {"BOGUS_COMMENT", "COMMENT_START", "COMMENT_START_DASH"} => NotAbrupt(start)

\* what the state says of the text behind the tokenizer
Stands(s) ==
  /\ s.state \in Plain => Covered(s.start, s.pos, Dropped)
  /\ s.state \in MayBeText => MarkedAt(s, "<")
  /\ s.state = "TAG_OPEN" => s.pos = s.mark + 1
  /\ s.state = "END_TAG_OPEN" => s.pos = s.mark + 2 /\ text[s.mark + 1] = "/"
  /\ s.state = "MARKUP_DECLARATION_OPEN" => s.pos = s.mark + 2 /\ text[s.mark + 1] = "!"
  /\ InTag(s) => text[s.start] = "<" /\ s.start < s.pos
  /\ s.state = "CDATA_SECTION_BRACKET" => s.pos = s.mark + 1 /\ MarkedAt(s, "]")
  /\ s.state = "CDATA_SECTION_END" =>
       s.pos = s.mark + 2 /\ text[s.mark + 1] = "]" /\ MarkedAt(s, "]")
  /\ s.state = "AMBIGUOUS_AMPERSAND" /\ ~InTag(s) => s.start = s.pos
  /\ s.state \in References \ {"AMBIGUOUS_AMPERSAND"} /\ ~InTag(s) => MarkedAt(s, "&")
  /\ s.state \in InComment => MarkedAt(s, "<") /\ Told(s.mark, s.pos, s.state, s.tmp)

\* a character token is about one character or one reference, and a tag names
\* each of its attributes once
Rightly(token) ==
  /\ token.type \in Characters => ReadOnce(token) /\ ReadAsReference(token)
  /\ token.type = "START_TAG" => Differ(token.value.attributes)
  /\ token.type = "COMMENT" => token.value = Shown(CommentText(Markup(token)))

\* the tokens emitted so far, and what was dropped between them and start
History(out, start) ==
  /\ IsSeq(out)
  /\ \A i \in DOMAIN out : Rightly(out[i])
  /\ \A i \in 1 .. Len(out) - 1 :
       /\ out[i].to <= out[i + 1].from
       /\ MadeOf(SubSeq(text, out[i].to, out[i + 1].from - 1), Dropped \cup Brackets)
  /\ out # <<>> => LET last == out[Len(out)].to
                   IN  /\ last \in 1 .. start
                       /\ Covered(last, start, Dropped \cup Brackets)

\* the inductive invariant, of a record of the tokenizer
Kept(s) ==
  /\ Shape(s) /\ Places(s)
  /\ s.state \in AllStates /\ s.return \in {"DATA", "RCDATA"} \cup InValue
  /\ s.reconsume = FALSE /\ s.failed = FALSE /\ s.emitted \in BOOLEAN
  /\ Owns(s) /\ Between(s) /\ History(s.out, s.start)
  /\ s.emitted = FALSE => Clean(s) /\ Stands(s)

Inv == text \in Seq(Symbols) /\ Kept(t)

(* ------------------------- What each operation changes --------------------- *)

\* r is s but for its state, its buffers and its tag
Frame(s, r) ==
  /\ Shape(r)
  /\ r.pos = s.pos /\ r.mark = s.mark /\ r.resume = s.resume /\ r.start = s.start
  /\ r.return = s.return /\ r.buffered = s.buffered /\ r.code = s.code /\ r.cdata = s.cdata
  /\ r.doctype.owned = s.doctype.owned /\ r.out = s.out
  /\ r.emitted = s.emitted /\ r.failed = s.failed

With(r, state, reconsume, tmp, tag) ==
  r.state = state /\ r.reconsume = reconsume /\ r.tmp = tmp /\ r.tag = tag

\* A handler that did nothing yet kept everything.
LEMMA FrameSelf == \A s : Shape(s) => Frame(s, s)
BY DEF Frame

\* tokenizer_add_parse_error changes none of the fields that the invariant speaks of.
LEMMA ErrorFrame ==
  \A z, s : Frame(z, s) =>
    /\ Frame(z, tokenizer_add_parse_error(s))
    /\ With(tokenizer_add_parse_error(s), s.state, s.reconsume, s.tmp, s.tag)
BY DEF tokenizer_add_parse_error, Shape, Frame, With, StateFields

\* gumbo_tokenizer_set_state changes the state alone.
LEMMA StateFrame ==
  \A z, s, state : Frame(z, s) =>
    /\ Frame(z, gumbo_tokenizer_set_state(s, state))
    /\ With(gumbo_tokenizer_set_state(s, state), state, s.reconsume, s.tmp, s.tag)
BY DEF gumbo_tokenizer_set_state, Shape, Frame, With, StateFields

\* reconsume_in_state changes the state and asks for the character again.
LEMMA ReconsumeFrame ==
  \A z, s, state : Frame(z, s) =>
    /\ Frame(z, reconsume_in_state(s, state))
    /\ With(reconsume_in_state(s, state), state, TRUE, s.tmp, s.tag)
BY DEF reconsume_in_state, Shape, Frame, With, StateFields

\* clear_temporary_buffer changes the temporary buffer alone.
LEMMA ClearFrame ==
  \A z, s : Frame(z, s) =>
    /\ Frame(z, clear_temporary_buffer(s))
    /\ With(clear_temporary_buffer(s), s.state, s.reconsume, <<>>, s.tag)
BY DEF clear_temporary_buffer, Shape, Frame, With, StateFields

\* append_string_to_temporary_buffer changes the temporary buffer alone.
LEMMA AppendFrame ==
  \A z, s, chars : Frame(z, s) =>
    /\ Frame(z, append_to_temporary_buffer(s, chars))
    /\ With(append_to_temporary_buffer(s, chars), s.state, s.reconsume, s.tmp \o chars, s.tag)
BY DEF append_to_temporary_buffer, Shape, Frame, With, StateFields

\* An assertion that holds changes nothing.
LEMMA AssertFrame ==
  \A z, s, condition : Frame(z, s) /\ condition =>
    /\ Frame(z, assert(s, condition))
    /\ With(assert(s, condition), s.state, s.reconsume, s.tmp, s.tag)
BY DEF assert, With

(* Tags. *)
SameTag(tag, new) == /\ new.open = tag.open /\ new.listed = tag.listed
                     /\ new.attributes = tag.attributes /\ new.drop = tag.drop
                     /\ new.lookup = tag.lookup /\ new.looking = tag.looking

WithTag(s, r) == r.state = s.state /\ r.reconsume = s.reconsume /\ r.tmp = s.tmp

\* append_char_to_tag_buffer changes the buffer of the tag alone.
LEMMA BufferFrame ==
  \A z, s, chars : Frame(z, s) =>
    LET r == append_to_tag_buffer(s, chars)
    IN  Frame(z, r) /\ WithTag(s, r) /\ SameTag(s.tag, r.tag)
BY DEF append_to_tag_buffer, Shape, Listed, Frame, WithTag, SameTag, StateFields, TagFields

\* The tag buffer is started again: the tag is still open (assert in reinitialize_tag_buffer).
LEMMA ReinitializeFrame ==
  \A z, s : Frame(z, s) /\ s.tag.open =>
    LET r == reinitialize_tag_buffer(s)
    IN  Frame(z, r) /\ WithTag(s, r) /\ SameTag(s.tag, r.tag)
<1>1. SUFFICES ASSUME NEW z, NEW s, Frame(z, s), s.tag.open
      PROVE  LET r == reinitialize_tag_buffer(s)
             IN  Frame(z, r) /\ WithTag(s, r) /\ SameTag(s.tag, r.tag)
  OBVIOUS
<1> DEFINE r == reinitialize_tag_buffer(s)
<1>2. r = [s EXCEPT !.tag.buffer = <<>>]
  BY <1>1 DEF reinitialize_tag_buffer, assert
<1> HIDE DEF r
<1>3. Frame(z, r) /\ WithTag(s, r) /\ SameTag(s.tag, r.tag)
  BY <1>1, <1>2 DEF Shape, Listed, Frame, WithTag, SameTag, StateFields, TagFields
<1>4. QED BY <1>3 DEF r

\* finish_tag_name moves the buffer of an open tag into its name.
LEMMA NameFrame ==
  \A z, s : Frame(z, s) /\ s.tag.open =>
    LET r == finish_tag_name(s)
    IN  Frame(z, r) /\ WithTag(s, r) /\ SameTag(s.tag, r.tag)
<1>1. SUFFICES ASSUME NEW z, NEW s, Frame(z, s), s.tag.open
      PROVE  LET r == finish_tag_name(s)
             IN  Frame(z, r) /\ WithTag(s, r) /\ SameTag(s.tag, r.tag)
  OBVIOUS
<1> DEFINE x == reinitialize_tag_buffer(s)
           r == finish_tag_name(s)
<1>2. Frame(z, x) /\ WithTag(s, x) /\ SameTag(s.tag, x.tag)
  BY <1>1, ReinitializeFrame
<1>3. r = [x EXCEPT !.tag.name = s.tag.buffer]
  BY DEF finish_tag_name
<1> HIDE DEF x, r
<1>4. Frame(z, r) /\ WithTag(x, r) /\ SameTag(x.tag, r.tag)
  BY <1>2, <1>3 DEF Shape, Listed, Frame, WithTag, SameTag, StateFields, TagFields
<1>5. QED BY <1>2, <1>4 DEF WithTag, SameTag, r

\* No attributes are different.
LEMMA NoneDiffer == Differ(<<>>)
<1>1. <<>> \in Seq({}) /\ Len(<<>>) = 0 /\ DOMAIN <<>> = {}
  OBVIOUS
<1>2. QED BY <1>1, LimitsAssumption DEF Differ, IsSeq

\* A tag state that owns nothing.
LEMMA NoTagIs ==
  /\ DOMAIN NoTag = TagFields /\ Listed(NoTag)
  /\ NoTag.open = FALSE /\ NoTag.listed = FALSE
<1>1. /\ DOMAIN NoTag = TagFields /\ NoTag.attributes = <<>> /\ NoTag.looking = FALSE
      /\ NoTag.open = FALSE /\ NoTag.listed = FALSE
  BY DEF NoTag, TagFields
<1>2. QED BY <1>1, NoneDiffer DEF Listed

\* start_new_tag allocates the buffers of a tag that has none.
LEMMA StartFrame ==
  \A z, s, start :
    Frame(z, s) /\ is_alpha(Current(s)) /\ ~s.tag.open /\ ~s.tag.listed =>
    LET r == start_new_tag(s, start)
    IN  Frame(z, r) /\ WithTag(s, r) /\ r.tag.open = TRUE /\ r.tag.listed = TRUE
<1>1. SUFFICES ASSUME NEW z, NEW s, NEW start, Frame(z, s), is_alpha(Current(s)),
                      ~s.tag.open, ~s.tag.listed
      PROVE  LET r == start_new_tag(s, start)
             IN  Frame(z, r) /\ WithTag(s, r) /\ r.tag.open = TRUE /\ r.tag.listed = TRUE
  OBVIOUS
<1> DEFINE r == start_new_tag(s, start)
           tag == [NoTag EXCEPT !.open = TRUE, !.listed = TRUE, !.is_start = start]
<1>2. r = [s EXCEPT !.tag = tag]
  BY <1>1 DEF start_new_tag, assert
<1>3. /\ DOMAIN tag = TagFields /\ Listed(tag)
      /\ tag.open = TRUE /\ tag.listed = TRUE
  BY NoTagIs DEF TagFields, Listed
<1> HIDE DEF r, tag
<1>4. Frame(z, r) /\ WithTag(s, r) /\ r.tag = tag
  BY <1>1, <1>2, <1>3 DEF Shape, Frame, WithTag, StateFields
<1>5. QED BY <1>3, <1>4 DEF r

\* abandon_current_tag frees the buffers of an open tag.
LEMMA AbandonFrame ==
  \A z, s : Frame(z, s) /\ s.tag.open =>
    LET r == abandon_current_tag(s)
    IN  Frame(z, r) /\ WithTag(s, r) /\ r.tag.open = FALSE /\ r.tag.listed = FALSE
<1>1. SUFFICES ASSUME NEW z, NEW s, Frame(z, s), s.tag.open
      PROVE  LET r == abandon_current_tag(s)
             IN  Frame(z, r) /\ WithTag(s, r) /\ r.tag.open = FALSE /\ r.tag.listed = FALSE
  OBVIOUS
<1> DEFINE r == abandon_current_tag(s)
<1>2. r = [s EXCEPT !.tag = NoTag]
  BY <1>1 DEF abandon_current_tag, assert
<1> HIDE DEF r
<1>3. Frame(z, r) /\ WithTag(s, r) /\ r.tag = NoTag
  BY <1>1, <1>2, NoTagIs DEF Shape, Frame, WithTag, StateFields
<1>4. QED BY <1>3, NoTagIs DEF r

(* Attributes. *)
Attributed(s, r) ==
  /\ WithTag(s, r) /\ r.tag.open = s.tag.open /\ r.tag.listed = s.tag.listed

\* What Append does to a sequence of any elements.
LEMMA AppendSeq ==
  \A q, e : IsSeq(q) => /\ IsSeq(Append(q, e)) /\ Len(q) \in Nat /\ Len(Append(q, e)) = Len(q) + 1
                        /\ Append(q, e)[Len(q) + 1] = e /\ DOMAIN q = 1 .. Len(q)
                        /\ DOMAIN Append(q, e) = 1 .. Len(q) + 1
                        /\ \A i \in 1 .. Len(q) : Append(q, e)[i] = q[i]
<1>1. SUFFICES ASSUME NEW q, NEW e, IsSeq(q)
      PROVE  /\ IsSeq(Append(q, e)) /\ Len(q) \in Nat /\ Len(Append(q, e)) = Len(q) + 1
             /\ Append(q, e)[Len(q) + 1] = e /\ DOMAIN q = 1 .. Len(q)
             /\ DOMAIN Append(q, e) = 1 .. Len(q) + 1
             /\ \A i \in 1 .. Len(q) : Append(q, e)[i] = q[i]
  OBVIOUS
<1>2. PICK S : q \in Seq(S)
  BY <1>1 DEF IsSeq
<1> DEFINE T == S \cup {e}
<1>3. q \in Seq(T) /\ e \in T
  BY <1>2, SeqMonotonic
<1> HIDE DEF T
<1>4. Append(q, e) \in Seq(T)
  BY <1>3
<1>5. QED BY <1>3, <1>4 DEF IsSeq

\* The hash map of the attributes is made: the list of attributes stays.
LEMMA LookupIs ==
  \A tag : DOMAIN tag = TagFields /\ Listed(tag) =>
    LET new == WithLookup(tag)
    IN  /\ DOMAIN new = TagFields /\ Listed(new)
        /\ new.attributes = tag.attributes /\ new.buffer = tag.buffer
        /\ new.open = tag.open /\ new.listed = tag.listed
BY DEF WithLookup, Listed, TagFields

\* One more attribute is in the list, if its name is new and there is room.
LEMMA AddIs ==
  \A tag :
    /\ DOMAIN tag = TagFields /\ Listed(tag) /\ ~IsDuplicate(tag)
    /\ Len(tag.attributes) < MaxAttributes
    => LET new == AddAttribute(tag)
       IN  /\ DOMAIN new = TagFields /\ Listed(new) /\ Len(new.attributes) # 0
           /\ new.open = tag.open /\ new.listed = tag.listed
<1>1. SUFFICES ASSUME NEW tag, DOMAIN tag = TagFields, Listed(tag), ~IsDuplicate(tag),
                      Len(tag.attributes) < MaxAttributes
      PROVE  LET new == AddAttribute(tag)
             IN  /\ DOMAIN new = TagFields /\ Listed(new) /\ Len(new.attributes) # 0
                 /\ new.open = tag.open /\ new.listed = tag.listed
  OBVIOUS
<1> DEFINE new == AddAttribute(tag)
           attribute == [name |-> tag.buffer, value |-> <<>>]
           old == tag.attributes
           all == new.attributes
           n == Len(old)
<1>2. /\ DOMAIN new = TagFields /\ all = Append(old, attribute)
      /\ new.open = tag.open /\ new.listed = tag.listed /\ new.looking = tag.looking
      /\ tag.looking => new.lookup = tag.lookup \cup {tag.buffer}
  BY <1>1 DEF AddAttribute, TagFields
<1>3. attribute.name = tag.buffer /\ "name" \in DOMAIN attribute
  OBVIOUS
<1>4. tag.buffer \notin Names(old)
  BY <1>1 DEF IsDuplicate, Listed
<1> HIDE DEF new, attribute
<1>5. /\ IsSeq(all) /\ n \in Nat /\ Len(all) = n + 1 /\ all[n + 1] = attribute
      /\ DOMAIN old = 1 .. n /\ DOMAIN all = 1 .. n + 1 /\ \A i \in 1 .. n : all[i] = old[i]
  BY <1>1, <1>2, AppendSeq DEF Listed, Differ
<1>6. \A i \in 1 .. n + 1 : i \in 1 .. n \/ i = n + 1
  BY <1>5
<1> HIDE DEF old, all, n
<1>7. /\ \A i \in 1 .. n : "name" \in DOMAIN old[i]
      /\ \A i, j \in 1 .. n : old[i].name = old[j].name => i = j
      /\ n < MaxAttributes
  BY <1>1, <1>5 DEF Listed, Differ, old, n
<1>8. \A i \in 1 .. n : old[i].name # tag.buffer
  BY <1>4, <1>5 DEF Names
<1>9. Differ(all)
  <2>1. \A i \in 1 .. n + 1 : "name" \in DOMAIN all[i]
    BY <1>3, <1>5, <1>6, <1>7
  <2>2. ASSUME NEW i \in 1 .. n + 1, NEW j \in 1 .. n + 1, all[i].name = all[j].name
        PROVE  i = j
    BY <1>3, <1>5, <1>6, <1>7, <1>8, <2>2
  <2>3. Len(all) <= MaxAttributes
    BY <1>5, <1>7, LimitsAssumption
  <2>4. QED BY <1>5, <2>1, <2>2, <2>3 DEF Differ
<1>10. Names(all) = Names(old) \cup {tag.buffer}
  <2>1. \A i \in 1 .. n : i \in 1 .. n + 1
    BY <1>5
  <2>2. n + 1 \in 1 .. n + 1
    BY <1>5
  <2>3. QED BY <1>3, <1>5, <1>6, <2>1, <2>2 DEF Names
<1>11. new.looking => new.lookup = Names(all)
  BY <1>1, <1>2, <1>10 DEF Listed, old
<1>12. Listed(new)
  BY <1>9, <1>11 DEF Listed, all
<1>13. Len(new.attributes) # 0
  BY <1>5 DEF all
<1>14. QED BY <1>2, <1>12, <1>13 DEF new

\* finish_attribute_name leaves an attribute to give the value to, or drops it.
LEMMA AttributeNameFrame ==
  \A z, s : Frame(z, s) /\ s.tag.open /\ s.tag.listed =>
    LET r == finish_attribute_name(s)
    IN  Frame(z, r) /\ Attributed(s, r) /\ Valued(r.tag)
<1>1. SUFFICES ASSUME NEW z, NEW s, Frame(z, s), s.tag.open, s.tag.listed
      PROVE  LET r == finish_attribute_name(s)
             IN  Frame(z, r) /\ Attributed(s, r) /\ Valued(r.tag)
  OBVIOUS
<1> DEFINE r == finish_attribute_name(s)
<1>2. CASE TooMany(s)
  <2> DEFINE x == reinitialize_tag_buffer(s)
  <2>1. Frame(z, x) /\ WithTag(s, x) /\ SameTag(s.tag, x.tag)
    BY <1>1, ReinitializeFrame
  <2>2. r = [x EXCEPT !.tag.drop = TRUE, !.too_many = TRUE]
    BY <1>2 DEF finish_attribute_name
  <2> HIDE DEF x, r
  <2>3. Frame(z, r) /\ WithTag(x, r) /\ r.tag.open = x.tag.open /\ r.tag.listed = x.tag.listed
        /\ r.tag.drop = TRUE
    BY <2>1, <2>2 DEF Shape, Listed, Frame, WithTag, StateFields, TagFields
  <2>4. QED BY <2>1, <2>3 DEF WithTag, SameTag, Attributed, Valued, r
<1>3. CASE ~TooMany(s)
  <2> DEFINE tag == WithLookup(s.tag)
             new == IF IsDuplicate(tag) THEN [tag EXCEPT !.drop = TRUE] ELSE AddAttribute(tag)
             x == [s EXCEPT !.tag = new, !.errors = IF IsDuplicate(tag) THEN @ + 1 ELSE @]
  <2>1. r = reinitialize_tag_buffer(x)
    <3>1. tag.listed
      BY <1>1, LookupIs DEF Frame, Shape
    <3>2. QED BY <1>3, <3>1 DEF finish_attribute_name, assert
  <2>2. DOMAIN tag = TagFields /\ Listed(tag) /\ tag.open = s.tag.open
        /\ tag.listed = s.tag.listed /\ Len(tag.attributes) < MaxAttributes
    <3>1. DOMAIN tag = TagFields /\ Listed(tag) /\ tag.open = s.tag.open
          /\ tag.listed = s.tag.listed /\ tag.attributes = s.tag.attributes
      BY <1>1, LookupIs DEF Frame, Shape
    <3>2. Len(s.tag.attributes) \in Nat
      BY <1>1, AppendSeq DEF Frame, Shape, Listed, Differ
    <3>3. QED BY <1>3, <3>1, <3>2, LimitsAssumption DEF TooMany
  <2>3. x.tag = new /\ DOMAIN x = StateFields
    BY <1>1 DEF Frame, Shape, StateFields
  <2> HIDE DEF tag
  <2>4. DOMAIN new = TagFields /\ Listed(new) /\ new.open = s.tag.open
        /\ new.listed = s.tag.listed /\ Valued(new)
    <3>1. CASE IsDuplicate(tag)
      BY <2>2, <3>1 DEF TagFields, Valued, Listed
    <3>2. CASE ~IsDuplicate(tag)
      BY <2>2, <3>2, AddIs DEF Valued
    <3>3. QED BY <3>1, <3>2
  <2> HIDE DEF new
  <2>5. Frame(z, x) /\ WithTag(s, x)
    BY <1>1, <2>3, <2>4 DEF Frame, Shape, WithTag, StateFields
  <2> HIDE DEF x
  <2>6. Frame(z, r) /\ WithTag(x, r) /\ SameTag(x.tag, r.tag)
    BY <1>1, <2>1, <2>3, <2>4, <2>5, ReinitializeFrame
  <2>7. QED BY <2>3, <2>4, <2>5, <2>6 DEF WithTag, SameTag, Attributed, Valued
<1>4. QED BY <1>2, <1>3

\* finish_attribute_value has an attribute to give the value to (its assertion).
LEMMA AttributeValueFrame ==
  \A z, s : Frame(z, s) /\ s.tag.open /\ Valued(s.tag) =>
    LET r == finish_attribute_value(s)
    IN  Frame(z, r) /\ Attributed(s, r)
<1>1. SUFFICES ASSUME NEW z, NEW s, Frame(z, s), s.tag.open, Valued(s.tag)
      PROVE  LET r == finish_attribute_value(s)
             IN  Frame(z, r) /\ Attributed(s, r)
  OBVIOUS
<1> DEFINE r == finish_attribute_value(s)
           last == Len(s.tag.attributes)
<1>2. CASE s.tag.drop
  <2> DEFINE x == [s EXCEPT !.tag.drop = FALSE]
  <2>1. r = reinitialize_tag_buffer(x)
    BY <1>2 DEF finish_attribute_value
  <2>2. Frame(z, x) /\ WithTag(s, x) /\ x.tag.open = s.tag.open /\ x.tag.listed = s.tag.listed
    BY <1>1 DEF Frame, Shape, Listed, WithTag, StateFields, TagFields
  <2> HIDE DEF x, r
  <2>3. Frame(z, r) /\ WithTag(x, r) /\ SameTag(x.tag, r.tag)
    BY <1>1, <2>1, <2>2, ReinitializeFrame
  <2>4. QED BY <2>2, <2>3 DEF WithTag, SameTag, Attributed, r
<1>3. CASE ~s.tag.drop
  <2> DEFINE x == [s EXCEPT !.tag.attributes[last].value = s.tag.buffer]
             value == [s.tag.attributes[last] EXCEPT !.value = s.tag.buffer]
  <2>1. last # 0
    BY <1>1, <1>3 DEF Valued
  <2>2. r = reinitialize_tag_buffer(x)
    BY <1>3, <2>1 DEF finish_attribute_value
  <2>3. LET new == [s.tag.attributes EXCEPT ![last] = value]
        IN  Differ(new) /\ Names(new) = Names(s.tag.attributes)
    <3> DEFINE old == s.tag.attributes
               new == [old EXCEPT ![last] = value]
    <3>1. PICK S : old \in Seq(S)
      BY <1>1 DEF Frame, Shape, Listed, Differ, IsSeq
    <3>2. old \in Seq(S \cup {value}) /\ last \in 1 .. Len(old)
      BY <2>1, <3>1, SeqMonotonic
    <3>3. /\ \A i \in DOMAIN old : "name" \in DOMAIN old[i]
          /\ \A i, j \in DOMAIN old : old[i].name = old[j].name => i = j
          /\ Len(old) <= MaxAttributes /\ last \in DOMAIN old
      BY <1>1, <3>2 DEF Frame, Shape, Listed, Differ
    <3>4. value.name = old[last].name /\ "name" \in DOMAIN value
      BY <3>3
    <3> HIDE DEF value
    <3>5. new \in Seq(S \cup {value}) /\ Len(new) = Len(old) /\ DOMAIN new = DOMAIN old
      BY <3>2
    <3>6. \A i \in DOMAIN old : new[i].name = old[i].name /\ "name" \in DOMAIN new[i]
      BY <3>3, <3>4
    <3> HIDE DEF old, new
    <3>7. Differ(new)
      BY <3>3, <3>5, <3>6 DEF Differ, IsSeq
    <3>8. Names(new) = Names(old)
      BY <3>5, <3>6 DEF Names
    <3>9. QED BY <3>7, <3>8 DEF new, old
  <2>4. /\ DOMAIN x = StateFields /\ DOMAIN x.tag = TagFields
        /\ x.tag.attributes = [s.tag.attributes EXCEPT ![last] = value]
        /\ x.tag.open = s.tag.open /\ x.tag.listed = s.tag.listed
        /\ x.tag.lookup = s.tag.lookup /\ x.tag.looking = s.tag.looking
    BY <1>1 DEF Frame, Shape, StateFields, TagFields
  <2>5. WithTag(s, x) /\ x.doctype = s.doctype
    BY <1>1 DEF Frame, Shape, WithTag, StateFields
  <2>6. /\ x.pos = s.pos /\ x.mark = s.mark /\ x.resume = s.resume /\ x.start = s.start
        /\ x.return = s.return /\ x.buffered = s.buffered /\ x.code = s.code
        /\ x.cdata = s.cdata /\ x.out = s.out /\ x.emitted = s.emitted /\ x.failed = s.failed
    BY <1>1 DEF Frame, Shape, StateFields
  <2> HIDE DEF x, r
  <2>7. Frame(z, x)
    BY <1>1, <2>3, <2>4, <2>5, <2>6 DEF Frame, Shape, Listed
  <2>8. Frame(z, r) /\ WithTag(x, r) /\ SameTag(x.tag, r.tag)
    BY <1>1, <2>2, <2>4, <2>7, ReinitializeFrame
  <2>9. QED BY <2>4, <2>5, <2>8 DEF WithTag, SameTag, Attributed, r
<1>4. QED BY <1>2, <1>3

(* --------------------------------- Tokens ---------------------------------- *)

Token(type, value, from, to, at) ==
  [type |-> type, value |-> value, from |-> from, to |-> to, at |-> at]

Behind(s) == IF s.reconsume \/ s.pos > Len(text) THEN s.pos ELSE s.pos + 1

\* r is s after a token
Emits(s, r, type, value) ==
  /\ Shape(r)
  /\ r.pos = Behind(s) /\ r.start = r.pos /\ r.emitted = TRUE
  /\ r.mark = s.mark /\ r.resume = s.resume /\ r.state = s.state /\ r.return = s.return
  /\ r.code = s.code /\ r.failed = s.failed
  /\ r.out = Append(s.out, Token(type, value, s.start, r.pos, s.pos))

Else(s, r) == r.buffered = s.buffered /\ r.reconsume = s.reconsume

\* utf8iterator_next goes to the next character, and stays at the end.
LEMMA NextIs ==
  \A s : Shape(s) =>
    LET r == utf8iterator_next(s)
    IN  /\ Frame([s EXCEPT !.pos = r.pos], r) /\ With(r, s.state, s.reconsume, s.tmp, s.tag)
        /\ r.doctype = s.doctype /\ r.mark = s.mark /\ r.start = s.start
        /\ r.pos = IF s.pos > Len(text) THEN s.pos ELSE s.pos + 1
BY DEF utf8iterator_next, Shape, Frame, With, StateFields

\* finish_token appends a token from the start point up to what was read.
LEMMA FinishIs ==
  ASSUME NEW s, Shape(s), NEW type, NEW value
  PROVE  LET r == finish_token(s, type, value)
         IN  Emits(s, r, type, value) /\ Else(s, r) /\ r.tag = s.tag /\ r.doctype = s.doctype
<1> DEFINE r == finish_token(s, type, value)
           a == IF s.reconsume THEN s ELSE utf8iterator_next(s)
           token == [type |-> type, value |-> value, from |-> s.start, to |-> a.pos, at |-> s.pos]
<1>1. /\ Shape(a) /\ a.pos = Behind(s) /\ Else(s, a)
      /\ a.mark = s.mark /\ a.resume = s.resume /\ a.state = s.state /\ a.return = s.return
      /\ a.code = s.code /\ a.failed = s.failed /\ a.out = s.out
      /\ a.tag = s.tag /\ a.doctype = s.doctype
  <2>1. CASE s.reconsume
    BY <2>1 DEF Behind, Else
  <2>2. CASE ~s.reconsume
    BY <2>2 DEF Behind, Else, utf8iterator_next, Shape, StateFields
  <2>3. QED BY <2>1, <2>2
<1>2. r = [a EXCEPT !.out = Append(@, token), !.start = a.pos, !.emitted = TRUE]
  BY DEF finish_token
<1>3. token = Token(type, value, s.start, a.pos, s.pos)
  BY DEF Token
<1> HIDE DEF a, token, r
<1>4. Shape(r) /\ r.out = Append(a.out, token)
  BY <1>1, <1>2 DEF Shape, StateFields
<1>5. /\ r.pos = a.pos /\ r.start = a.pos /\ r.emitted = TRUE
      /\ r.mark = a.mark /\ r.resume = a.resume /\ r.state = a.state /\ r.reconsume = a.reconsume
      /\ r.return = a.return /\ r.buffered = a.buffered /\ r.code = a.code
      /\ r.tag = a.tag /\ r.doctype = a.doctype /\ r.failed = a.failed
  BY <1>1, <1>2 DEF Shape, StateFields
<1>6. Emits(s, r, type, value)
  BY <1>1, <1>3, <1>4, <1>5 DEF Emits
<1>7. Else(s, r) /\ r.tag = s.tag /\ r.doctype = s.doctype
  BY <1>1, <1>5 DEF Else
<1>8. QED BY <1>6, <1>7 DEF r

\* emit_char emits one character, of the type get_char_token_type gives.
LEMMA CharIs ==
  \A s, c : Shape(s) =>
    LET r == emit_char(s, c)
    IN  /\ Emits(s, r, get_char_token_type(s.cdata, c), c) /\ Else(s, r)
        /\ r.tag = s.tag /\ r.doctype = s.doctype
BY FinishIs DEF emit_char

\* emit_comment emits the temporary buffer.
LEMMA CommentIs ==
  \A s : Shape(s) =>
    LET r == emit_comment(s)
    IN  Emits(s, r, "COMMENT", s.tmp) /\ Else(s, r) /\ r.tag = s.tag /\ r.doctype = s.doctype
<1>1. SUFFICES ASSUME NEW s, Shape(s)
      PROVE  LET r == emit_comment(s)
             IN  Emits(s, r, "COMMENT", s.tmp) /\ Else(s, r) /\ r.tag = s.tag
                 /\ r.doctype = s.doctype
  OBVIOUS
<1> DEFINE x == clear_temporary_buffer(s)
           r == emit_comment(s)
<1>2. /\ Shape(x) /\ Behind(x) = Behind(s) /\ Else(s, x)
      /\ x.pos = s.pos /\ x.start = s.start /\ x.out = s.out
      /\ x.mark = s.mark /\ x.resume = s.resume /\ x.state = s.state /\ x.return = s.return
      /\ x.code = s.code /\ x.failed = s.failed /\ x.tag = s.tag /\ x.doctype = s.doctype
  BY <1>1 DEF clear_temporary_buffer, Shape, StateFields, Behind, Else
<1>3. r = finish_token(x, "COMMENT", s.tmp)
  BY DEF emit_comment
<1> HIDE DEF x, r
<1>4. Emits(x, r, "COMMENT", s.tmp) /\ Else(x, r) /\ r.tag = x.tag /\ r.doctype = x.doctype
  BY <1>2, <1>3, FinishIs
<1>5. QED BY <1>2, <1>4 DEF Emits, Else, r

\* A doctype state that owns nothing.
LEMMA NoDoctypeIs == DOMAIN NoDoctype = DoctypeFields /\ NoDoctype.owned = FALSE
BY DEF NoDoctype, DoctypeFields

\* emit_doctype gives the strings of the doctype away with the token.
LEMMA DoctypeIs ==
  \A s : Shape(s) =>
    LET r == emit_doctype(s)
    IN  Emits(s, r, "DOCTYPE", s.doctype) /\ Else(s, r) /\ r.tag = s.tag
        /\ r.doctype.owned = FALSE
<1>1. SUFFICES ASSUME NEW s, Shape(s)
      PROVE  LET r == emit_doctype(s)
             IN  Emits(s, r, "DOCTYPE", s.doctype) /\ Else(s, r) /\ r.tag = s.tag
                 /\ r.doctype.owned = FALSE
  OBVIOUS
<1> DEFINE x == finish_token(s, "DOCTYPE", s.doctype)
           r == emit_doctype(s)
<1>2. Emits(s, x, "DOCTYPE", s.doctype) /\ Else(s, x) /\ x.tag = s.tag
  BY <1>1, FinishIs
<1>3. r = [x EXCEPT !.doctype = NoDoctype]
  BY DEF emit_doctype
<1> HIDE DEF x, r
<1>4. /\ Shape(r) /\ r.doctype = NoDoctype /\ Else(x, r) /\ r.tag = x.tag
      /\ r.pos = x.pos /\ r.start = x.start /\ r.emitted = x.emitted
      /\ r.mark = x.mark /\ r.resume = x.resume /\ r.state = x.state /\ r.return = x.return
      /\ r.code = x.code /\ r.failed = x.failed /\ r.out = x.out
  BY <1>2, <1>3, NoDoctypeIs DEF Emits, Else, Shape, StateFields
<1>5. QED BY <1>2, <1>4, NoDoctypeIs DEF Emits, Else, r

TagTypes == {"START_TAG", "END_TAG"}

\* a tag is emitted, and a start tag names each of its attributes once
TagEmitted(s, r, type, value) ==
  Emits(s, r, type, value) /\ (type = "START_TAG" => Differ(value.attributes))

\* The assertions about the text of a tag hold: it is between < and >.
LEMMA TagIs ==
  \A s : /\ Shape(s) /\ s.tag.open /\ s.reconsume = FALSE
         /\ s.start \in Nat /\ s.pos \in Nat /\ s.start < s.pos /\ s.pos <= Len(text)
         /\ Len(text) \in Nat /\ text[s.start] = "<" /\ text[s.pos] = ">"
  => LET r == emit_current_tag(s)
    IN  /\ \E type \in TagTypes : \E value : TagEmitted(s, r, type, value)
        /\ Else(s, r) /\ r.doctype = s.doctype
        /\ r.tag.open = FALSE /\ r.tag.listed = FALSE
<1>1. SUFFICES ASSUME NEW s, Shape(s), s.tag.open, s.reconsume = FALSE,
                      s.start \in Nat, s.pos \in Nat, s.start < s.pos, s.pos <= Len(text),
                      Len(text) \in Nat, text[s.start] = "<", text[s.pos] = ">"
      PROVE  LET r == emit_current_tag(s)
             IN  /\ \E type \in TagTypes : \E value : TagEmitted(s, r, type, value)
                 /\ Else(s, r) /\ r.doctype = s.doctype
                 /\ r.tag.open = FALSE /\ r.tag.listed = FALSE
  OBVIOUS
<1> DEFINE tag == s.tag
           x == [s EXCEPT !.tag = NoTag,
                          !.errors = @ + Cardinality(EndTagErrors(tag)),
                          !.last = IF tag.is_start THEN Tag(tag.name) ELSE @]
           type == IF tag.is_start THEN "START_TAG" ELSE "END_TAG"
           value == TagToken(tag)
           done == finish_token(x, type, value)
           r == emit_current_tag(s)
<1>2. r = assert(done, tag.open /\ done.pos - s.start >= 2 /\ text[s.start] = "<"
                       /\ text[done.pos - 1] = ">")
  BY DEF emit_current_tag
<1>3. type \in TagTypes /\ (type = "START_TAG" => Differ(value.attributes))
  BY <1>1, NoneDiffer DEF TagTypes, TagToken, Shape, Listed
<1> HIDE DEF tag, type, value
<1>4. /\ DOMAIN x = StateFields /\ x.tag = NoTag /\ x.doctype = s.doctype /\ Else(s, x)
      /\ x.pos = s.pos /\ x.start = s.start /\ x.out = s.out
      /\ x.mark = s.mark /\ x.resume = s.resume /\ x.state = s.state /\ x.return = s.return
      /\ x.code = s.code /\ x.failed = s.failed
  BY <1>1 DEF Shape, StateFields, Else
<1> HIDE DEF x
<1>5. Shape(x) /\ Behind(x) = Behind(s) /\ Behind(s) = s.pos + 1
  BY <1>1, <1>4, NoTagIs DEF Shape, Behind, Else
<1>6. Emits(x, done, type, value) /\ Else(x, done) /\ done.tag = NoTag
      /\ done.doctype = s.doctype
  BY <1>4, <1>5, FinishIs
<1> HIDE DEF done, r
<1>7. done.pos = s.pos + 1
  BY <1>5, <1>6 DEF Emits
<1>8. r = done
  BY <1>1, <1>2, <1>7 DEF assert, tag
<1>9. Emits(s, done, type, value)
  BY <1>4, <1>5, <1>6 DEF Emits
<1>10. Else(s, done) /\ done.tag.open = FALSE /\ done.tag.listed = FALSE
  BY <1>4, <1>6, NoTagIs DEF Else
<1>11. QED BY <1>3, <1>6, <1>8, <1>9, <1>10 DEF r, TagEmitted

(* What was emitted. *)

\* One more token, right by itself, begins where the last one ended.
LEMMA HistoryGrows ==
  ASSUME text \in Seq(Symbols), NEW out, NEW start \in Nat, NEW p \in start .. Len(text) + 1,
         History(out, start), 1 <= start,
         NEW type, NEW value, NEW at, Rightly(Token(type, value, start, p, at))
  PROVE  History(Append(out, Token(type, value, start, p, at)), p)
         /\ Append(out, Token(type, value, start, p, at)) # <<>>
<1> DEFINE token == Token(type, value, start, p, at)
           new == Append(out, token)
           n == Len(out)
<1>1. token.from = start /\ token.to = p /\ Rightly(token)
  BY DEF Token
<1> HIDE DEF token
<1>2. /\ IsSeq(new) /\ n \in Nat /\ Len(new) = n + 1 /\ new[n + 1] = token
      /\ DOMAIN out = 1 .. n /\ DOMAIN new = 1 .. n + 1 /\ \A i \in 1 .. n : new[i] = out[i]
  BY AppendSeq DEF History
<1> HIDE DEF new, n
<1>3. \A i \in DOMAIN new : Rightly(new[i])
  BY <1>1, <1>2 DEF History
<1>4. ASSUME NEW i \in 1 .. Len(new) - 1
      PROVE  /\ new[i].to <= new[i + 1].from
             /\ MadeOf(SubSeq(text, new[i].to, new[i + 1].from - 1), Dropped \cup Brackets)
  <2>1. CASE i < n
    <3>1. i \in 1 .. Len(out) - 1 /\ new[i] = out[i] /\ new[i + 1] = out[i + 1]
      BY <1>2, <2>1 DEF n
    <3>2. QED BY <3>1 DEF History
  <2>2. CASE i = n
    <3>1. out # <<>> /\ new[i] = out[n] /\ new[i + 1] = token
      BY <1>2, <2>2
    <3>2. out[n].to \in 1 .. start /\ Covered(out[n].to, start, Dropped \cup Brackets)
      BY <3>1 DEF History, n
    <3>3. MadeOf(SubSeq(text, out[n].to, start - 1), Dropped \cup Brackets)
      BY <3>2, CoveredMadeOf, WordsAre
    <3>4. QED BY <1>1, <3>1, <3>2, <3>3
  <2>3. QED BY <1>2, <2>1, <2>2
<1>5. new # <<>> /\ new[Len(new)].to = p
  BY <1>1, <1>2
<1>6. p \in 1 .. p /\ Covered(p, p, Dropped \cup Brackets)
  BY CoveredNothing
<1>7. History(new, p)
  BY <1>2, <1>3, <1>4, <1>5, <1>6 DEF History
<1>8. QED BY <1>5, <1>7 DEF new, token

\* The start point moves over what was dropped.
LEMMA HistoryMoves ==
  ASSUME NEW out, NEW start \in Nat, NEW p \in Nat, start <= p, History(out, start),
         Covered(start, p, Dropped \cup Brackets)
  PROVE  History(out, p)
<1>1. CASE out = <<>>
  BY <1>1 DEF History
<1>2. CASE out # <<>>
  <2> DEFINE last == out[Len(out)].to
  <2>1. last \in 1 .. start /\ Covered(last, start, Dropped \cup Brackets)
    BY <1>2 DEF History
  <2>2. last \in 1 .. p /\ Covered(last, p, Dropped \cup Brackets)
    BY <2>1, CoveredJoins, WordsAre, SMTT(30)
  <2>3. QED BY <1>2, <2>2 DEF History
<1>3. QED BY <1>1, <1>2

(* --------------------------- After each handler ---------------------------- *)

\* a handler is called
Ready(s) == /\ text \in Seq(Symbols) /\ Kept(s)
            /\ s.emitted = FALSE /\ s.resume = 0 /\ s.buffered = NoChar

Returns == {"DATA", "RCDATA"} \cup InValue

\* a token may be emitted
CanEmit(s) ==
  /\ Shape(s) /\ Places(s) /\ s.return \in Returns /\ s.reconsume \in BOOLEAN
  /\ s.failed = FALSE /\ History(s.out, s.start)

Closed(r) == r.tag.open = FALSE /\ r.tag.listed = FALSE /\ r.doctype.owned = FALSE

TextState(s) == s.state \in Plain \cup {"AMBIGUOUS_AMPERSAND"} /\ ~InTag(s)

\* The states that read text are states.
LEMMA TextStates == Plain \cup {"AMBIGUOUS_AMPERSAND"} \subseteq AllStates
BY DEF Plain, AllStates, Texts, Scripts, CDatas, References

\* After a token the invariant holds: everything was given away, and the
\* tokenizer stands in a state that reads text or has emitted the end.
LEMMA EmissionKept ==
  ASSUME text \in Seq(Symbols), NEW s, CanEmit(s), NEW type, NEW value, NEW r,
         Emits(s, r, type, value), r.reconsume = FALSE, Closed(r),
         Rightly(Token(type, value, s.start, Behind(s), s.pos)),
         s.state \in AllStates, TextState(s) \/ type = "EOF",
         TextState(s) \/ (r.buffered = NoChar /\ r.resume = 0)
  PROVE  Kept(r)
<1>1. /\ Len(text) \in Nat /\ s.pos \in Nat /\ s.start \in 1 .. s.pos
      /\ Behind(s) \in s.pos .. Len(text) + 1
  BY DEF CanEmit, Places, Behind
<1>2. History(r.out, r.start) /\ r.out # <<>>
  <2>1. s.start \in Nat /\ 1 <= s.start /\ Behind(s) \in s.start .. Len(text) + 1
    BY <1>1
  <2>2. r.start = Behind(s) /\ r.out = Append(s.out, Token(type, value, s.start, Behind(s), s.pos))
    BY DEF Emits
  <2>3. History(s.out, s.start)
    BY DEF CanEmit
  <2>4. QED BY <2>1, <2>2, <2>3, HistoryGrows
<1>3. Shape(r) /\ Places(r) /\ r.start = r.pos
  BY <1>1 DEF Emits, CanEmit, Places
<1>4. r.state = s.state /\ r.return = s.return /\ r.failed = FALSE /\ r.emitted = TRUE
  BY DEF Emits, CanEmit
<1>5. TextState(s) => Steady(r)
  BY <1>3, <1>4 DEF TextState, Steady, InTag
<1>6. type = "EOF" => Ended(r)
  <2> DEFINE token == Token(type, value, s.start, Behind(s), s.pos)
  <2>1. r.out = Append(s.out, token) /\ IsSeq(s.out) /\ token.type = type
    BY DEF Emits, CanEmit, History, Token
  <2> HIDE DEF token
  <2>2. r.out[Len(r.out)] = token
    BY <2>1, AppendSeq
  <2>3. QED BY <2>1, <2>2 DEF Ended
<1>7. Between(r)
  BY <1>2, <1>4, <1>5, <1>6 DEF Between
<1>8. Owns(r)
  BY <1>4 DEF Owns, Closed
<1>9. QED BY <1>2, <1>3, <1>4, <1>7, <1>8 DEF Kept, CanEmit, Returns

\* gumbo_lex advances after a token unless the character is read again.
LEMMA AdvancedEmission ==
  ASSUME NEW s, NEW r, NEW type, NEW value, Emits(s, r, type, value), r.reconsume \in BOOLEAN
  PROVE  LET n == Advanced(r)
         IN  /\ Emits(s, n, type, value) /\ n.reconsume = FALSE /\ n.buffered = r.buffered
             /\ n.tag = r.tag /\ n.doctype = r.doctype
<1> DEFINE n == Advanced(r)
<1>1. n = [r EXCEPT !.reconsume = FALSE] /\ Shape(r)
  BY DEF Emits, Advanced
<1> HIDE DEF n
<1>2. /\ Shape(n) /\ n.pos = r.pos /\ n.start = r.start /\ n.emitted = r.emitted
      /\ n.mark = r.mark /\ n.resume = r.resume /\ n.state = r.state /\ n.return = r.return
      /\ n.code = r.code /\ n.failed = r.failed /\ n.out = r.out
      /\ n.reconsume = FALSE /\ n.buffered = r.buffered /\ n.tag = r.tag /\ n.doctype = r.doctype
  BY <1>1 DEF Shape, StateFields
<1>3. QED BY <1>2 DEF Emits, n

\* What the place of a character demands of its token.
Reads(s, c) == c = Current(s) \/ (Current(s) = NUL /\ c = REPL)

\* A character has neither the type of a tag nor that of a comment.
LEMMA CharTypes == \A cdata, c : get_char_token_type(cdata, c) \notin {"START_TAG", "COMMENT"}
BY DEF get_char_token_type

\* A character emitted where the tokenizer stands is emitted once.
LEMMA CharRightly ==
  ASSUME text \in Seq(Symbols), NEW s, s.pos \in 1 .. Len(text) + 1, s.start \in 1 .. s.pos,
         s.reconsume = FALSE, Covered(s.start, s.pos, Dropped), NEW c, Reads(s, c)
  PROVE  Rightly(Token(get_char_token_type(s.cdata, c), c, s.start, Behind(s), s.pos))
<1> DEFINE type == get_char_token_type(s.cdata, c)
           token == Token(type, c, s.start, Behind(s), s.pos)
<1>1. Len(text) \in Nat /\ \A i \in 1 .. Len(text) : text[i] # EOF
  BY DEF Symbols
<1>2. CASE s.pos > Len(text)
  <2>1. c = EOF
    BY <1>2 DEF Reads, Current, EOF, NUL
  <2>2. type = "EOF"
    BY <2>1 DEF get_char_token_type, WhiteSpace, Space, EOF, NUL
  <2>3. QED BY <2>2 DEF Rightly, Characters, Token
<1>3. CASE s.pos <= Len(text)
  <2>1. Behind(s) = s.pos + 1 /\ Current(s) = text[s.pos] /\ s.pos \in 1 .. Len(text)
    BY <1>1, <1>3 DEF Behind, Current
  <2>2. token.from = s.start /\ token.to = s.pos + 1 /\ token.at = s.pos /\ token.value = c
        /\ token.type = type
    BY <2>1 DEF Token
  <2>3. MadeOf(SubSeq(text, s.start, s.pos - 1), Dropped)
    BY <1>1, CoveredMadeOf, WordsAre
  <2>4. c = IF text[s.pos] = NUL /\ type # "NULL" THEN REPL ELSE text[s.pos]
    <3>1. CASE text[s.pos] # NUL
      BY <2>1, <3>1 DEF Reads
    <3>2. CASE c = NUL
      <4>1. type = "NULL"
        BY <3>2 DEF get_char_token_type, WhiteSpace, Space, EOF, NUL
      <4>2. text[s.pos] = NUL
        BY <2>1, <3>2 DEF Reads, NUL, REPL
      <4>3. QED BY <3>2, <4>1, <4>2
    <3>3. CASE text[s.pos] = NUL /\ c = REPL
      <4>1. type # "NULL"
        BY <3>3 DEF get_char_token_type, WhiteSpace, Space, EOF, NUL, REPL
      <4>2. QED BY <3>3, <4>1
    <3>4. QED BY <2>1, <3>1, <3>2, <3>3 DEF Reads
  <2> HIDE DEF token, type
  <2>5. ReadOnce(token)
    BY <2>2, <2>3, <2>4 DEF ReadOnce
  <2>6. ReadAsReference(token)
    BY <1>3, <2>2 DEF ReadAsReference
  <2>7. token.type \notin {"START_TAG", "COMMENT"}
    BY <2>2, CharTypes DEF type
  <2>8. QED BY <2>5, <2>6, <2>7 DEF Rightly, token, type
<1>4. QED BY <1>1, <1>2, <1>3

\* A character of text is emitted.
LEMMA CharEmitted ==
  ASSUME text \in Seq(Symbols), NEW s, CanEmit(s), TextState(s), Closed(s), s.reconsume = FALSE,
         Covered(s.start, s.pos, Dropped), NEW c, Reads(s, c)
  PROVE  /\ \E type : Emits(s, emit_char(s, c), type, c)
         /\ Else(s, emit_char(s, c)) /\ Closed(emit_char(s, c))
         /\ Kept(emit_char(s, c)) /\ Kept(Advanced(emit_char(s, c)))
<1> DEFINE type == get_char_token_type(s.cdata, c)
           r == emit_char(s, c)
           n == Advanced(r)
<1>1. Emits(s, r, type, c) /\ Else(s, r) /\ r.tag = s.tag /\ r.doctype = s.doctype
  BY CharIs DEF CanEmit
<1>2. Rightly(Token(type, c, s.start, Behind(s), s.pos))
  BY CharRightly DEF CanEmit, Places
<1> HIDE DEF type, r
<1>3. r.reconsume = FALSE /\ Closed(r) /\ s.state \in AllStates
  BY <1>1, TextStates DEF Else, Closed, TextState
<1>4. Kept(r)
  BY <1>1, <1>2, <1>3, EmissionKept
<1>5. Emits(s, n, type, c) /\ n.reconsume = FALSE /\ Closed(n)
  BY <1>1, <1>3, AdvancedEmission DEF Closed
<1> HIDE DEF n
<1>6. Kept(n)
  BY <1>2, <1>3, <1>5, EmissionKept
<1>7. QED BY <1>1, <1>3, <1>4, <1>6 DEF r, n

\* The end of the text is emitted, in any state.
LEMMA EofEmitted ==
  ASSUME text \in Seq(Symbols), NEW s, CanEmit(s), Closed(s), s.state \in AllStates,
         s.buffered = NoChar, s.resume = 0
  PROVE  Kept(Advanced(emit_eof(s)))
<1> DEFINE r == emit_char(s, EOF)
           n == Advanced(r)
<1>1. get_char_token_type(s.cdata, EOF) = "EOF"
  BY DEF get_char_token_type, WhiteSpace, Space, EOF, NUL
<1>2. Emits(s, r, "EOF", EOF) /\ Else(s, r) /\ r.tag = s.tag /\ r.doctype = s.doctype
  BY <1>1, CharIs DEF CanEmit
<1> HIDE DEF r
<1>3. Emits(s, n, "EOF", EOF) /\ n.reconsume = FALSE /\ Closed(n) /\ n.buffered = NoChar
  BY <1>2, AdvancedEmission DEF Closed, Else, CanEmit
<1>4. n.resume = 0
  BY <1>3 DEF Emits
<1>5. Rightly(Token("EOF", EOF, s.start, Behind(s), s.pos))
  BY DEF Rightly, Characters, Token
<1> HIDE DEF n
<1>6. Kept(n)
  BY <1>3, <1>4, <1>5, EmissionKept
<1>7. QED BY <1>6 DEF n, r, emit_eof

\* A tag, a comment or a doctype is emitted.
LEMMA MarkupEmitted ==
  ASSUME text \in Seq(Symbols), NEW s, CanEmit(s), s.state = "DATA",
         s.buffered = NoChar, s.resume = 0,
         NEW r, NEW type \in TagTypes \cup {"COMMENT", "DOCTYPE"}, NEW value,
         Emits(s, r, type, value), Else(s, r), Closed(r),
         type = "START_TAG" => Differ(value.attributes),
         type = "COMMENT" => value = Shown(CommentText(Markup(
                                       Token(type, value, s.start, Behind(s), s.pos))))
  PROVE  Kept(Advanced(r))
<1> DEFINE n == Advanced(r)
<1>1. Emits(s, n, type, value) /\ n.reconsume = FALSE /\ Closed(n) /\ n.buffered = NoChar
  BY AdvancedEmission DEF Closed, Else, CanEmit
<1>2. n.resume = 0
  BY <1>1 DEF Emits
<1>3. Rightly(Token(type, value, s.start, Behind(s), s.pos))
  BY DEF Rightly, Characters, Token, TagTypes
<1>4. TextState(s) /\ s.state \in AllStates
  BY TextStates DEF TextState, Plain, Texts, InTag, BuildsTag, Attributes, References
<1> HIDE DEF n
<1>5. QED BY <1>1, <1>2, <1>3, <1>4, EmissionKept DEF n

(* The end of a step without a token. *)

\* The states that read text, tags, doctypes or references read no comment.
LEMMA NoComments ==
  /\ InComment \cap (Plain \cup MayBeText \cup BuildsTag \cup References \cup Doctypes) = {}
  /\ InComment \cap {"CDATA_SECTION_BRACKET", "CDATA_SECTION_END"} = {}
BY DEF InComment, Comments, Plain, Texts, MayBeText, NamesEndTag, BuildsTag, Attributes,
       References, Doctypes

\* n is r after the input has advanced
Moved(r, n) ==
  /\ Shape(n) /\ n.pos = Behind(r) /\ n.reconsume = FALSE
  /\ n.mark = r.mark /\ n.resume = r.resume /\ n.start = r.start /\ n.state = r.state
  /\ n.return = r.return /\ n.buffered = r.buffered /\ n.code = r.code /\ n.cdata = r.cdata
  /\ n.tmp = r.tmp /\ n.tag = r.tag /\ n.doctype = r.doctype /\ n.out = r.out
  /\ n.emitted = r.emitted /\ n.failed = r.failed

\* gumbo_lex advances after a handler that emitted nothing.
LEMMA AdvanceIs ==
  \A r : Shape(r) /\ r.emitted = FALSE /\ r.reconsume \in BOOLEAN => Moved(r, Advanced(r))
BY DEF Advanced, utf8iterator_next, Shape, Moved, Behind, StateFields

\* A handler that emits nothing keeps the invariant if it leaves the places,
\* the memory and the state in agreement.
LEMMA QuietKept ==
  ASSUME text \in Seq(Symbols), NEW r, CanEmit(r), r.emitted = FALSE, r.resume = 0,
         r.buffered = NoChar, r.state \in AllStates, Owns(r),
         Clean(Advanced(r)), Stands(Advanced(r))
  PROVE  Kept(Advanced(r))
<1> DEFINE n == Advanced(r)
<1>1. Moved(r, n)
  BY AdvanceIs DEF CanEmit
<1>2. Clean(n) /\ Stands(n)
  OBVIOUS
<1> HIDE DEF n
<1>3. Places(n)
  BY <1>1 DEF CanEmit, Places, Moved, Behind
<1>4. Owns(n) /\ Between(n)
  BY <1>1 DEF Owns, InTag, Between, Moved
<1>5. QED BY <1>1, <1>2, <1>3, <1>4 DEF Kept, CanEmit, Returns, Moved, n

\* what an operation that frames the tokenizer leaves
LEMMA FrameCan ==
  \A s, r : Ready(s) /\ Frame(s, r) /\ r.reconsume \in BOOLEAN =>
    CanEmit(r) /\ r.emitted = FALSE /\ r.resume = 0 /\ r.buffered = NoChar
BY DEF Ready, Kept, Frame, CanEmit, Places, Returns

(* ----------------------------------- Text ---------------------------------- *)

\* In a state that reads text, what lies before the character was dropped.
LEMMA ReadyText ==
  \A s : Ready(s) /\ TextState(s) =>
    Covered(s.start, s.pos, Dropped) /\ Closed(s) /\ s.reconsume = FALSE
<1>1. SUFFICES ASSUME NEW s, Ready(s), TextState(s)
      PROVE  Covered(s.start, s.pos, Dropped) /\ Closed(s) /\ s.reconsume = FALSE
  OBVIOUS
<1>2. Kept(s) /\ s.emitted = FALSE /\ Stands(s) /\ Owns(s) /\ s.start \in Nat
  BY <1>1 DEF Ready, Kept, Places
<1>3. Covered(s.start, s.pos, Dropped)
  <2>1. CASE s.state \in Plain
    BY <1>2, <2>1 DEF Stands
  <2>2. CASE s.state = "AMBIGUOUS_AMPERSAND"
    <3>1. s.start = s.pos
      BY <1>1, <1>2, <2>2 DEF Stands, TextState
    <3>2. QED BY <1>2, <3>1, CoveredNothing
  <2>3. QED BY <1>1, <2>1, <2>2 DEF TextState
<1>4. s.state \notin Doctypes
  BY <1>1 DEF TextState, Plain, Texts, Doctypes
<1>5. QED BY <1>1, <1>2, <1>3, <1>4 DEF Owns, Closed, TextState, Kept

\* a character is emitted where it stands
LEMMA TextEmits ==
  \A s, x, c :
    /\ Ready(s) /\ TextState(s) /\ Frame(s, x) /\ x.tag = s.tag /\ x.reconsume = FALSE
    /\ TextState(x) /\ Reads(s, c)
    => Kept(Advanced(emit_char(x, c)))
<1>1. SUFFICES ASSUME NEW s, NEW x, NEW c, Ready(s), TextState(s), Frame(s, x), x.tag = s.tag,
                      x.reconsume = FALSE, TextState(x), Reads(s, c)
      PROVE  Kept(Advanced(emit_char(x, c)))
  OBVIOUS
<1>2. CanEmit(x) /\ text \in Seq(Symbols)
  BY <1>1, FrameCan DEF Ready
<1>3. Covered(x.start, x.pos, Dropped) /\ Closed(x)
  BY <1>1, ReadyText DEF Frame, Closed
<1>4. Reads(x, c)
  BY <1>1 DEF Reads, Current, Frame
<1>5. QED BY <1>1, <1>2, <1>3, <1>4, CharEmitted

\* a character is read again
LEMMA TextGoes ==
  \A s, r :
    /\ Ready(s) /\ TextState(s) /\ Frame(s, r) /\ r.tag = s.tag /\ r.reconsume = TRUE
    /\ r.state \in Plain
    => Kept(Advanced(r))
<1>1. SUFFICES ASSUME NEW s, NEW r, Ready(s), TextState(s), Frame(s, r), r.tag = s.tag,
                      r.reconsume = TRUE, r.state \in Plain
      PROVE  Kept(Advanced(r))
  OBVIOUS
<1> DEFINE n == Advanced(r)
<1>2. CanEmit(r) /\ r.emitted = FALSE /\ r.resume = 0 /\ r.buffered = NoChar
      /\ text \in Seq(Symbols)
  BY <1>1, FrameCan DEF Ready
<1>3. Covered(s.start, s.pos, Dropped) /\ Closed(s)
  BY <1>1, ReadyText
<1>4. Moved(r, n) /\ n.pos = s.pos
  BY <1>1, <1>2, AdvanceIs DEF CanEmit, Moved, Behind, Frame
<1> HIDE DEF n
<1>5. r.state \in AllStates
  BY <1>1, TextStates
<1>6. /\ n.state \notin MayBeText \cup Unused \cup BuildsTag \cup References \cup Doctypes
      /\ n.state \notin {"BEFORE_ATTR_VALUE", "AFTER_ATTR_VALUE_QUOTED", "AFTER_ATTR_NAME",
                         "TAG_OPEN", "END_TAG_OPEN", "MARKUP_DECLARATION_OPEN",
                         "CDATA_SECTION_BRACKET", "CDATA_SECTION_END"} \cup InValue
  BY <1>1, <1>4 DEF Moved, Plain, Texts, MayBeText, NamesEndTag, Unused, BuildsTag, Attributes,
                    References, Doctypes, InValue
<1>7. Clean(n)
  BY <1>6 DEF Clean, ReadsValue
<1>8. Stands(n)
  <2>1. n.state \notin InComment
    <3>1. n.state \in Plain \cup {"AMBIGUOUS_AMPERSAND"}
      BY <1>1, <1>4 DEF Moved
    <3>2. QED BY <3>1, NoComments DEF References
  <2>2. QED BY <1>1, <1>3, <1>4, <1>6, <2>1 DEF Stands, InTag, Moved, Frame, References
<1>9. Owns(r)
  <2>1. r.state = n.state /\ r.tag = s.tag /\ r.doctype.owned = s.doctype.owned
    BY <1>1, <1>4 DEF Moved, Frame
  <2>2. ~InTag(r) /\ r.state \notin Doctypes
    BY <1>6, <2>1 DEF InTag
  <2>3. QED BY <1>3, <2>1, <2>2 DEF Owns, Closed
<1>10. QED BY <1>2, <1>5, <1>7, <1>8, <1>9, QuietKept DEF n

\* r is s with the mark where the tokenizer stands
Opened(s, r) ==
  /\ Shape(r) /\ r.reconsume = s.reconsume
  /\ r.pos = s.pos /\ r.mark = s.pos /\ r.resume = s.resume /\ r.start = s.start
  /\ r.buffered = s.buffered /\ r.code = s.code /\ r.cdata = s.cdata
  /\ r.tag = s.tag /\ r.doctype = s.doctype /\ r.out = s.out
  /\ r.emitted = s.emitted /\ r.failed = s.failed

\* A < that may open markup: the mark remembers it.
LEMMA OpensIs ==
  \A s, state : Shape(s) =>
    LET r == Opens(s, state)
    IN  Opened(s, r) /\ r.state = state /\ r.tmp = s.tmp /\ r.return = s.return
BY DEF Opens, set_mark, gumbo_tokenizer_set_state, Shape, Opened, StateFields

\* A < in an escaped script: the mark remembers it.
LEMMA EscapedLessThanIs ==
  \A s : Shape(s) =>
    LET r == EscapedLessThan(s)
    IN  /\ Opened(s, r) /\ r.state = "SCRIPT_DATA_ESCAPED_LT" /\ r.tmp = <<>>
        /\ r.return = s.return
<1>1. SUFFICES ASSUME NEW s, Shape(s)
      PROVE  LET r == EscapedLessThan(s)
             IN  /\ Opened(s, r) /\ r.state = "SCRIPT_DATA_ESCAPED_LT" /\ r.tmp = <<>>
                 /\ r.return = s.return
  OBVIOUS
<1> DEFINE x == Opens(s, "SCRIPT_DATA_ESCAPED_LT")
           r == EscapedLessThan(s)
<1>2. Opened(s, x) /\ x.state = "SCRIPT_DATA_ESCAPED_LT" /\ x.return = s.return
  BY <1>1, OpensIs
<1>3. r = [x EXCEPT !.tmp = <<>>]
  BY DEF EscapedLessThan, clear_temporary_buffer
<1> HIDE DEF x, r
<1>4. /\ Opened(s, r) /\ r.state = x.state /\ r.tmp = <<>> /\ r.return = x.return
  BY <1>2, <1>3 DEF Opened, Shape, StateFields
<1>5. QED BY <1>2, <1>4 DEF r

\* An & that may start a reference: the mark remembers it.
LEMMA StartsReferenceIs ==
  \A s, from : Shape(s) =>
    LET r == StartsReference(s, from)
    IN  Opened(s, r) /\ r.state = "CHARACTER_REFERENCE" /\ r.return = from
BY DEF StartsReference, set_mark, gumbo_tokenizer_set_state, Shape, Opened, StateFields

OpensMarkup == {"TAG_OPEN", "RCDATA_LT", "RAWTEXT_LT", "SCRIPT_DATA_LT", "SCRIPT_DATA_ESCAPED_LT"}

\* the mark is set on what may begin markup
LEMMA TextOpens ==
  \A s, r :
    /\ Ready(s) /\ TextState(s) /\ Opened(s, r) /\ r.return \in Returns
    /\ \/ Current(s) = "<" /\ r.state \in OpensMarkup
          /\ (r.state = "SCRIPT_DATA_ESCAPED_LT" => r.tmp = <<>>)
       \/ Current(s) = "]" /\ r.state = "CDATA_SECTION_BRACKET"
       \/ Current(s) = "&" /\ r.state = "CHARACTER_REFERENCE" /\ r.return \notin InValue
    => Kept(Advanced(r))
<1>1. SUFFICES ASSUME NEW s, NEW r, Ready(s), TextState(s), Opened(s, r), r.return \in Returns,
                      \/ Current(s) = "<" /\ r.state \in OpensMarkup
                         /\ (r.state = "SCRIPT_DATA_ESCAPED_LT" => r.tmp = <<>>)
                      \/ Current(s) = "]" /\ r.state = "CDATA_SECTION_BRACKET"
                      \/ Current(s) = "&" /\ r.state = "CHARACTER_REFERENCE"
                         /\ r.return \notin InValue
      PROVE  Kept(Advanced(r))
  OBVIOUS
<1> DEFINE n == Advanced(r)
<1>2. Covered(s.start, s.pos, Dropped) /\ Closed(s) /\ s.reconsume = FALSE
  BY <1>1, ReadyText
<1>3. Kept(s) /\ text \in Seq(Symbols) /\ Places(s)
  BY <1>1 DEF Ready, Kept
<1>4. s.pos <= Len(text) /\ Current(s) = text[s.pos]
  <2>1. Current(s) # EOF
    BY <1>1 DEF EOF
  <2>2. QED BY <1>3, <2>1 DEF Current, Places
<1>5. CanEmit(r) /\ r.emitted = FALSE /\ r.resume = 0 /\ r.buffered = NoChar
  BY <1>1, <1>2, <1>3 DEF Ready, Kept, Opened, CanEmit, Places
<1>6. Moved(r, n) /\ n.pos = s.pos + 1 /\ n.mark = s.pos /\ n.start = s.start
  BY <1>1, <1>2, <1>3, <1>4, <1>5, AdvanceIs DEF CanEmit, Moved, Behind, Opened, Places
<1> HIDE DEF n
<1>7. r.state \in AllStates
  BY <1>1 DEF AllStates, OpensMarkup, Tags, EndTags, Scripts, CDatas, References
<1>8. r.state \in OpensMarkup \cup {"CDATA_SECTION_BRACKET", "CHARACTER_REFERENCE"}
  BY <1>1
<1>9. r.state \notin Plain \cup NamesEndTag \cup BuildsTag \cup Doctypes
  BY <1>8 DEF OpensMarkup, Plain, Texts, NamesEndTag, BuildsTag, Attributes, Doctypes
<1>10. ~InTag(r) /\ ~ReadsValue(r) /\ r.state # "AFTER_ATTR_NAME"
  BY <1>1, <1>8, <1>9 DEF InTag, ReadsValue, References, OpensMarkup, InValue
<1>11. r.state \in Unused => r.tmp = <<>>
  BY <1>1 DEF OpensMarkup, Unused
<1>12. Clean(n)
  BY <1>6, <1>10, <1>11 DEF Clean, ReadsValue, Moved
<1>13. \A c : Current(s) = c => MarkedAt(n, c)
  BY <1>2, <1>3, <1>4, <1>6 DEF MarkedAt, Places
<1>14. /\ r.state \in MayBeText => r.state \in OpensMarkup
       /\ r.state \in References => r.state = "CHARACTER_REFERENCE"
  BY <1>1 DEF MayBeText, NamesEndTag, OpensMarkup, References
<1>15. n.state = r.state /\ n.return = r.return /\ ~InTag(n)
  BY <1>6, <1>10 DEF Moved, InTag
<1>16. /\ n.state \in MayBeText => MarkedAt(n, "<")
       /\ n.state = "CDATA_SECTION_BRACKET" => MarkedAt(n, "]")
       /\ n.state \in References => MarkedAt(n, "&")
  BY <1>1, <1>13, <1>14, <1>15 DEF OpensMarkup
<1>17. n.state \notin Plain \cup {"END_TAG_OPEN", "MARKUP_DECLARATION_OPEN", "CDATA_SECTION_END",
                                  "AMBIGUOUS_AMPERSAND"} \cup InComment
  BY <1>1, <1>8, <1>9, <1>15 DEF OpensMarkup, InComment, Comments
<1>18. Stands(n)
  BY <1>6, <1>15, <1>16, <1>17 DEF Stands
<1>19. Owns(r)
  BY <1>1, <1>2, <1>5, <1>9, <1>10 DEF Owns, Closed, Opened
<1>20. QED BY <1>3, <1>5, <1>7, <1>12, <1>18, <1>19, QuietKept DEF n

\* the terms in which the handlers of text end
LEMMA TextEnds ==
  \A s, next :
    Ready(s) /\ TextState(s) /\ next \in Plain =>
    LET c == Current(s)
    IN  /\ Kept(Advanced(emit_char(s, c)))
        /\ Kept(Advanced(emit_char(tokenizer_add_parse_error(s), c)))
        /\ Kept(Advanced(emit_char(gumbo_tokenizer_set_state(s, next), c)))
        /\ Kept(Advanced(emit_char(clear_temporary_buffer(gumbo_tokenizer_set_state(s, next)), c)))
        /\ \A word : Kept(Advanced(emit_char(append_to_temporary_buffer(s, word), c)))
        /\ c = NUL => /\ Kept(Advanced(emit_replacement_char(s)))
                      /\ Kept(Advanced(emit_replacement_char(gumbo_tokenizer_set_state(s, next))))
        /\ c = EOF => Kept(Advanced(emit_eof(tokenizer_add_parse_error(s))))
        /\ Kept(Advanced(reconsume_in_state(s, next)))
<1>1. SUFFICES ASSUME NEW s, NEW next \in Plain, Ready(s), TextState(s)
      PROVE
    LET c == Current(s)
    IN  /\ Kept(Advanced(emit_char(s, c)))
        /\ Kept(Advanced(emit_char(tokenizer_add_parse_error(s), c)))
        /\ Kept(Advanced(emit_char(gumbo_tokenizer_set_state(s, next), c)))
        /\ Kept(Advanced(emit_char(clear_temporary_buffer(gumbo_tokenizer_set_state(s, next)), c)))
        /\ \A word : Kept(Advanced(emit_char(append_to_temporary_buffer(s, word), c)))
        /\ c = NUL => /\ Kept(Advanced(emit_replacement_char(s)))
                      /\ Kept(Advanced(emit_replacement_char(gumbo_tokenizer_set_state(s, next))))
        /\ c = EOF => Kept(Advanced(emit_eof(tokenizer_add_parse_error(s))))
        /\ Kept(Advanced(reconsume_in_state(s, next)))
  OBVIOUS
<1> DEFINE c == Current(s)
           e == tokenizer_add_parse_error(s)
           x == gumbo_tokenizer_set_state(s, next)
           y == clear_temporary_buffer(x)
           z == tokenizer_add_parse_error(x)
           g == reconsume_in_state(s, next)
<1>2. Shape(s) /\ s.reconsume = FALSE
  BY <1>1, ReadyText DEF Ready, Kept
<1>3. /\ Frame(s, s) /\ Frame(s, e) /\ With(e, s.state, FALSE, s.tmp, s.tag)
      /\ Frame(s, x) /\ With(x, next, FALSE, s.tmp, s.tag)
      /\ Frame(s, g) /\ With(g, next, TRUE, s.tmp, s.tag)
  BY <1>2, FrameSelf, ErrorFrame, StateFrame, ReconsumeFrame
<1> HIDE DEF x
<1>4. /\ Frame(s, y) /\ With(y, next, FALSE, <<>>, s.tag)
      /\ Frame(s, z) /\ With(z, next, FALSE, s.tmp, s.tag)
  <2>1. Frame(s, y) /\ With(y, next, FALSE, <<>>, s.tag)
    BY <1>3, ClearFrame DEF With
  <2>2. Frame(s, z) /\ With(z, next, FALSE, s.tmp, s.tag)
    BY <1>3, ErrorFrame DEF With
  <2>3. QED BY <2>1, <2>2
<1>5. \A word : LET a == append_to_temporary_buffer(s, word)
                IN  Frame(s, a) /\ With(a, s.state, FALSE, s.tmp \o word, s.tag)
  BY <1>2, <1>3, AppendFrame
<1>6. Reads(s, c) /\ (c = NUL => Reads(s, REPL))
  BY DEF Reads
<1>7. \A r : With(r, next, FALSE, r.tmp, s.tag) => TextState(r)
  BY <1>1 DEF With, TextState, InTag, Plain, Texts, BuildsTag, Attributes, References
<1>8. \A r : Frame(s, r) /\ With(r, s.state, FALSE, r.tmp, s.tag) => TextState(r)
  BY <1>1 DEF With, TextState, InTag, Frame
<1> HIDE DEF c, e, y, z, g
<1>9. TextState(e) /\ TextState(x) /\ TextState(y) /\ TextState(z)
  BY <1>3, <1>4, <1>7, <1>8 DEF With
<1>10. Kept(Advanced(emit_char(s, c))) /\ Kept(Advanced(emit_char(e, c)))
  BY <1>1, <1>2, <1>3, <1>6, <1>9, TextEmits DEF With
<1>11. Kept(Advanced(emit_char(x, c))) /\ Kept(Advanced(emit_char(y, c)))
  BY <1>1, <1>3, <1>4, <1>6, <1>9, TextEmits DEF With
<1>12. c = NUL => Kept(Advanced(emit_char(e, REPL))) /\ Kept(Advanced(emit_char(z, REPL)))
  BY <1>1, <1>3, <1>4, <1>6, <1>9, TextEmits DEF With
<1>13. \A word : Kept(Advanced(emit_char(append_to_temporary_buffer(s, word), c)))
  <2>1. TAKE word
  <2> DEFINE a == append_to_temporary_buffer(s, word)
  <2>2. Frame(s, a) /\ With(a, s.state, FALSE, a.tmp, s.tag)
    BY <1>5 DEF With
  <2> HIDE DEF a
  <2>3. Kept(Advanced(emit_char(a, c)))
    BY <1>1, <1>6, <1>8, <2>2, TextEmits DEF With
  <2>4. QED BY <2>3 DEF a
<1>14. Kept(Advanced(g))
  BY <1>1, <1>3, TextGoes DEF With
<1>15. QED BY <1>10, <1>11, <1>12, <1>13, <1>14
           DEF c, e, x, y, z, g, emit_replacement_char, emit_eof

(* Back to the mark. *)

\* what was taken for markup is text from its mark on
CanGoBack(y) ==
  /\ Shape(y) /\ Places(y) /\ y.return \in Returns /\ y.failed = FALSE
  /\ History(y.out, y.start) /\ Closed(y)
  /\ y.start <= y.mark /\ y.mark < y.pos /\ Covered(y.start, y.mark, Dropped)

\* emit_from_mark goes back and emits the character at the mark.
LEMMA MarkEmitted ==
  \A y : text \in Seq(Symbols) /\ CanGoBack(y) /\ TextState(y) =>
    LET r == emit_from_mark(y)
    IN  /\ Kept(r) /\ Kept(Advanced(r)) /\ r.emitted = TRUE /\ r.reconsume = FALSE
<1>1. SUFFICES ASSUME NEW y, text \in Seq(Symbols), CanGoBack(y), TextState(y)
      PROVE  LET r == emit_from_mark(y)
             IN  /\ Kept(r) /\ Kept(Advanced(r)) /\ r.emitted = TRUE /\ r.reconsume = FALSE
  OBVIOUS
<1> DEFINE q == Rewound(y)
           c == Current(q)
           r == emit_char(q, c)
<1>2. /\ Shape(q) /\ q.resume = y.pos /\ q.pos = y.mark /\ q.reconsume = FALSE
      /\ q.mark = y.mark /\ q.start = y.start /\ q.state = y.state /\ q.return = y.return
      /\ q.code = y.code /\ q.tag = y.tag /\ q.doctype = y.doctype /\ q.out = y.out
      /\ q.failed = y.failed
  BY <1>1 DEF Rewound, CanGoBack, Shape, StateFields
<1> HIDE DEF q
<1>3. CanEmit(q) /\ TextState(q) /\ Closed(q) /\ Covered(q.start, q.pos, Dropped)
  <2>1. Places(q)
    BY <1>1, <1>2 DEF CanGoBack, Places
  <2>2. TextState(q) /\ Closed(q) /\ Covered(q.start, q.pos, Dropped)
    BY <1>1, <1>2 DEF CanGoBack, TextState, InTag, Closed
  <2>3. QED BY <1>1, <1>2, <2>1, <2>2 DEF CanEmit, CanGoBack
<1>4. Reads(q, c)
  BY DEF Reads
<1> HIDE DEF c
<1>5. PICK type : Emits(q, r, type, c)
  BY <1>1, <1>2, <1>3, <1>4, CharEmitted
<1>6. Else(q, r) /\ Kept(r) /\ Kept(Advanced(r))
  BY <1>1, <1>2, <1>3, <1>4, CharEmitted
<1> HIDE DEF r
<1>7. r.emitted = TRUE /\ r.reconsume = FALSE
  BY <1>2, <1>5, <1>6 DEF Emits, Else
<1>8. maybe_emit_from_mark(q) = r
  <2>1. q.resume # 0 /\ ~(q.pos >= q.resume)
    BY <1>1, <1>2 DEF CanGoBack, Places
  <2>2. assert(q, ~q.reconsume) = q
    BY <1>2 DEF assert
  <2>3. QED BY <2>1, <2>2 DEF maybe_emit_from_mark, r, c
<1>9. emit_from_mark(y) = r
  BY <1>7, <1>8 DEF emit_from_mark, assert, q
<1>10. QED BY <1>6, <1>7, <1>9

\* What was taken for markup turns out to be text.
LEMMA BackKept ==
  \A x, state : text \in Seq(Symbols) /\ CanGoBack(x) /\ state \in Plain =>
    Kept(Advanced(Back(x, state)))
<1>1. SUFFICES ASSUME NEW x, NEW state \in Plain, text \in Seq(Symbols), CanGoBack(x)
      PROVE  Kept(Advanced(Back(x, state)))
  OBVIOUS
<1> DEFINE y == reconsume_in_state(x, state)
<1>2. Frame(x, y) /\ With(y, state, TRUE, x.tmp, x.tag)
  BY <1>1, FrameSelf, ReconsumeFrame DEF CanGoBack
<1> HIDE DEF y
<1>3. CanGoBack(y)
  BY <1>1, <1>2 DEF CanGoBack, Frame, With, Places, Closed
<1>4. TextState(y)
  BY <1>2 DEF TextState, With, InTag, Plain, Texts, BuildsTag, Attributes, References
<1>5. QED BY <1>1, <1>3, <1>4, MarkEmitted DEF Back, y

\* The tokenizer can go back to a mark that it remembers.
LEMMA MarkedCan ==
  \A s, x, c : Ready(s) /\ MarkedAt(s, c) /\ Frame(s, x) /\ Closed(x) => CanGoBack(x)
BY DEF Ready, Kept, MarkedAt, Frame, CanGoBack, Places, Returns

\* no tag and no doctype is open here
LEMMA ReadyClosed ==
  \A s : Ready(s) /\ ~InTag(s) /\ s.state \notin Doctypes => Closed(s) /\ s.reconsume = FALSE
BY DEF Ready, Kept, Owns, Closed

(* ----------------------------- The text handlers --------------------------- *)

\* The states DATA, RCDATA, RAWTEXT, SCRIPT_DATA and PLAINTEXT.
LEMMA LexTextKept ==
  ASSUME NEW s, Ready(s), s.state \in Texts
  PROVE  Kept(Advanced(LexText(s, Current(s))))
<1> DEFINE c == Current(s)
           r == LexText(s, c)
<1>1. Ready(s) /\ TextState(s) /\ Shape(s)
  BY DEF TextState, Plain, Texts, InTag, BuildsTag, Attributes, References, Ready, Kept
<1>2. /\ Kept(Advanced(emit_char(s, c)))
      /\ Kept(Advanced(emit_char(tokenizer_add_parse_error(s), c)))
      /\ c = NUL => Kept(Advanced(emit_replacement_char(s)))
  BY <1>1, TextEnds DEF Plain, Texts
<1>3. \A state \in OpensMarkup \ {"SCRIPT_DATA_ESCAPED_LT"} :
        c = "<" => Kept(Advanced(Opens(s, state)))
  BY <1>1, OpensIs, TextOpens DEF Ready, Kept, Returns
<1>4. \A from \in {"DATA", "RCDATA"} : c = "&" => Kept(Advanced(StartsReference(s, from)))
  <2>1. SUFFICES ASSUME NEW from \in {"DATA", "RCDATA"}, c = "&"
        PROVE  Kept(Advanced(StartsReference(s, from)))
    OBVIOUS
  <2>2. from \in Returns /\ from \notin InValue
    BY DEF Returns, InValue
  <2>3. QED BY <1>1, <2>1, <2>2, StartsReferenceIs, TextOpens
<1>5. \/ s.state = "DATA" /\ r = handle_data_state(s, c)
      \/ s.state = "RCDATA" /\ r = handle_rcdata_state(s, c)
      \/ s.state = "RAWTEXT" /\ r = handle_rawtext_state(s, c)
      \/ s.state = "SCRIPT_DATA" /\ r = handle_script_data_state(s, c)
      \/ s.state = "PLAINTEXT" /\ r = handle_plaintext_state(s, c)
  BY DEF LexText, Texts
<1> HIDE DEF c, r
<1>6. Kept(Advanced(handle_data_state(s, c)))
  BY <1>2, <1>3, <1>4 DEF handle_data_state, OpensMarkup, NUL
<1>7. Kept(Advanced(handle_rcdata_state(s, c)))
  BY <1>2, <1>3, <1>4 DEF handle_rcdata_state, OpensMarkup, NUL
<1>8. Kept(Advanced(handle_rawtext_state(s, c)))
  BY <1>2, <1>3 DEF handle_rawtext_state, OpensMarkup, NUL
<1>9. Kept(Advanced(handle_script_data_state(s, c)))
  BY <1>2, <1>3 DEF handle_script_data_state, OpensMarkup, NUL
<1>10. Kept(Advanced(handle_plaintext_state(s, c)))
  BY <1>2 DEF handle_plaintext_state
<1>11. QED BY <1>5, <1>6, <1>7, <1>8, <1>9, <1>10 DEF c, r

(* CDATA sections *)
LEMMA LexCDataKept ==
  ASSUME NEW s, Ready(s), s.state \in CDatas
  PROVE  Kept(Advanced(LexCData(s, Current(s))))
<1> DEFINE c == Current(s)
           r == LexCData(s, c)
<1>1. Kept(s) /\ Shape(s) /\ Places(s) /\ Stands(s) /\ text \in Seq(Symbols)
  BY DEF Ready, Kept
<1>2. ~InTag(s) /\ s.state \notin Doctypes
  BY DEF CDatas, InTag, BuildsTag, Attributes, References, Doctypes
<1>3. Closed(s) /\ s.reconsume = FALSE /\ Frame(s, s)
  BY <1>1, <1>2, ReadyClosed, FrameSelf
<1>4. CASE s.state = "CDATA_SECTION"
  <2>1. TextState(s)
    BY <1>2, <1>4 DEF TextState, Plain
  <2>2. /\ Kept(Advanced(emit_char(s, c)))
        /\ c = EOF => Kept(Advanced(emit_eof(tokenizer_add_parse_error(s))))
    BY <2>1, TextEnds DEF Plain
  <2>3. c = "]" => Kept(Advanced(Opens(s, "CDATA_SECTION_BRACKET")))
    BY <1>1, <2>1, OpensIs, TextOpens DEF Kept, Returns
  <2>4. r = handle_cdata_section_state(s, c)
    BY <1>4 DEF LexCData
  <2> HIDE DEF c, r
  <2>5. Kept(Advanced(handle_cdata_section_state(s, c)))
    BY <2>2, <2>3 DEF handle_cdata_section_state, EOF
  <2>6. QED BY <2>4, <2>5 DEF c, r
<1>5. CASE s.state = "CDATA_SECTION_BRACKET"
  <2>1. s.pos = s.mark + 1 /\ MarkedAt(s, "]")
    BY <1>1, <1>5 DEF Stands
  <2>2. Kept(Advanced(Back(s, "CDATA_SECTION")))
    BY <1>1, <1>3, <2>1, MarkedCan, BackKept DEF Plain
  <2>3. r = handle_cdata_section_bracket_state(s, c)
    BY <1>5 DEF LexCData
  <2>4. ASSUME c = "]"
        PROVE  Kept(Advanced(gumbo_tokenizer_set_state(s, "CDATA_SECTION_END")))
    <3> DEFINE x == gumbo_tokenizer_set_state(s, "CDATA_SECTION_END")
               n == Advanced(x)
    <3>1. Frame(s, x) /\ With(x, "CDATA_SECTION_END", FALSE, s.tmp, s.tag)
      BY <1>3, StateFrame
    <3> HIDE DEF x
    <3>2. CanEmit(x) /\ x.emitted = FALSE /\ x.resume = 0 /\ x.buffered = NoChar
      BY <3>1, FrameCan DEF With
    <3>3. s.pos <= Len(text) /\ text[s.pos] = "]"
      BY <1>1, <2>4 DEF Current, EOF, Places
    <3>4. Moved(x, n) /\ n.pos = s.mark + 2 /\ n.mark = s.mark /\ n.start = s.start
      BY <2>1, <3>1, <3>2, <3>3, AdvanceIs, <1>1 DEF CanEmit, Moved, Behind, Frame, With, Places
    <3> HIDE DEF n
    <3>5. n.state = "CDATA_SECTION_END" /\ ~InTag(n)
      BY <3>1, <3>4 DEF Moved, With, InTag, BuildsTag, Attributes, References
    <3>6. MarkedAt(n, "]") /\ text[n.mark + 1] = "]"
      BY <1>1, <2>1, <3>3, <3>4 DEF MarkedAt, Places
    <3>7. Stands(n)
      BY <3>4, <3>5, <3>6, NoComments DEF Stands, Plain, Texts, MayBeText, NamesEndTag, References
    <3>8. Clean(n)
      BY <3>5 DEF Clean, Unused, ReadsValue, InValue, References
    <3>9. Owns(x) /\ x.state \in AllStates
      BY <1>3, <3>1, <3>2 DEF Owns, Closed, With, Frame, InTag, BuildsTag, Attributes,
                              References, Doctypes, AllStates, CDatas
    <3>10. QED BY <1>1, <3>2, <3>7, <3>8, <3>9, QuietKept DEF n, x
  <2> HIDE DEF c, r
  <2>5. Kept(Advanced(handle_cdata_section_bracket_state(s, c)))
    BY <2>2, <2>4 DEF handle_cdata_section_bracket_state
  <2>6. QED BY <2>3, <2>5 DEF c, r
<1>6. CASE s.state = "CDATA_SECTION_END"
  <2>1. s.pos = s.mark + 2 /\ text[s.mark + 1] = "]" /\ MarkedAt(s, "]")
    BY <1>1, <1>6 DEF Stands
  <2>2. Kept(Advanced(Back(s, "CDATA_SECTION")))
    BY <1>1, <1>3, <2>1, MarkedCan, BackKept DEF Plain
  <2>3. r = handle_cdata_section_end_state(s, c)
    BY <1>6 DEF LexCData
  <2> DEFINE y == gumbo_tokenizer_set_state(s, "CDATA_SECTION")
             x == set_mark([emit_from_mark(y) EXCEPT !.resume = 0])
             z == [reconsume_in_state(reset_token_start_point(utf8iterator_next(s)), "DATA")
                   EXCEPT !.cdata = FALSE]
  <2>4. Kept(Advanced(x))
    <3> DEFINE e == emit_from_mark(y)
               n == Advanced(x)
    <3>1. Frame(s, y) /\ With(y, "CDATA_SECTION", FALSE, s.tmp, s.tag)
      BY <1>3, StateFrame
    <3> HIDE DEF y
    <3>2. CanGoBack(y) /\ TextState(y)
      BY <1>3, <2>1, <3>1, MarkedCan
         DEF Closed, Frame, With, TextState, Plain, InTag, BuildsTag, Attributes, References
    <3>3. Kept(e) /\ e.emitted = TRUE /\ e.reconsume = FALSE
      BY <1>1, <3>2, MarkEmitted
    <3> HIDE DEF e
    <3>4. x = [e EXCEPT !.resume = 0, !.mark = e.pos]
      BY <3>3 DEF set_mark, e, Kept, Shape, StateFields
    <3>5. n = [x EXCEPT !.reconsume = FALSE]
      BY <3>3, <3>4 DEF Advanced, Kept, Shape, StateFields
    <3> HIDE DEF x
    <3>6. /\ Shape(n) /\ n.pos = e.pos /\ n.mark = e.pos /\ n.resume = 0 /\ n.start = e.start
          /\ n.state = e.state /\ n.return = e.return /\ n.reconsume = FALSE
          /\ n.buffered = e.buffered /\ n.code = e.code /\ n.tag = e.tag
          /\ n.doctype = e.doctype /\ n.out = e.out /\ n.emitted = TRUE /\ n.failed = e.failed
      BY <3>3, <3>4, <3>5, ZenonT(60) DEF Kept, Shape, StateFields
    <3> HIDE DEF n
    <3>7. Places(n)
      BY <3>3, <3>6 DEF Kept, Places
    <3>8. Owns(n) /\ Between(n)
      BY <3>3, <3>6 DEF Kept, Owns, Between, InTag, Ended, Steady
    <3>9. QED BY <3>3, <3>6, <3>7, <3>8 DEF Kept, n
  <2>5. ASSUME c = ">" PROVE Kept(Advanced(z))
    <3> DEFINE n == Advanced(z)
    <3>1. s.pos <= Len(text) /\ text[s.pos] = ">"
      BY <1>1, <2>5 DEF Current, EOF, Places
    <3>2. /\ Shape(z) /\ z.pos = s.pos + 1 /\ z.start = s.pos + 1 /\ z.mark = s.mark
          /\ z.resume = s.resume /\ z.state = "DATA" /\ z.return = s.return
          /\ z.reconsume = TRUE /\ z.buffered = s.buffered /\ z.code = s.code /\ z.tag = s.tag
          /\ z.doctype = s.doctype /\ z.out = s.out /\ z.emitted = s.emitted
          /\ z.failed = s.failed
      BY <1>1, <3>1 DEF utf8iterator_next, reset_token_start_point, reconsume_in_state, Shape,
                        StateFields, Places
    <3> HIDE DEF z
    <3>3. Covered(s.start, s.pos + 1, Dropped \cup Brackets)
      <4> DEFINE word == <<"]", "]", ">">>
      <4>1. word \in Dropped \cup Brackets /\ word \in Seq(Marks) /\ Len(word) = 3
        BY WordsAre DEF Brackets
      <4>2. word[1] = "]" /\ word[2] = "]" /\ word[3] = ">"
        OBVIOUS
      <4> HIDE DEF word
      <4>3. s.mark \in Nat /\ s.start \in Nat /\ s.start <= s.mark /\ s.pos + 1 = s.mark + 3
            /\ s.pos \in Nat
        BY <1>1, <2>1, SMTT(30) DEF MarkedAt, Places
      <4>4. Held(word, s.mark, s.mark + Len(word))
        <5>1. \A j \in 1 .. Len(word) : text[s.mark + j - 1] = word[j]
          <6>1. TAKE j \in 1 .. Len(word)
          <6>2. j \in {1, 2, 3}
            BY <4>1
          <6>3. text[s.mark] = "]" /\ text[s.mark + 1] = "]" /\ text[s.mark + 2] = ">"
            BY <2>1, <3>1 DEF MarkedAt
          <6>4. CASE j = 1
            BY <4>2, <4>3, <6>3, <6>4
          <6>5. CASE j = 2
            BY <4>2, <4>3, <6>3, <6>5
          <6>6. CASE j = 3
            BY <4>2, <4>3, <6>3, <6>6
          <6>7. QED BY <6>2, <6>4, <6>5, <6>6
        <5>2. QED BY <4>1, <4>3, <5>1 DEF Held
      <4>5. Covered(s.mark, s.mark + Len(word), Dropped \cup Brackets)
        BY <4>1, <4>3, <4>4, CoveredWord
      <4>6. Covered(s.start, s.mark, Dropped \cup Brackets)
        BY <2>1, CoveredMore DEF MarkedAt
      <4>7. Covered(s.start, s.mark + 3, Dropped \cup Brackets)
        BY <4>1, <4>3, <4>5, <4>6, CoveredJoins, WordsAre
      <4>8. QED BY <4>3, <4>7
    <3>4. History(z.out, z.start)
      <4>1. History(s.out, s.start) /\ s.start \in Nat /\ s.pos + 1 \in Nat /\ s.start <= s.pos + 1
        BY <1>1 DEF Kept, Places
      <4>2. History(s.out, s.pos + 1)
        BY <3>3, <4>1, HistoryMoves
      <4>3. QED BY <3>2, <4>2
    <3>5. CanEmit(z) /\ z.emitted = FALSE /\ z.resume = 0 /\ z.buffered = NoChar
      <4>1. Places(z)
        BY <1>1, <3>1, <3>2 DEF Places
      <4>2. QED BY <3>2, <3>4, <4>1 DEF CanEmit, Ready, Kept, Returns
    <3>6. Moved(z, n) /\ n.pos = s.pos + 1 /\ n.start = s.pos + 1 /\ n.state = "DATA"
      BY <3>2, <3>5, AdvanceIs DEF CanEmit, Moved, Behind
    <3> HIDE DEF n
    <3>7. /\ ~InTag(n) /\ ~InTag(z)
          /\ Covered(n.start, n.pos, Dropped)
      BY <1>1, <3>2, <3>6, CoveredNothing DEF InTag, BuildsTag, Attributes, References, Places
    <3>8. Stands(n) /\ Clean(n)
      BY <3>6, <3>7 DEF Stands, Clean, MayBeText, NamesEndTag, References, Unused, ReadsValue,
                        InValue, InComment, Comments
    <3>9. Owns(z) /\ z.state \in AllStates
      BY <1>3, <3>2, <3>5, <3>7 DEF Owns, Closed, Doctypes, AllStates, Texts
    <3>10. QED BY <1>1, <3>5, <3>8, <3>9, QuietKept DEF n
  <2> HIDE DEF c, r, x, z
  <2>6. Kept(Advanced(handle_cdata_section_end_state(s, c)))
    BY <2>2, <2>4, <2>5 DEF handle_cdata_section_end_state, x, y, z
  <2>7. QED BY <2>3, <2>6 DEF c, r
<1>7. QED BY <1>4, <1>5, <1>6 DEF CDatas

(* ----------------------------------- Tags ---------------------------------- *)

\* While a tag is read its buffers are open.
LEMMA ReadyTag ==
  \A s : Ready(s) /\ InTag(s) =>
    /\ s.tag.open /\ s.tag.open = s.tag.listed /\ ~s.doctype.owned
    /\ text[s.start] = "<" /\ s.start < s.pos /\ Shape(s) /\ Places(s) /\ s.reconsume = FALSE
    /\ text \in Seq(Symbols) /\ Frame(s, s)
<1>1. SUFFICES ASSUME NEW s, Ready(s), InTag(s)
      PROVE  /\ s.tag.open /\ s.tag.open = s.tag.listed /\ ~s.doctype.owned
             /\ text[s.start] = "<" /\ s.start < s.pos /\ Shape(s) /\ Places(s)
             /\ s.reconsume = FALSE /\ text \in Seq(Symbols) /\ Frame(s, s)
  OBVIOUS
<1>2. s.state \notin Doctypes
  BY <1>1 DEF InTag, BuildsTag, Attributes, References, Doctypes
<1>3. Kept(s) /\ s.emitted = FALSE /\ Owns(s) /\ Stands(s)
  BY <1>1 DEF Ready, Kept
<1>4. s.tag.open /\ s.tag.open = s.tag.listed
  BY <1>1, <1>3 DEF Owns
<1>5. ~s.doctype.owned
  BY <1>2, <1>3 DEF Owns
<1>6. QED BY <1>1, <1>3, <1>4, <1>5, FrameSelf DEF Stands, Ready, Kept

\* a tag goes on
LEMMA TagGoes ==
  \A s, r :
    /\ Ready(s) /\ InTag(s) /\ Frame(s, r) /\ r.tag.open /\ r.tag.open = r.tag.listed
    /\ r.reconsume \in BOOLEAN /\ r.state \in BuildsTag
    /\ r.state \in NamesEndTag => s.state \in NamesEndTag
    /\ ReadsValue(r) => Valued(r.tag)
    /\ r.state = "AFTER_ATTR_NAME" =>
         Valued(r.tag) \/ (r.reconsume /\ Current(s) \in {"/", ">", EOF})
    => Kept(Advanced(r))
<1>1. SUFFICES ASSUME NEW s, NEW r, Ready(s), InTag(s), Frame(s, r),
                      r.tag.open, r.tag.open = r.tag.listed, r.reconsume \in BOOLEAN,
                      r.state \in BuildsTag, r.state \in NamesEndTag => s.state \in NamesEndTag,
                      ReadsValue(r) => Valued(r.tag),
                      r.state = "AFTER_ATTR_NAME" =>
                        Valued(r.tag) \/ (r.reconsume /\ Current(s) \in {"/", ">", EOF})
      PROVE  Kept(Advanced(r))
  OBVIOUS
<1> DEFINE n == Advanced(r)
<1>2. /\ ~s.doctype.owned /\ text[s.start] = "<" /\ s.start < s.pos /\ Places(s)
      /\ text \in Seq(Symbols) /\ Stands(s)
  BY <1>1, ReadyTag DEF Ready, Kept
<1>3. CanEmit(r) /\ r.emitted = FALSE /\ r.resume = 0 /\ r.buffered = NoChar
  BY <1>1, FrameCan
<1>4. Moved(r, n) /\ n.pos \in s.pos .. Len(text) + 1 /\ n.start = s.start /\ n.mark = s.mark
      /\ (r.reconsume => n.pos = s.pos)
  BY <1>1, <1>2, <1>3, AdvanceIs DEF CanEmit, Moved, Behind, Frame, Places
<1> HIDE DEF n
<1>5. r.state \notin Plain \cup References \cup Doctypes \cup Unused
      /\ (r.state \in MayBeText => r.state \in NamesEndTag)
      /\ r.state \notin {"TAG_OPEN", "END_TAG_OPEN", "MARKUP_DECLARATION_OPEN",
                         "CDATA_SECTION_BRACKET", "CDATA_SECTION_END", "AMBIGUOUS_AMPERSAND"}
  BY <1>1 DEF BuildsTag, Attributes, Plain, Texts, References, Doctypes, Unused, MayBeText
<1>6. r.state \in AllStates
  BY <1>1 DEF AllStates, BuildsTag, Attributes, Tags, EndTags, Scripts
<1>7. InTag(r) /\ Owns(r)
  BY <1>1, <1>2, <1>3, <1>5 DEF InTag, Owns, Frame
<1>8. Clean(n)
  <2>1. ReadsValue(n) => Valued(n.tag)
    BY <1>1, <1>4 DEF ReadsValue, Moved
  <2>2. r.reconsume => Current(n) = Current(s)
    BY <1>4 DEF Current
  <2>3. QED BY <1>1, <1>4, <1>5, <2>1, <2>2 DEF Clean, Moved
<1>9. n.state \in MayBeText => MarkedAt(n, "<")
  <2>1. SUFFICES ASSUME n.state \in MayBeText PROVE MarkedAt(n, "<")
    OBVIOUS
  <2>2. MarkedAt(s, "<")
    BY <1>1, <1>2, <1>4, <1>5, <2>1 DEF Stands, MayBeText, Moved
  <2>3. QED BY <1>2, <1>4, <2>2 DEF MarkedAt, Places
<1>10. InTag(n) => text[n.start] = "<" /\ n.start < n.pos
  BY <1>2, <1>4 DEF Places
<1>11. n.state = r.state
  BY <1>4 DEF Moved
<1>12. n.state \notin InComment
  BY <1>1, <1>11, NoComments
<1>13. Stands(n)
  BY <1>5, <1>9, <1>10, <1>11, <1>12 DEF Stands
<1>14. QED BY <1>2, <1>3, <1>6, <1>7, <1>8, <1>13, QuietKept DEF n

\* a tag begins, with the letter after < or </
LEMMA TagBegins ==
  \A s, state, start :
    /\ Ready(s) /\ MarkedAt(s, "<") /\ Closed(s) /\ is_alpha(Current(s))
    /\ state \in NamesEndTag \cup {"TAG_NAME"}
    => Kept(Advanced(start_new_tag(reconsume_in_state(s, state), start)))
<1>1. SUFFICES ASSUME NEW s, NEW state \in NamesEndTag \cup {"TAG_NAME"}, NEW start,
                      Ready(s), MarkedAt(s, "<"), Closed(s), is_alpha(Current(s))
      PROVE  Kept(Advanced(start_new_tag(reconsume_in_state(s, state), start)))
  OBVIOUS
<1> DEFINE x == reconsume_in_state(s, state)
           r == start_new_tag(x, start)
           n == Advanced(r)
<1>2. Frame(s, x) /\ With(x, state, TRUE, s.tmp, s.tag)
  BY <1>1, FrameSelf, ReconsumeFrame DEF Ready, Kept
<1>3. Current(x) = Current(s)
  BY <1>2 DEF Current, Frame
<1> HIDE DEF x
<1>4. Frame(s, r) /\ WithTag(x, r) /\ r.tag.open = TRUE /\ r.tag.listed = TRUE
  BY <1>1, <1>2, <1>3, StartFrame DEF Closed, With
<1> HIDE DEF r
<1>5. r.state = state /\ r.reconsume = TRUE
  BY <1>2, <1>4 DEF With, WithTag
<1>6. CanEmit(r) /\ r.emitted = FALSE /\ r.resume = 0 /\ r.buffered = NoChar
  BY <1>1, <1>4, <1>5, FrameCan
<1>7. Moved(r, n) /\ n.pos = s.pos /\ n.start = s.start /\ n.mark = s.mark
  BY <1>4, <1>5, <1>6, AdvanceIs DEF CanEmit, Moved, Behind, Frame
<1> HIDE DEF n
<1>8. /\ state \notin Plain \cup References \cup Doctypes \cup Unused
      /\ state \notin {"TAG_OPEN", "END_TAG_OPEN", "MARKUP_DECLARATION_OPEN", "AFTER_ATTR_NAME",
                       "BEFORE_ATTR_VALUE", "AFTER_ATTR_VALUE_QUOTED",
                       "CDATA_SECTION_BRACKET", "CDATA_SECTION_END", "AMBIGUOUS_AMPERSAND"}
      /\ state \notin InValue \cup InComment /\ state \in BuildsTag /\ state \in AllStates
  BY <1>1, NoComments DEF NamesEndTag, BuildsTag, Plain, Texts, References, Doctypes, Unused, InValue,
              AllStates, EndTags, Scripts, Tags
<1>9. Owns(r)
  BY <1>1, <1>4, <1>5, <1>6, <1>8 DEF Owns, InTag, Closed, Frame
<1>10. n.state = state
  BY <1>5, <1>7 DEF Moved
<1>11. Clean(n)
  BY <1>8, <1>10 DEF Clean, ReadsValue
<1>12. MarkedAt(n, "<")
  BY <1>1, <1>7 DEF MarkedAt
<1>13. text[n.start] = "<" /\ n.start < n.pos
  <2>1. s.start \in Nat /\ s.mark \in Nat /\ s.pos \in Nat
    BY <1>1 DEF Ready, Kept, Places
  <2>2. text[s.start] = "<"
    BY <1>1, <2>1, StartsWithLess DEF MarkedAt
  <2>3. QED BY <1>1, <1>7, <2>1, <2>2 DEF MarkedAt
<1>14. Stands(n)
  BY <1>8, <1>10, <1>12, <1>13 DEF Stands
<1>15. QED BY <1>1, <1>5, <1>6, <1>8, <1>9, <1>11, <1>14, QuietKept DEF n, r, x, Ready

\* a tag ends with its >
LEMMA TagEnds ==
  \A s, x :
    /\ Ready(s) /\ InTag(s) /\ Frame(s, x) /\ x.tag.open /\ x.reconsume = FALSE
    /\ Current(s) = ">"
    => Kept(Advanced(TagDone(x)))
<1>1. SUFFICES ASSUME NEW s, NEW x, Ready(s), InTag(s), Frame(s, x), x.tag.open,
                      x.reconsume = FALSE, Current(s) = ">"
      PROVE  Kept(Advanced(TagDone(x)))
  OBVIOUS
<1> DEFINE y == gumbo_tokenizer_set_state(x, "DATA")
           r == TagDone(x)
<1>2. Frame(s, y) /\ With(y, "DATA", FALSE, x.tmp, x.tag)
  BY <1>1, StateFrame
<1>3. r = emit_current_tag(y)
  BY DEF TagDone
<1> HIDE DEF y, r
<1>4. /\ ~s.doctype.owned /\ text[s.start] = "<" /\ s.start < s.pos /\ Places(s)
      /\ text \in Seq(Symbols)
  BY <1>1, ReadyTag
<1>5. CanEmit(y) /\ y.resume = 0 /\ y.buffered = NoChar
  BY <1>1, <1>2, FrameCan DEF With
<1>6. s.pos <= Len(text) /\ text[s.pos] = ">"
  BY <1>1, <1>4 DEF Current, EOF, Places
<1>7. /\ \E type \in TagTypes : \E value : TagEmitted(y, r, type, value)
      /\ Else(y, r) /\ r.doctype = y.doctype /\ r.tag.open = FALSE /\ r.tag.listed = FALSE
  <2>1. Shape(y) /\ y.tag.open /\ y.reconsume = FALSE
    BY <1>1, <1>2 DEF Frame, With
  <2>2. /\ y.start = s.start /\ y.pos = s.pos /\ s.start \in Nat /\ s.pos \in Nat
        /\ Len(text) \in Nat
    BY <1>2, <1>4 DEF Frame, Places
  <2>3. QED BY <1>3, <1>4, <1>6, <2>1, <2>2, TagIs
<1>8. Closed(r)
  <2>1. y.doctype.owned = s.doctype.owned
    BY <1>2 DEF Frame
  <2>2. s.doctype.owned = FALSE
    BY <1>1 DEF Ready, Kept, Owns, InTag, BuildsTag, Attributes, References, Doctypes
  <2>3. QED BY <1>7, <2>1, <2>2 DEF Closed
<1>9. PICK type \in TagTypes : \E value : TagEmitted(y, r, type, value)
  BY <1>7
<1>10. PICK value : TagEmitted(y, r, type, value)
  BY <1>9
<1>11. y.state = "DATA" /\ Else(y, r)
  BY <1>2, <1>7 DEF With
<1>12. type # "COMMENT"
  BY <1>9 DEF TagTypes
<1>13. QED BY <1>4, <1>5, <1>8, <1>10, <1>11, <1>12, MarkupEmitted DEF r, TagEmitted

\* the text ends in a tag
LEMMA TagEof ==
  \A s, z :
    /\ Ready(s) /\ InTag(s) /\ Frame(s, z) /\ z.tag.open /\ z.state = s.state
    /\ z.reconsume = FALSE
    => Kept(Advanced(EofInTag(z)))
<1>1. SUFFICES ASSUME NEW s, NEW z, Ready(s), InTag(s), Frame(s, z), z.tag.open,
                      z.state = s.state, z.reconsume = FALSE
      PROVE  Kept(Advanced(EofInTag(z)))
  OBVIOUS
<1> DEFINE x == tokenizer_add_parse_error(z)
           y == abandon_current_tag(x)
<1>2. text \in Seq(Symbols)
  BY <1>1, ReadyTag
<1>3. Frame(s, x) /\ With(x, s.state, FALSE, z.tmp, z.tag)
  BY <1>1, ErrorFrame
<1> HIDE DEF x
<1>4. Frame(s, y) /\ WithTag(x, y) /\ y.tag.open = FALSE /\ y.tag.listed = FALSE
  BY <1>1, <1>3, AbandonFrame DEF With
<1> HIDE DEF y
<1>5. CanEmit(y) /\ y.resume = 0 /\ y.buffered = NoChar
  BY <1>1, <1>3, <1>4, FrameCan DEF With, WithTag
<1>6. y.doctype.owned = FALSE
  <2>1. s.doctype.owned = FALSE
    BY <1>1 DEF Ready, Kept, Owns, InTag, BuildsTag, Attributes, References, Doctypes
  <2>2. QED BY <1>4, <2>1 DEF Frame
<1>7. y.state \in AllStates
  BY <1>1, <1>3, <1>4 DEF WithTag, With, Ready, Kept
<1>8. QED BY <1>2, <1>4, <1>5, <1>6, <1>7, EofEmitted DEF EofInTag, x, y, Closed

\* r is s, in a tag that is being built
TagFrame(s, r, state, reconsume, valued) ==
  /\ Frame(s, r) /\ r.state = state /\ r.reconsume = reconsume
  /\ r.tag.open /\ r.tag.open = r.tag.listed
  /\ valued => Valued(r.tag)

\* Each operation on the tag keeps what a handler of tags has to keep.
LEMMA TagOps ==
  \A z, x, state, reconsume, valued : TagFrame(z, x, state, reconsume, valued) =>
    /\ TagFrame(z, tokenizer_add_parse_error(x), state, reconsume, valued)
    /\ \A next : /\ TagFrame(z, gumbo_tokenizer_set_state(x, next), next, reconsume, valued)
                 /\ TagFrame(z, reconsume_in_state(x, next), next, TRUE, valued)
    /\ \A word : TagFrame(z, append_to_tag_buffer(x, word), state, reconsume, valued)
    /\ TagFrame(z, finish_tag_name(x), state, reconsume, valued)
    /\ TagFrame(z, finish_attribute_name(x), state, reconsume, TRUE)
    /\ valued => TagFrame(z, finish_attribute_value(x), state, reconsume, FALSE)
<1>1. SUFFICES ASSUME NEW z, NEW x, NEW state, NEW reconsume, NEW valued,
                      TagFrame(z, x, state, reconsume, valued)
      PROVE
    /\ TagFrame(z, tokenizer_add_parse_error(x), state, reconsume, valued)
    /\ \A next : /\ TagFrame(z, gumbo_tokenizer_set_state(x, next), next, reconsume, valued)
                 /\ TagFrame(z, reconsume_in_state(x, next), next, TRUE, valued)
    /\ \A word : TagFrame(z, append_to_tag_buffer(x, word), state, reconsume, valued)
    /\ TagFrame(z, finish_tag_name(x), state, reconsume, valued)
    /\ TagFrame(z, finish_attribute_name(x), state, reconsume, TRUE)
    /\ valued => TagFrame(z, finish_attribute_value(x), state, reconsume, FALSE)
  OBVIOUS
<1>2. TagFrame(z, tokenizer_add_parse_error(x), state, reconsume, valued)
  BY <1>1, ErrorFrame DEF TagFrame, With
<1>3. \A next : /\ TagFrame(z, gumbo_tokenizer_set_state(x, next), next, reconsume, valued)
                /\ TagFrame(z, reconsume_in_state(x, next), next, TRUE, valued)
  BY <1>1, StateFrame, ReconsumeFrame DEF TagFrame, With
<1>4. \A word : TagFrame(z, append_to_tag_buffer(x, word), state, reconsume, valued)
  BY <1>1, BufferFrame DEF TagFrame, WithTag, SameTag, Valued
<1>5. TagFrame(z, finish_tag_name(x), state, reconsume, valued)
  BY <1>1, NameFrame DEF TagFrame, WithTag, SameTag, Valued
<1>6. TagFrame(z, finish_attribute_name(x), state, reconsume, TRUE)
  BY <1>1, AttributeNameFrame DEF TagFrame, WithTag, Attributed
<1>7. valued => TagFrame(z, finish_attribute_value(x), state, reconsume, FALSE)
  BY <1>1, AttributeValueFrame DEF TagFrame, WithTag, Attributed
<1>8. QED BY <1>2, <1>3, <1>4, <1>5, <1>6, <1>7

Values == {"BEFORE_ATTR_VALUE", "AFTER_ATTR_VALUE_QUOTED"} \cup InValue

Before == {"BEFORE_ATTR_NAME", "SELF_CLOSING_START_TAG", "ATTR_NAME"}

\* A handler that goes on with the tag keeps the invariant.
LEMMA TagKept ==
  \A s, r, state, reconsume, valued :
    /\ Ready(s) /\ InTag(s) /\ TagFrame(s, r, state, reconsume, valued)
    /\ reconsume \in BOOLEAN /\ state \in BuildsTag
    /\ state \in NamesEndTag => s.state \in NamesEndTag
    /\ state \in Values => valued
    /\ state = "AFTER_ATTR_NAME" => valued \/ (reconsume /\ Current(s) \in {"/", ">", EOF})
    => Kept(Advanced(r))
<1>1. \A state \in BuildsTag : state \notin References
  BY DEF BuildsTag, Attributes, References
<1>2. QED BY <1>1, TagGoes DEF TagFrame, ReadsValue, Values

\* the terms in which the handlers of tags end
LEMMA TagTerms ==
  ASSUME NEW s, Ready(s), s.state \in BuildsTag, NEW x, TagFrame(s, x, s.state, FALSE, FALSE)
  PROVE  LET c == Current(s)
         IN  /\ Kept(Advanced(EofInTag(x)))
             /\ c = ">" => /\ Kept(Advanced(TagDone(x)))
                           /\ Kept(Advanced(TagDone(tokenizer_add_parse_error(x))))
                           /\ Kept(Advanced(TagDone(finish_tag_name(x))))
             /\ \A next \in Before :
                  /\ Kept(Advanced(gumbo_tokenizer_set_state(x, next)))
                  /\ Kept(Advanced(reconsume_in_state(x, next)))
                  /\ Kept(Advanced(reconsume_in_state(tokenizer_add_parse_error(x), next)))
                  /\ Kept(Advanced(gumbo_tokenizer_set_state(finish_tag_name(x), next)))
                  /\ \A word : Kept(Advanced(append_to_tag_buffer(
                       gumbo_tokenizer_set_state(tokenizer_add_parse_error(x), next), word)))
             /\ c \in {"/", ">", EOF} => Kept(Advanced(reconsume_in_state(x, "AFTER_ATTR_NAME")))
             /\ Kept(Advanced(reconsume_in_state(finish_attribute_name(x), "AFTER_ATTR_NAME")))
             /\ Kept(Advanced(gumbo_tokenizer_set_state(finish_attribute_name(x),
                                                        "BEFORE_ATTR_VALUE")))
<1> DEFINE c == Current(s)
           e == tokenizer_add_parse_error(x)
           f == finish_tag_name(x)
           a == finish_attribute_name(x)
<1>1. InTag(s)
  BY DEF InTag
<1>2. \A next \in Before : next \in BuildsTag /\ next \notin NamesEndTag \cup Values
                           /\ next # "AFTER_ATTR_NAME"
  BY DEF Before, BuildsTag, Attributes, NamesEndTag, Values, InValue
<1>3. /\ TagFrame(s, e, s.state, FALSE, FALSE) /\ TagFrame(s, f, s.state, FALSE, FALSE)
      /\ TagFrame(s, a, s.state, FALSE, TRUE)
  BY TagOps
<1> HIDE DEF c, e, f, a
<1>4. Kept(Advanced(EofInTag(x)))
  BY <1>1, TagEof DEF TagFrame
<1>5. c = ">" => /\ Kept(Advanced(TagDone(x))) /\ Kept(Advanced(TagDone(e)))
                 /\ Kept(Advanced(TagDone(f)))
  BY <1>1, <1>3, TagEnds DEF TagFrame, c
<1>6. ASSUME NEW next \in Before
      PROVE  /\ Kept(Advanced(gumbo_tokenizer_set_state(x, next)))
             /\ Kept(Advanced(reconsume_in_state(x, next)))
             /\ Kept(Advanced(reconsume_in_state(e, next)))
             /\ Kept(Advanced(gumbo_tokenizer_set_state(f, next)))
             /\ \A word : Kept(Advanced(append_to_tag_buffer(
                  gumbo_tokenizer_set_state(e, next), word)))
  <2> DEFINE p == gumbo_tokenizer_set_state(x, next)
             q == reconsume_in_state(x, next)
             u == reconsume_in_state(e, next)
             v == gumbo_tokenizer_set_state(f, next)
             w == gumbo_tokenizer_set_state(e, next)
  <2>1. /\ TagFrame(s, p, next, FALSE, FALSE) /\ TagFrame(s, q, next, TRUE, FALSE)
        /\ TagFrame(s, u, next, TRUE, FALSE) /\ TagFrame(s, v, next, FALSE, FALSE)
        /\ TagFrame(s, w, next, FALSE, FALSE)
    BY <1>3, TagOps
  <2> HIDE DEF p, q, u, v, w
  <2>2. \A word : TagFrame(s, append_to_tag_buffer(w, word), next, FALSE, FALSE)
    BY <2>1, TagOps
  <2>3. \A r, reconsume : TagFrame(s, r, next, reconsume, FALSE) /\ reconsume \in BOOLEAN
                          => Kept(Advanced(r))
    BY <1>1, <1>2, <1>6, TagKept
  <2>4. QED BY <2>1, <2>2, <2>3 DEF p, q, u, v, w
<1>7. "AFTER_ATTR_NAME" \in BuildsTag /\ "AFTER_ATTR_NAME" \notin NamesEndTag \cup Values
      /\ "BEFORE_ATTR_VALUE" \in BuildsTag /\ "BEFORE_ATTR_VALUE" \notin NamesEndTag
  BY DEF BuildsTag, Attributes, NamesEndTag, Values, InValue
<1>8. c \in {"/", ">", EOF} => Kept(Advanced(reconsume_in_state(x, "AFTER_ATTR_NAME")))
  <2>1. TagFrame(s, reconsume_in_state(x, "AFTER_ATTR_NAME"), "AFTER_ATTR_NAME", TRUE, FALSE)
    BY TagOps
  <2>2. QED BY <1>1, <1>7, <2>1, TagKept DEF c
<1>9. Kept(Advanced(reconsume_in_state(a, "AFTER_ATTR_NAME")))
  <2>1. TagFrame(s, reconsume_in_state(a, "AFTER_ATTR_NAME"), "AFTER_ATTR_NAME", TRUE, TRUE)
    BY <1>3, TagOps
  <2>2. QED BY <1>1, <1>7, <2>1, TagKept
<1>10. Kept(Advanced(gumbo_tokenizer_set_state(a, "BEFORE_ATTR_VALUE")))
  <2>1. TagFrame(s, gumbo_tokenizer_set_state(a, "BEFORE_ATTR_VALUE"), "BEFORE_ATTR_VALUE",
                 FALSE, TRUE)
    BY <1>3, TagOps
  <2>2. QED BY <1>1, <1>7, <2>1, TagKept
<1>11. QED BY <1>4, <1>5, <1>6, <1>8, <1>9, <1>10 DEF c, e, f, a

\* What a handler of tags begins with.
LEMMA ReadyFrame ==
  \A s : Ready(s) /\ s.state \in BuildsTag =>
    /\ InTag(s) /\ TagFrame(s, s, s.state, FALSE, Valued(s.tag))
    /\ TagFrame(s, s, s.state, FALSE, FALSE)
    /\ s.state \in Values => Valued(s.tag)
    /\ s.state = "AFTER_ATTR_NAME" => Valued(s.tag) \/ Current(s) \in {"/", ">", EOF}
<1>1. SUFFICES ASSUME NEW s, Ready(s), s.state \in BuildsTag
      PROVE  /\ InTag(s) /\ TagFrame(s, s, s.state, FALSE, Valued(s.tag))
             /\ TagFrame(s, s, s.state, FALSE, FALSE)
             /\ s.state \in Values => Valued(s.tag)
             /\ s.state = "AFTER_ATTR_NAME" => Valued(s.tag) \/ Current(s) \in {"/", ">", EOF}
  OBVIOUS
<1>2. InTag(s)
  BY <1>1 DEF InTag
<1>3. Clean(s)
  BY <1>1 DEF Ready, Kept
<1>4. QED BY <1>1, <1>2, <1>3, ReadyTag DEF TagFrame, Clean, ReadsValue, Values

\* the text of a name or of a value goes on
LEMMA TagAppends ==
  ASSUME NEW s, Ready(s), s.state \in BuildsTag, s.state # "AFTER_ATTR_NAME"
  PROVE  /\ Kept(Advanced(NullInTag(s)))
         /\ \A word : /\ Kept(Advanced(append_to_tag_buffer(s, word)))
                      /\ Kept(Advanced(append_to_tag_buffer(tokenizer_add_parse_error(s), word)))
<1> DEFINE e == tokenizer_add_parse_error(s)
<1>1. InTag(s) /\ TagFrame(s, s, s.state, FALSE, Valued(s.tag))
      /\ (s.state \in Values => Valued(s.tag))
  BY ReadyFrame
<1>2. TagFrame(s, e, s.state, FALSE, Valued(s.tag))
  BY <1>1, TagOps
<1> HIDE DEF e
<1>3. \A word : /\ TagFrame(s, append_to_tag_buffer(s, word), s.state, FALSE, Valued(s.tag))
                /\ TagFrame(s, append_to_tag_buffer(e, word), s.state, FALSE, Valued(s.tag))
  BY <1>1, <1>2, TagOps
<1>4. \A r : TagFrame(s, r, s.state, FALSE, Valued(s.tag)) => Kept(Advanced(r))
  BY <1>1, TagKept
<1>5. QED BY <1>3, <1>4 DEF e, NullInTag

(* ------------------------------ Parts of comments -------------------------- *)

\* the symbols that comments begin and end with
Signs == {"<", "!", "-", "?", "/", ">"}

\* the word is the rest of the text
IsRest(word, k) == SubSeq(text, k, Len(text)) = word

\* A symbol of the text is not its end.
LEMMA SymbolAtIs ==
  ASSUME text \in Seq(Symbols), NEW k \in Nat \ {0}
  PROVE  /\ SymbolAt(k) = EOF <=> k > Len(text)
         /\ k <= Len(text) => SymbolAt(k) = text[k]
<1>1. \A i \in 1 .. Len(text) : text[i] # EOF
  BY DEF Symbols
<1>2. QED BY <1>1 DEF SymbolAt

\* A word is at a place if its symbols are there.
LEMMA IsAtIs ==
  ASSUME text \in Seq(Symbols), NEW W, EOF \notin W, NEW word \in Seq(W), Len(word) >= 1,
         NEW k \in Nat \ {0}
  PROVE  /\ IsAt(word, k) <=> \A j \in 1 .. Len(word) : SymbolAt(k + j - 1) = word[j]
         /\ IsRest(word, k) <=> IsAt(word, k) /\ SymbolAt(k + Len(word)) = EOF
<1> DEFINE n == Len(word)
           last == k + n - 1
           part == SubSeq(text, k, last)
           symbols == \A j \in 1 .. n : SymbolAt(k + j - 1) = word[j]
<1>1. Len(text) \in Nat /\ n \in Nat /\ n >= 1 /\ last \in Nat /\ k <= last /\ last - k + 1 = n
  OBVIOUS
<1>2. ASSUME last <= Len(text)
      PROVE  part = word <=> symbols
  <2>1. \A i \in k .. last : text[i] \in Symbols
    BY <1>1, <1>2
  <2>2. /\ part \in Seq(Symbols) /\ Len(part) = n
        /\ \A i \in 1 .. n : part[i] = text[k + i - 1]
    BY <1>1, <2>1, SubSeqProperties
  <2> HIDE DEF part
  <2>3. \A j \in 1 .. n : k + j - 1 \in Nat \ {0} /\ k + j - 1 <= Len(text)
    BY <1>1, <1>2
  <2>4. \A j \in 1 .. n : part[j] = SymbolAt(k + j - 1)
    BY <2>2, <2>3, SymbolAtIs
  <2>5. part = word <=> \A j \in 1 .. n : part[j] = word[j]
    <3> DEFINE S == Symbols \cup W
    <3>1. part \in Seq(S) /\ word \in Seq(S)
      BY <2>2, SeqMonotonic
    <3> HIDE DEF S
    <3>2. QED BY <1>1, <2>2, <3>1, SeqEqual
  <2>6. QED BY <2>4, <2>5
<1>3. symbols => last <= Len(text)
  <2>1. ASSUME symbols, last > Len(text) PROVE FALSE
    <3>1. SymbolAt(last) = word[n]
      BY <1>1, <2>1
    <3>2. SymbolAt(last) = EOF /\ word[n] \in W
      BY <1>1, <2>1, SymbolAtIs
    <3>3. QED BY <3>1, <3>2
  <2>2. QED BY <1>1, <2>1
<1>4. IsAt(word, k) <=> last <= Len(text) /\ part = word
  BY <1>1 DEF IsAt
<1>5. SubSeq(text, k, Len(text)) = word => last = Len(text)
  <2>1. Len(SubSeq(text, k, Len(text))) = IF k <= Len(text) THEN Len(text) - k + 1 ELSE 0
    BY <1>1, SubSeqProperties
  <2>2. QED BY <1>1, <2>1
<1>6. SymbolAt(k + n) = EOF <=> last >= Len(text)
  BY <1>1, SymbolAtIs
<1>7. IsAt(word, k) <=> symbols
  BY <1>2, <1>3, <1>4
<1>8. SubSeq(text, k, Len(text)) = word <=> IsAt(word, k) /\ SymbolAt(k + n) = EOF
  BY <1>1, <1>4, <1>5, <1>6
<1>9. QED BY <1>7, <1>8 DEF IsRest

\* One of these at a place, or a short word of them, by the symbols there.
LEMMA OneSign ==
  ASSUME text \in Seq(Symbols), NEW k \in Nat \ {0}, NEW a \in Signs
  PROVE  /\ IsAt(<<a>>, k) <=> SymbolAt(k) = a
         /\ IsRest(<<a>>, k) <=> SymbolAt(k) = a /\ SymbolAt(k + 1) = EOF
<1> DEFINE word == <<a>>
<1>1. EOF \notin Signs
  BY DEF EOF, Signs
<1>2. word \in Seq(Signs) /\ Len(word) = 1 /\ Len(word) >= 1
      /\ word[1] = a
  OBVIOUS
<1> HIDE DEF word
<1>3. /\ IsAt(word, k) <=> \A j \in 1 .. Len(word) : SymbolAt(k + j - 1) = word[j]
      /\ IsRest(word, k) <=> IsAt(word, k) /\ SymbolAt(k + Len(word)) = EOF
  BY <1>1, <1>2, IsAtIs
<1>4. 1 .. 1 = {1} /\ k + 1 - 1 = k
  OBVIOUS
<1>5. (\A j \in 1 .. 1 : SymbolAt(k + j - 1) = word[j]) <=>
        /\ SymbolAt(k) = word[1]
  BY <1>4
<1>6. QED BY <1>2, <1>3, <1>5 DEF word

\* Two of these at a place.
LEMMA TwoSigns ==
  ASSUME text \in Seq(Symbols), NEW k \in Nat \ {0}, NEW a \in Signs, NEW b \in Signs
  PROVE  /\ IsAt(<<a, b>>, k) <=> SymbolAt(k) = a /\ SymbolAt(k + 1) = b
         /\ IsRest(<<a, b>>, k) <=> SymbolAt(k) = a /\ SymbolAt(k + 1) = b /\ SymbolAt(k + 2) = EOF
<1> DEFINE word == <<a, b>>
<1>1. EOF \notin Signs
  BY DEF EOF, Signs
<1>2. word \in Seq(Signs) /\ Len(word) = 2 /\ Len(word) >= 1
      /\ word[1] = a /\ word[2] = b
  OBVIOUS
<1> HIDE DEF word
<1>3. /\ IsAt(word, k) <=> \A j \in 1 .. Len(word) : SymbolAt(k + j - 1) = word[j]
      /\ IsRest(word, k) <=> IsAt(word, k) /\ SymbolAt(k + Len(word)) = EOF
  BY <1>1, <1>2, IsAtIs
<1>4. 1 .. 2 = {1, 2} /\ k + 1 - 1 = k /\ k + 2 - 1 = k + 1
  OBVIOUS
<1>5. (\A j \in 1 .. 2 : SymbolAt(k + j - 1) = word[j]) <=>
        /\ SymbolAt(k) = word[1]
        /\ SymbolAt(k + 1) = word[2]
  BY <1>4
<1>6. QED BY <1>2, <1>3, <1>5 DEF word

\* Three of these at a place.
LEMMA ThreeSigns ==
  ASSUME text \in Seq(Symbols), NEW k \in Nat \ {0}, NEW a \in Signs, NEW b \in Signs, NEW c \in Signs
  PROVE  /\ IsAt(<<a, b, c>>, k) <=> SymbolAt(k) = a /\ SymbolAt(k + 1) = b
                                 /\ SymbolAt(k + 2) = c
         /\ IsRest(<<a, b, c>>, k) <=> SymbolAt(k) = a /\ SymbolAt(k + 1) = b
              /\ SymbolAt(k + 2) = c /\ SymbolAt(k + 3) = EOF
<1> DEFINE word == <<a, b, c>>
<1>1. EOF \notin Signs
  BY DEF EOF, Signs
<1>2. word \in Seq(Signs) /\ Len(word) = 3 /\ Len(word) >= 1
      /\ word[1] = a /\ word[2] = b /\ word[3] = c
  OBVIOUS
<1> HIDE DEF word
<1>3. /\ IsAt(word, k) <=> \A j \in 1 .. Len(word) : SymbolAt(k + j - 1) = word[j]
      /\ IsRest(word, k) <=> IsAt(word, k) /\ SymbolAt(k + Len(word)) = EOF
  BY <1>1, <1>2, IsAtIs
<1>4. 1 .. 3 = {1, 2, 3} /\ k + 1 - 1 = k /\ k + 2 - 1 = k + 1 /\ k + 3 - 1 = k + 2
  OBVIOUS
<1>5. (\A j \in 1 .. 3 : SymbolAt(k + j - 1) = word[j]) <=>
        /\ SymbolAt(k) = word[1]
        /\ SymbolAt(k + 1) = word[2]
        /\ SymbolAt(k + 2) = word[3]
  BY <1>4
<1>6. QED BY <1>2, <1>3, <1>5 DEF word

\* Four of these at a place.
LEMMA FourSigns ==
  ASSUME text \in Seq(Symbols), NEW k \in Nat \ {0}, NEW a \in Signs, NEW b \in Signs, NEW c \in Signs, NEW d \in Signs
  PROVE  /\ IsAt(<<a, b, c, d>>, k) <=> SymbolAt(k) = a /\ SymbolAt(k + 1) = b
                                 /\ SymbolAt(k + 2) = c /\ SymbolAt(k + 3) = d
         /\ IsRest(<<a, b, c, d>>, k) <=> SymbolAt(k) = a /\ SymbolAt(k + 1) = b
              /\ SymbolAt(k + 2) = c /\ SymbolAt(k + 3) = d /\ SymbolAt(k + 4) = EOF
<1> DEFINE word == <<a, b, c, d>>
<1>1. EOF \notin Signs
  BY DEF EOF, Signs
<1>2. word \in Seq(Signs) /\ Len(word) = 4 /\ Len(word) >= 1
      /\ word[1] = a /\ word[2] = b /\ word[3] = c /\ word[4] = d
  OBVIOUS
<1> HIDE DEF word
<1>3. /\ IsAt(word, k) <=> \A j \in 1 .. Len(word) : SymbolAt(k + j - 1) = word[j]
      /\ IsRest(word, k) <=> IsAt(word, k) /\ SymbolAt(k + Len(word)) = EOF
  BY <1>1, <1>2, IsAtIs
<1>4. 1 .. 4 = {1, 2, 3, 4} /\ k + 1 - 1 = k /\ k + 2 - 1 = k + 1 /\ k + 3 - 1 = k + 2 /\ k + 4 - 1 = k + 3
  OBVIOUS
<1>5. (\A j \in 1 .. 4 : SymbolAt(k + j - 1) = word[j]) <=>
        /\ SymbolAt(k) = word[1]
        /\ SymbolAt(k + 1) = word[2]
        /\ SymbolAt(k + 2) = word[3]
        /\ SymbolAt(k + 3) = word[4]
  BY <1>4
<1>6. QED BY <1>2, <1>3, <1>5 DEF word

\* A place of CommentEnds, by the symbols there.
LEMMA CommentEndsAre ==
  ASSUME text \in Seq(Symbols), NEW from \in Nat \ {0}, NEW k \in from .. Len(text) + 1
  PROVE  k \in CommentEnds(from) <=> EndsAt(from, k)
<1> DEFINE rest == SubSeq(text, k, Len(text))
<1>1. k \in Nat \ {0} /\ Len(text) \in Nat
  OBVIOUS
<1>2. "-" \in Signs /\ "!" \in Signs /\ ">" \in Signs
  BY DEF Signs
<1>3. rest = <<>> <=> SymbolAt(k) = EOF
  <2>1. Len(rest) = IF k <= Len(text) THEN Len(text) - k + 1 ELSE 0
    BY <1>1, SubSeqProperties
  <2>2. rest \in Seq(Symbols)
    BY <1>1, SubSeqProperties
  <2> HIDE DEF rest
  <2>3. rest = <<>> <=> Len(rest) = 0
    BY <2>2
  <2>4. QED BY <1>1, <2>1, <2>3, SymbolAtIs
<1>4. /\ IsAt(<<"-", "-", ">">>, k) <=>
           SymbolAt(k) = "-" /\ SymbolAt(k + 1) = "-" /\ SymbolAt(k + 2) = ">"
      /\ IsAt(<<">">>, k) <=> SymbolAt(k) = ">"
      /\ IsAt(<<"-", ">">>, k) <=> SymbolAt(k) = "-" /\ SymbolAt(k + 1) = ">"
  BY <1>1, <1>2, OneSign, TwoSigns, ThreeSigns
<1>5. IsAt(<<"-", "-", "!", ">">>, k) <=>
        SymbolAt(k) = "-" /\ SymbolAt(k + 1) = "-" /\ SymbolAt(k + 2) = "!" /\ SymbolAt(k + 3) = ">"
  BY <1>1, <1>2, FourSigns
<1>6. /\ IsRest(<<"-">>, k) <=> SymbolAt(k) = "-" /\ SymbolAt(k + 1) = EOF
      /\ IsRest(<<"-", "-">>, k) <=>
           SymbolAt(k) = "-" /\ SymbolAt(k + 1) = "-" /\ SymbolAt(k + 2) = EOF
      /\ IsRest(<<"-", "-", "!">>, k) <=>
           SymbolAt(k) = "-" /\ SymbolAt(k + 1) = "-" /\ SymbolAt(k + 2) = "!" /\ SymbolAt(k + 3) = EOF
  <2>1. IsRest(<<"-">>, k) <=> SymbolAt(k) = "-" /\ SymbolAt(k + 1) = EOF
    BY <1>1, <1>2, OneSign
  <2>2. IsRest(<<"-", "-">>, k) <=>
          SymbolAt(k) = "-" /\ SymbolAt(k + 1) = "-" /\ SymbolAt(k + 2) = EOF
    BY <1>1, <1>2, TwoSigns
  <2>3. IsRest(<<"-", "-", "!">>, k) <=>
          SymbolAt(k) = "-" /\ SymbolAt(k + 1) = "-" /\ SymbolAt(k + 2) = "!" /\ SymbolAt(k + 3) = EOF
    BY <1>1, <1>2, ThreeSigns
  <2>4. QED BY <2>1, <2>2, <2>3
<1>7. k \in CommentEnds(from) <=>
        \/ IsAt(<<"-", "-", ">">>, k) \/ IsAt(<<"-", "-", "!", ">">>, k)
        \/ k = from /\ (IsAt(<<">">>, k) \/ IsAt(<<"-", ">">>, k))
        \/ rest \in {<<>>, <<"-">>, <<"-", "-">>, <<"-", "-", "!">>}
  BY DEF CommentEnds
<1> HIDE DEF rest
<1>8. rest \in {<<>>, <<"-">>, <<"-", "-">>, <<"-", "-", "!">>} <=>
        rest = <<>> \/ rest = <<"-">> \/ rest = <<"-", "-">> \/ rest = <<"-", "-", "!">>
  OBVIOUS
<1>9. /\ rest = <<"-">> <=> IsRest(<<"-">>, k)
      /\ rest = <<"-", "-">> <=> IsRest(<<"-", "-">>, k)
      /\ rest = <<"-", "-", "!">> <=> IsRest(<<"-", "-", "!">>, k)
  BY DEF IsRest, rest
<1>10. QED BY <1>3, <1>4, <1>5, <1>6, <1>7, <1>8, <1>9, Zenon DEF EndsAt

\* The least place of a set is the only one at or before all others.
LEMMA LeastIs ==
  ASSUME NEW S \in SUBSET Nat, NEW k \in S, \A other \in S : k <= other
  PROVE  Least(S) = k
<1>1. \E n \in S : \A other \in S : n <= other
  OBVIOUS
<1>2. Least(S) \in S /\ \A other \in S : Least(S) <= other
  BY <1>1, Zenon DEF Least
<1>3. Least(S) <= k /\ k <= Least(S) /\ Least(S) \in Nat /\ k \in Nat
  BY <1>2
<1>4. QED BY <1>3

\* Nothing is shown of no text.
LEMMA ShownNothing ==
  ASSUME text \in Seq(Symbols), NEW lo \in Nat \ {0}
  PROVE  ShownFrom(lo, lo) = <<>>
<1> DEFINE part == SubSeq(text, lo, lo - 1)
<1>1. part = <<>>
  <2>1. lo \in Int /\ lo - 1 \in Int /\ lo > lo - 1
    OBVIOUS
  <2>2. Len(part) = 0 /\ part \in Seq(Symbols)
    BY <2>1, SubSeqProperties
  <2> HIDE DEF part
  <2>3. QED BY <2>2
<1> HIDE DEF part
<1>2. Shown(part) = [i \in {} |-> IF part[i] = NUL THEN REPL ELSE part[i]]
  BY <1>1 DEF Shown
<1>3. Shown(part) \in [1 .. 0 -> Symbols]
  BY <1>2
<1>4. Shown(part) \in Seq(Symbols) /\ Len(Shown(part)) = 0
  BY <1>3
<1>5. Shown(part) = <<>>
  BY <1>4
<1>6. QED BY <1>5 DEF ShownFrom, part

\* how a token shows a symbol
ShownSymbol(c) == IF c = NUL THEN REPL ELSE c

Readable == Symbols \cup {REPL}

\* What is shown of a part of the text has the symbols of that part.
LEMMA ShownIs ==
  ASSUME text \in Seq(Symbols), NEW lo \in Nat \ {0}, NEW hi \in lo .. Len(text) + 1
  PROVE  /\ ShownFrom(lo, hi) \in Seq(Readable) /\ Len(ShownFrom(lo, hi)) = hi - lo
         /\ \A i \in 1 .. hi - lo : ShownFrom(lo, hi)[i] = ShownSymbol(text[lo + i - 1])
<1> DEFINE part == SubSeq(text, lo, hi - 1)
           shown == Shown(part)
<1>1. Len(text) \in Nat /\ hi - lo \in Nat
  OBVIOUS
<1>2. /\ part \in Seq(Symbols) /\ Len(part) = hi - lo
      /\ \A i \in 1 .. hi - lo : part[i] = text[lo + i - 1]
  <2>1. CASE lo = hi
    <3>1. lo \in Int /\ hi - 1 \in Int /\ lo > hi - 1
      BY <2>1
    <3>2. part \in Seq(Symbols) /\ Len(part) = 0
      BY <3>1, SubSeqProperties
    <3>3. QED BY <2>1, <3>2
  <2>2. CASE lo < hi
    <3>1. \A i \in lo .. hi - 1 : text[i] \in Symbols
      BY <1>1
    <3>2. lo \in Int /\ hi - 1 \in Int /\ lo <= hi - 1 /\ (hi - 1) - lo + 1 = hi - lo
      BY <2>2
    <3>3. /\ part \in Seq(Symbols) /\ Len(part) = (hi - 1) - lo + 1
          /\ \A i \in 1 .. (hi - 1) - lo + 1 : part[i] = text[lo + i - 1]
      BY <3>1, <3>2, SubSeqProperties
    <3>4. QED BY <3>2, <3>3
  <2>3. QED BY <2>1, <2>2
<1> HIDE DEF part
<1>3. DOMAIN part = 1 .. hi - lo /\ \A i \in 1 .. hi - lo : part[i] \in Symbols
  BY <1>2
<1>4. shown = [i \in 1 .. hi - lo |-> ShownSymbol(part[i])]
  BY <1>3 DEF Shown, ShownSymbol
<1> HIDE DEF shown
<1>5. shown \in [1 .. hi - lo -> Readable]
  BY <1>3, <1>4 DEF ShownSymbol, Readable
<1>6. shown \in Seq(Readable) /\ Len(shown) = hi - lo
  BY <1>1, <1>5
<1>7. \A i \in 1 .. hi - lo : shown[i] = ShownSymbol(text[lo + i - 1])
  BY <1>2, <1>4
<1>8. QED BY <1>6, <1>7 DEF ShownFrom, shown, part

\* What is shown grows by the symbols that follow.
LEMMA ShownGrows ==
  ASSUME text \in Seq(Symbols), NEW lo \in Nat \ {0}, NEW hi \in lo .. Len(text) + 1,
         NEW word \in Seq(Readable), hi + Len(word) <= Len(text) + 1,
         \A j \in 1 .. Len(word) : word[j] = ShownSymbol(text[hi + j - 1])
  PROVE  ShownFrom(lo, hi) \o word = ShownFrom(lo, hi + Len(word))
<1> DEFINE n == Len(word)
           top == hi + n
           old == ShownFrom(lo, hi)
           new == ShownFrom(lo, top)
           both == old \o word
<1>1. n \in Nat /\ top \in lo .. Len(text) + 1 /\ Len(text) \in Nat
  OBVIOUS
<1>2. /\ old \in Seq(Readable) /\ Len(old) = hi - lo
      /\ \A i \in 1 .. hi - lo : old[i] = ShownSymbol(text[lo + i - 1])
  BY ShownIs
<1>3. /\ new \in Seq(Readable) /\ Len(new) = hi + n - lo
      /\ \A i \in 1 .. hi + n - lo : new[i] = ShownSymbol(text[lo + i - 1])
  <2>1. top - lo = hi + n - lo
    OBVIOUS
  <2> HIDE DEF top
  <2>2. /\ new \in Seq(Readable) /\ Len(new) = top - lo
        /\ \A i \in 1 .. top - lo : new[i] = ShownSymbol(text[lo + i - 1])
    BY <1>1, ShownIs
  <2> HIDE DEF new, n
  <2>3. QED BY <2>1, <2>2
<1> HIDE DEF old, new
<1>4. /\ both \in Seq(Readable) /\ Len(both) = hi - lo + n
      /\ \A i \in 1 .. hi - lo + n :
           both[i] = IF i <= hi - lo THEN old[i] ELSE word[i - (hi - lo)]
  <2>1. /\ both \in Seq(Readable) /\ Len(both) = Len(old) + Len(word)
        /\ \A i \in 1 .. Len(old) + Len(word) :
             both[i] = IF i <= Len(old) THEN old[i] ELSE word[i - Len(old)]
    BY <1>2, ConcatProperties
  <2> HIDE DEF both, n
  <2>2. QED BY <1>2, <2>1 DEF n
<1> HIDE DEF both
<1>5. ASSUME NEW i \in 1 .. hi - lo + n
      PROVE  both[i] = new[i]
  <2>1. CASE i <= hi - lo
    BY <1>1, <1>2, <1>3, <1>4, <2>1
  <2>2. CASE i > hi - lo
    <3> DEFINE j == i - (hi - lo)
    <3>1. j \in 1 .. n /\ hi + j - 1 = lo + i - 1
      BY <1>1, <2>2
    <3>2. both[i] = word[j]
      BY <1>4, <2>2
    <3>3. word[j] = ShownSymbol(text[lo + i - 1])
      BY <3>1
    <3>4. new[i] = ShownSymbol(text[lo + i - 1])
      BY <1>1, <1>3
    <3>5. QED BY <3>2, <3>3, <3>4
  <2>3. QED BY <1>1, <2>1, <2>2
<1>6. Len(both) = Len(new)
  BY <1>1, <1>3, <1>4
<1>7. both = new
  BY <1>1, <1>3, <1>4, <1>5, <1>6, SeqEqual
<1>8. QED BY <1>7 DEF both, new, old, top

\* What was dropped are whole </>, one after the other.
LEMMA DroppedInThrees ==
  ASSUME NEW lo \in Nat, NEW hi \in Nat, lo <= hi, Covered(lo, hi, Dropped)
  PROVE  /\ (hi - lo) % 3 = 0
         /\ \A k \in lo .. hi - 1 : (k - lo) % 3 = 0 =>
              k + 3 <= hi /\ text[k] = "<" /\ text[k + 1] = "/" /\ text[k + 2] = ">"
<1> DEFINE Whole(k) == k + 3 <= hi /\ text[k] = "<" /\ text[k + 1] = "/" /\ text[k + 2] = ">"
           Broken == {k \in lo .. hi - 1 : (k - lo) % 3 = 0 /\ ~Whole(k)}
<1>1. ASSUME NEW k \in lo .. hi - 1
      PROVE  \E i \in lo .. hi - 1 : i <= k /\ k < i + 3 /\ Whole(i)
  <2> DEFINE word == <<"<", "/", ">">>
  <2>1. Len(word) = 3 /\ word[1] = "<" /\ word[2] = "/" /\ word[3] = ">"
    OBVIOUS
  <2>2. Dropped = {word}
    BY DEF Dropped
  <2> HIDE DEF word
  <2>3. PICK i \in lo .. hi - 1 : i <= k /\ k < i + Len(word) /\ Held(word, i, hi)
    BY <2>2 DEF Covered
  <2>4. i + 3 <= hi /\ \A j \in 1 .. 3 : text[i + j - 1] = word[j]
    BY <2>1, <2>3 DEF Held
  <2>5. text[i + 1 - 1] = "<" /\ text[i + 2 - 1] = "/" /\ text[i + 3 - 1] = ">"
    BY <2>1, <2>4
  <2>6. i + 1 - 1 = i /\ i + 2 - 1 = i + 1 /\ i + 3 - 1 = i + 2
    OBVIOUS
  <2>7. Whole(i)
    BY <2>4, <2>5, <2>6
  <2>8. QED BY <2>1, <2>3, <2>7
<1>2. \A i, k \in lo .. hi - 1 : Whole(i) /\ Whole(k) => k # i + 1 /\ k # i + 2
  OBVIOUS
<1>3. Broken = {}
  <2>1. SUFFICES ASSUME Broken # {} PROVE FALSE
    OBVIOUS
  <2>2. PICK k \in Broken : \A y \in Broken : ~(<<y, k>> \in OpToRel(<, Nat))
    <3>1. Broken \subseteq Nat
      OBVIOUS
    <3>2. QED BY <2>1, <3>1, NatLessThanWellFounded, WFMin
  <2>3. k \in lo .. hi - 1 /\ (k - lo) % 3 = 0 /\ ~Whole(k)
    OBVIOUS
  <2>4. \A y \in Broken : ~(y < k)
    <3>1. SUFFICES ASSUME NEW y \in Broken, y < k PROVE FALSE
      OBVIOUS
    <3>2. y \in Nat /\ k \in Nat
      BY <2>3
    <3> HIDE DEF Broken
    <3>3. <<y, k>> \in OpToRel(<, Nat)
      BY <3>1, <3>2 DEF OpToRel
    <3>4. QED BY <2>2, <3>1, <3>3
  <2>5. PICK i \in lo .. hi - 1 : i <= k /\ k < i + 3 /\ Whole(i)
    BY <1>1, <2>3
  <2>6. i # k /\ i < k
    BY <2>3, <2>5
  <2>7. k - 3 \in lo .. hi - 1 /\ (k - 3 - lo) % 3 = 0
    BY <2>3, <2>5, <2>6
  <2>8. Whole(k - 3)
    BY <2>3, <2>4, <2>7
  <2>9. i = (k - 3) + 1 \/ i = (k - 3) + 2
    BY <2>3, <2>5, <2>6
  <2>10. QED BY <1>2, <2>5, <2>7, <2>8, <2>9
<1>4. (hi - lo) % 3 = 0
  <2> DEFINE r == (hi - lo) % 3
             k == hi - r
  <2>1. r \in {0, 1, 2} /\ r <= hi - lo
    OBVIOUS
  <2>2. ASSUME r # 0 PROVE FALSE
    <3>1. k \in lo .. hi - 1 /\ (k - lo) % 3 = 0 /\ k + 3 > hi
      BY <2>1, <2>2
    <3>2. k \in Broken
      BY <3>1
    <3>3. QED BY <1>3, <3>2
  <2>3. QED BY <2>2
<1>5. QED BY <1>3, <1>4

\* <!-- at a place, by the symbols there.
LEMMA CommentOpensIs ==
  ASSUME text \in Seq(Symbols), NEW k \in Nat \ {0}
  PROVE  IsAt(<<"<", "!", "-", "-">>, k) <=> IsComment(k)
<1>1. "<" \in Signs /\ "!" \in Signs /\ "-" \in Signs
  BY DEF Signs
<1>2. IsAt(<<"<", "!", "-", "-">>, k) <=>
        SymbolAt(k) = "<" /\ SymbolAt(k + 1) = "!" /\ SymbolAt(k + 2) = "-" /\ SymbolAt(k + 3) = "-"
  BY <1>1, FourSigns
<1>3. QED BY <1>2 DEF IsComment

\* The markup of a token begins where the text that was dropped before it ends.
LEMMA MarkupIs ==
  ASSUME text \in Seq(Symbols), NEW token, token.from \in Nat \ {0},
         NEW m \in token.from .. Len(text), Covered(token.from, m, Dropped),
         ~IsAt(<<"<", "/", ">">>, m)
  PROVE  Markup(token) = m
<1> DEFINE lo == token.from
           word == <<"<", "/", ">">>
           S == {i \in lo .. Len(text) : (i - lo) % 3 = 0 /\ ~IsAt(word, i)}
<1>1. lo \in Nat \ {0} /\ m \in Nat \ {0} /\ lo <= m /\ m <= Len(text) /\ Len(text) \in Nat
  OBVIOUS
<1>2. Markup(token) = Least(S)
  BY DEF Markup
<1>3. ~IsAt(word, m) /\ Covered(lo, m, Dropped)
  OBVIOUS
<1>4. \A k \in Nat \ {0} :
        IsAt(word, k) <=> SymbolAt(k) = "<" /\ SymbolAt(k + 1) = "/" /\ SymbolAt(k + 2) = ">"
  BY ThreeSigns DEF Signs
<1> HIDE DEF lo, word
<1>5. /\ (m - lo) % 3 = 0
      /\ \A k \in lo .. m - 1 : (k - lo) % 3 = 0 =>
           k + 3 <= m /\ text[k] = "<" /\ text[k + 1] = "/" /\ text[k + 2] = ">"
  <2>1. lo \in Nat /\ m \in Nat /\ lo <= m
    BY <1>1
  <2>2. QED BY <1>3, <2>1, DroppedInThrees
<1>6. m \in S
  BY <1>1, <1>3, <1>5
<1>7. ASSUME NEW k \in S
      PROVE  m <= k
  <2>1. SUFFICES ASSUME k < m PROVE FALSE
    BY <1>1
  <2>2. k \in lo .. m - 1 /\ (k - lo) % 3 = 0 /\ ~IsAt(word, k)
    BY <1>1, <2>1
  <2>3. k + 3 <= m /\ text[k] = "<" /\ text[k + 1] = "/" /\ text[k + 2] = ">"
    BY <1>5, <2>2
  <2>4. SymbolAt(k) = "<" /\ SymbolAt(k + 1) = "/" /\ SymbolAt(k + 2) = ">"
    BY <1>1, <2>2, <2>3 DEF SymbolAt
  <2>5. QED BY <1>1, <1>4, <2>2, <2>4
<1>8. S \in SUBSET Nat
  BY <1>1
<1> HIDE DEF S
<1>9. Least(S) = m
  BY <1>6, <1>7, <1>8, LeastIs
<1>10. QED BY <1>2, <1>9

\* The text of a comment lies before the first place where it ends.
LEMMA CommentTextIs ==
  ASSUME text \in Seq(Symbols), NEW start \in Nat \ {0}, IsComment(start),
         NEW end \in start + 4 .. Len(text) + 1, EndsAt(start + 4, end),
         \A k \in start + 4 .. end - 1 : ~EndsAt(start + 4, k)
  PROVE  Shown(CommentText(start)) = ShownFrom(start + 4, end)
<1> DEFINE from == start + 4
           S == CommentEnds(from)
<1>1. from \in Nat \ {0} /\ from <= end /\ end <= Len(text) + 1 /\ end \in Nat /\ Len(text) \in Nat
  OBVIOUS
<1>2. EndsAt(from, end) /\ \A k \in from .. end - 1 : ~EndsAt(from, k)
  OBVIOUS
<1>3. IsAt(<<"<", "!", "-", "-">>, start)
  BY CommentOpensIs
<1>4. CommentText(start) = SubSeq(text, from, Least(S) - 1)
  <2>1. \A k \in Nat \ {0} : IsAt(<<"<", "?">>, k) <=> SymbolAt(k) = "<" /\ SymbolAt(k + 1) = "?"
    BY TwoSigns DEF Signs
  <2>2. ~IsAt(<<"<", "?">>, start)
    BY <2>1 DEF IsComment
  <2>3. QED BY <1>3, <2>2 DEF CommentText
<1> HIDE DEF from
<1>5. S \subseteq from .. Len(text) + 1
  BY DEF CommentEnds
<1>6. \A k \in from .. Len(text) + 1 : k \in S <=> EndsAt(from, k)
  BY <1>1, CommentEndsAre
<1> HIDE DEF S
<1>7. end \in S /\ S \in SUBSET Nat
  BY <1>1, <1>2, <1>5, <1>6
<1>8. ASSUME NEW k \in S
      PROVE  end <= k
  BY <1>1, <1>2, <1>5, <1>6
<1>9. Least(S) = end
  BY <1>7, <1>8, LeastIs
<1>10. QED BY <1>4, <1>9 DEF ShownFrom, from

\* The text of a bogus comment lies before the first > or the end of the text.
LEMMA BogusTextIs ==
  ASSUME text \in Seq(Symbols), NEW start \in Nat \ {0}, SymbolAt(start) = "<", ~IsComment(start),
         NEW end \in BogusStart(start) .. Len(text) + 1, SymbolAt(end) \in {">", EOF},
         \A k \in BogusStart(start) .. end - 1 : SymbolAt(k) # ">"
  PROVE  Shown(CommentText(start)) = ShownFrom(BogusStart(start), end)
<1> DEFINE from == BogusStart(start)
           S == BogusEnds(from)
<1>1. from \in Nat \ {0} /\ from <= end /\ end <= Len(text) + 1 /\ end \in Nat /\ Len(text) \in Nat
  BY DEF BogusStart
<1>2. /\ SymbolAt(end) \in {">", EOF} /\ \A k \in from .. end - 1 : SymbolAt(k) # ">"
  OBVIOUS
<1>3. ~IsAt(<<"<", "!", "-", "-">>, start)
  BY CommentOpensIs
<1>4. CommentText(start) = SubSeq(text, from, Least(S) - 1)
  <2>1. \A k \in Nat \ {0} : IsAt(<<"<", "?">>, k) <=> SymbolAt(k) = "<" /\ SymbolAt(k + 1) = "?"
    BY TwoSigns DEF Signs
  <2>2. IsAt(<<"<", "?">>, start) <=> SymbolAt(start + 1) = "?"
    BY <2>1
  <2>3. CASE SymbolAt(start + 1) = "?"
    BY <1>3, <2>2, <2>3 DEF CommentText, BogusStart
  <2>4. CASE SymbolAt(start + 1) # "?"
    BY <1>3, <2>2, <2>4 DEF CommentText, BogusStart
  <2>5. QED BY <2>3, <2>4
<1> HIDE DEF from
<1>5. \A k \in Nat \ {0} : /\ SymbolAt(k) = EOF <=> k > Len(text)
                           /\ k <= Len(text) => SymbolAt(k) = text[k]
  BY SymbolAtIs
<1>6. S = {k \in from .. Len(text) + 1 : k = Len(text) + 1 \/ text[k] = ">"}
  BY DEF BogusEnds
<1>7. end \in S /\ S \in SUBSET Nat
  <2>1. end = Len(text) + 1 \/ text[end] = ">"
    <3>1. end \in Nat \ {0}
      BY <1>1
    <3>2. CASE SymbolAt(end) = EOF
      BY <1>1, <1>5, <3>1, <3>2
    <3>3. CASE SymbolAt(end) = ">"
      BY <1>1, <1>5, <3>1, <3>3 DEF EOF
    <3>4. QED BY <1>2, <3>2, <3>3
  <2>2. QED BY <1>1, <1>6, <2>1
<1>8. ASSUME NEW k \in S
      PROVE  end <= k
  <2>1. SUFFICES ASSUME k < end PROVE FALSE
    BY <1>1, <1>6
  <2>2. k \in from .. end - 1 /\ text[k] = ">" /\ k <= Len(text) /\ k \in Nat \ {0}
    BY <1>1, <1>6, <2>1
  <2>3. QED BY <1>2, <1>5, <2>2
<1> HIDE DEF S
<1>9. Least(S) = end
  BY <1>7, <1>8, LeastIs
<1>10. QED BY <1>4, <1>9 DEF ShownFrom, from

\* The comment at start ends at the place p of its text.
EndsHere(start, p, state) ==
  IF state = "BOGUS_COMMENT" THEN SymbolAt(p) \in {">", EOF}
  ELSE EndsAt(start + 4, p - Pending(state))

\* How much of --! was read is told by the state.
LEMMA PendingIs == \A state : Pending(state) \in 0 .. 3
BY DEF Pending

\* What was read of a comment is its text where it ends.
LEMMA ToldAgrees ==
  ASSUME text \in Seq(Symbols), NEW start \in Nat \ {0}, SymbolAt(start) = "<",
         NEW p \in Nat, p <= Len(text) + 1, NEW state, NEW tmp, Told(start, p, state, tmp),
         EndsHere(start, p, state)
  PROVE  tmp = Shown(CommentText(start)) /\ ~IsAt(<<"<", "/", ">">>, start)
<1> DEFINE d == Pending(state)
           q == p - d
<1>1. Len(text) \in Nat /\ d \in 0 .. 3
  BY PendingIs
<1>2. \A k \in Nat \ {0} :
        IsAt(<<"<", "/", ">">>, k) <=>
          SymbolAt(k) = "<" /\ SymbolAt(k + 1) = "/" /\ SymbolAt(k + 2) = ">"
  BY ThreeSigns DEF Signs
<1>3. CASE state = "BOGUS_COMMENT"
  <2>1. BogusUpTo(start, p, tmp) /\ SymbolAt(p) \in {">", EOF}
    BY <1>3 DEF Told, EndsHere
  <2>2. p \in BogusStart(start) .. Len(text) + 1
    BY <1>1, <2>1 DEF BogusUpTo, BogusStart
  <2>3. tmp = Shown(CommentText(start))
    BY <2>1, <2>2, BogusTextIs DEF BogusUpTo
  <2>4. QED BY <1>2, <2>1, <2>3 DEF BogusUpTo
<1>4. CASE state # "BOGUS_COMMENT"
  <2>1. ReadUpTo(start, q, d, tmp) /\ EndsAt(start + 4, q)
    BY <1>4 DEF Told, EndsHere
  <2>2. q \in start + 4 .. Len(text) + 1
    BY <1>1, <2>1 DEF ReadUpTo
  <2> HIDE DEF q, d
  <2>3. tmp = Shown(CommentText(start))
    BY <2>1, <2>2, CommentTextIs DEF ReadUpTo
  <2>4. SymbolAt(start + 1) # "/"
    BY <2>1 DEF ReadUpTo, IsComment
  <2>5. QED BY <1>2, <2>3, <2>4
<1>5. QED BY <1>3, <1>4

\* One more symbol of --! was read.
LEMMA PendingGrows ==
  \A start, d, tmp : \A p \in Nat :
    /\ ReadUpTo(start, p, d, tmp) /\ d \in {0, 1, 2}
    /\ SymbolAt(p + d) = IF d = 2 THEN "!" ELSE "-"
    => ReadUpTo(start, p, d + 1, tmp)
<1>1. SUFFICES ASSUME NEW start, NEW p \in Nat, NEW d, NEW tmp, ReadUpTo(start, p, d, tmp),
                      d \in {0, 1, 2}, SymbolAt(p + d) = IF d = 2 THEN "!" ELSE "-"
      PROVE  ReadUpTo(start, p, d + 1, tmp)
  OBVIOUS
<1>2. CASE d = 0
  BY <1>1, <1>2 DEF ReadUpTo
<1>3. CASE d = 1
  BY <1>1, <1>3 DEF ReadUpTo
<1>4. CASE d = 2
  BY <1>1, <1>4 DEF ReadUpTo
<1>5. QED BY <1>1, <1>2, <1>3, <1>4

\* The symbols that follow are text of the comment: it does not end at any of them.
LEMMA ReadGrows ==
  ASSUME text \in Seq(Symbols), NEW start \in Nat \ {0}, NEW p \in Nat, NEW d, NEW tmp,
         ReadUpTo(start, p, d, tmp), NEW word \in Seq(Readable), p + Len(word) <= Len(text) + 1,
         \A j \in 1 .. Len(word) : word[j] = ShownSymbol(SymbolAt(p + j - 1)),
         \A k \in p .. p + Len(word) - 1 : ~EndsAt(start + 4, k)
  PROVE  ReadUpTo(start, p + Len(word), 0, tmp \o word)
<1> DEFINE n == Len(word)
<1>1. /\ IsComment(start) /\ start + 4 <= p /\ tmp = ShownFrom(start + 4, p)
      /\ \A k \in start + 4 .. p - 1 : ~EndsAt(start + 4, k)
  BY DEF ReadUpTo
<1>2. n \in Nat /\ Len(text) \in Nat /\ start + 4 \in Nat \ {0} /\ p \in start + 4 .. Len(text) + 1
  BY <1>1
<1>3. \A j \in 1 .. n : word[j] = ShownSymbol(text[p + j - 1])
  <2>1. \A j \in 1 .. n : p + j - 1 \in Nat \ {0} /\ p + j - 1 <= Len(text)
    BY <1>2
  <2>2. QED BY <2>1, SymbolAtIs
<1>4. tmp \o word = ShownFrom(start + 4, p + n)
  BY <1>1, <1>2, <1>3, ShownGrows
<1>5. \A k \in start + 4 .. p + n - 1 : ~EndsAt(start + 4, k)
  BY <1>1, <1>2
<1>6. QED BY <1>1, <1>2, <1>4, <1>5 DEF ReadUpTo

\* A bogus comment goes on with the symbol that follows.
LEMMA BogusGrows ==
  ASSUME text \in Seq(Symbols), NEW start \in Nat \ {0}, NEW p \in Nat, p <= Len(text), NEW tmp,
         BogusUpTo(start, p, tmp), SymbolAt(p) # ">"
  PROVE  BogusUpTo(start, p + 1, tmp \o <<ShownSymbol(SymbolAt(p))>>)
<1> DEFINE from == BogusStart(start)
           c == ShownSymbol(SymbolAt(p))
           word == <<c>>
<1>1. /\ ~IsComment(start) /\ from <= p /\ tmp = ShownFrom(from, p)
      /\ SymbolAt(start + 1) = "/" => SymbolAt(start + 2) # ">"
      /\ \A k \in from .. p - 1 : SymbolAt(k) # ">"
  BY DEF BogusUpTo
<1>2. from \in Nat \ {0} /\ p \in from .. Len(text) + 1 /\ Len(text) \in Nat /\ p \in 1 .. Len(text)
  BY <1>1 DEF BogusStart
<1>3. SymbolAt(p) = text[p] /\ text[p] \in Symbols
  BY <1>2, SymbolAtIs
<1>4. c \in Readable /\ c = ShownSymbol(text[p])
  BY <1>3 DEF ShownSymbol, Readable
<1> HIDE DEF c, from
<1>5. word \in Seq(Readable) /\ Len(word) = 1 /\ word[1] = c
  BY <1>4
<1> HIDE DEF word
<1>6. \A j \in 1 .. Len(word) : word[j] = ShownSymbol(text[p + j - 1])
  <2>1. TAKE j \in 1 .. Len(word)
  <2>2. j = 1 /\ p + j - 1 = p
    BY <1>2, <1>5
  <2>3. QED BY <1>4, <1>5, <2>2
<1>7. p + Len(word) <= Len(text) + 1
  BY <1>2, <1>5
<1>8. tmp \o word = ShownFrom(from, p + 1)
  <2>1. ShownFrom(from, p) \o word = ShownFrom(from, p + Len(word))
    BY <1>2, <1>5, <1>6, <1>7, ShownGrows
  <2>2. QED BY <1>1, <1>5, <2>1
<1>9. \A k \in from .. (p + 1) - 1 : SymbolAt(k) # ">"
  BY <1>1, <1>2
<1>10. QED BY <1>1, <1>2, <1>8, <1>9 DEF BogusUpTo, word, from, c

\* A symbol of the text that is none of --! is text of the comment.
LEMMA SymbolGrows ==
  ASSUME text \in Seq(Symbols), NEW start \in Nat \ {0}, NEW p \in Nat, NEW tmp,
         ReadUpTo(start, p, 0, tmp), SymbolAt(p) \notin {"-", EOF},
         p = start + 4 => SymbolAt(p) # ">"
  PROVE  ReadUpTo(start, p + 1, 0, tmp \o <<ShownSymbol(SymbolAt(p))>>)
<1> DEFINE c == ShownSymbol(SymbolAt(p))
           word == <<c>>
<1>1. p \in Nat \ {0} /\ p <= Len(text) /\ Len(text) \in Nat
  BY SymbolAtIs DEF ReadUpTo
<1>2. SymbolAt(p) \in Symbols /\ c \in Readable
  BY <1>1, SymbolAtIs DEF ShownSymbol, Readable
<1>3. ~EndsAt(start + 4, p)
  BY DEF EndsAt
<1> HIDE DEF c
<1>4. word \in Seq(Readable) /\ Len(word) = 1 /\ word[1] = c
  BY <1>2
<1> HIDE DEF word
<1>5. \A j \in 1 .. Len(word) : word[j] = ShownSymbol(SymbolAt(p + j - 1))
  <2>1. TAKE j \in 1 .. Len(word)
  <2>2. j = 1 /\ p + j - 1 = p
    BY <1>1, <1>4
  <2>3. QED BY <1>4, <2>2 DEF c
<1>6. \A k \in p .. p + Len(word) - 1 : ~EndsAt(start + 4, k)
  BY <1>1, <1>3, <1>4
<1>7. p + Len(word) <= Len(text) + 1
  BY <1>1, <1>4
<1>8. ReadUpTo(start, p + Len(word), 0, tmp \o word)
  BY <1>4, <1>5, <1>6, <1>7, ReadGrows
<1>9. QED BY <1>4, <1>8 DEF word, c

\* A dash alone is text of the comment.
LEMMA DashGrows ==
  ASSUME text \in Seq(Symbols), NEW start \in Nat \ {0}, NEW p \in Nat, NEW tmp,
         ReadUpTo(start, p, 1, tmp), SymbolAt(p + 1) \notin {"-", EOF},
         p = start + 4 => SymbolAt(p + 1) # ">"
  PROVE  ReadUpTo(start, p + 1, 0, tmp \o <<"-">>)
<1> DEFINE word == <<"-">>
<1>1. p \in Nat \ {0} /\ p <= Len(text) /\ Len(text) \in Nat /\ SymbolAt(p) = "-"
  BY SymbolAtIs DEF ReadUpTo, EOF
<1>2. ShownSymbol("-") = "-" /\ "-" \in Readable
  BY <1>1, SymbolAtIs DEF ShownSymbol, NUL, Readable
<1>3. ~EndsAt(start + 4, p)
  BY <1>1 DEF EndsAt, EOF
<1>4. word \in Seq(Readable) /\ Len(word) = 1 /\ word[1] = "-"
  BY <1>2
<1> HIDE DEF word
<1>5. \A j \in 1 .. Len(word) : word[j] = ShownSymbol(SymbolAt(p + j - 1))
  <2>1. TAKE j \in 1 .. Len(word)
  <2>2. j = 1 /\ p + j - 1 = p
    BY <1>1, <1>4
  <2>3. QED BY <1>1, <1>2, <1>4, <2>2
<1>6. \A k \in p .. p + Len(word) - 1 : ~EndsAt(start + 4, k)
  BY <1>1, <1>3, <1>4
<1>7. p + Len(word) <= Len(text) + 1
  BY <1>1, <1>4
<1>8. ReadUpTo(start, p + Len(word), 0, tmp \o word)
  BY <1>4, <1>5, <1>6, <1>7, ReadGrows
<1>9. QED BY <1>4, <1>8 DEF word

\* Of three dashes the first is text of the comment.
LEMMA ThirdDashGrows ==
  ASSUME text \in Seq(Symbols), NEW start \in Nat \ {0}, NEW p \in Nat, NEW tmp,
         ReadUpTo(start, p, 2, tmp), SymbolAt(p + 2) = "-"
  PROVE  ReadUpTo(start, p + 1, 2, tmp \o <<"-">>)
<1>1. p \in Nat \ {0} /\ SymbolAt(p) = "-" /\ SymbolAt(p + 1) = "-"
  BY DEF ReadUpTo
<1>2. ~EndsAt(start + 4, p)
  BY <1>1 DEF EndsAt, EOF
<1> DEFINE word == <<"-">>
<1>3. p <= Len(text) /\ Len(text) \in Nat
  BY <1>1, SymbolAtIs DEF EOF
<1>4. ShownSymbol("-") = "-" /\ "-" \in Readable
  BY <1>1, <1>3, SymbolAtIs DEF ShownSymbol, NUL, Readable
<1>5. word \in Seq(Readable) /\ Len(word) = 1 /\ word[1] = "-"
  BY <1>4
<1> HIDE DEF word
<1>6. \A j \in 1 .. Len(word) : word[j] = ShownSymbol(SymbolAt(p + j - 1))
  <2>1. TAKE j \in 1 .. Len(word)
  <2>2. j = 1 /\ p + j - 1 = p
    BY <1>1, <1>5
  <2>3. QED BY <1>1, <1>4, <1>5, <2>2
<1>7. \A k \in p .. p + Len(word) - 1 : ~EndsAt(start + 4, k)
  BY <1>1, <1>2, <1>5
<1>8. p + Len(word) <= Len(text) + 1
  BY <1>3, <1>5
<1>9. ReadUpTo(start, p + Len(word), 0, tmp \o word)
  BY <1>5, <1>6, <1>7, <1>8, ReadGrows
<1>10. ReadUpTo(start, p + 1, 0, tmp \o <<"-">>)
  BY <1>5, <1>9 DEF word
<1>11. SymbolAt((p + 1) + 1) = "-"
  BY <1>1
<1>12. QED BY <1>1, <1>10, <1>11 DEF ReadUpTo

\* Two dashes before what cannot end the comment are its text.
LEMMA DashesGrow ==
  ASSUME text \in Seq(Symbols), NEW start \in Nat \ {0}, NEW p \in Nat, NEW tmp,
         ReadUpTo(start, p, 2, tmp), SymbolAt(p + 2) \notin {"-", "!", ">", EOF}
  PROVE  ReadUpTo(start, p + 2, 0, tmp \o <<"-", "-">>)
<1> DEFINE word == <<"-", "-">>
<1>1. /\ p \in Nat \ {0} /\ start + 4 <= p /\ p + 1 <= Len(text) /\ Len(text) \in Nat
      /\ SymbolAt(p) = "-" /\ SymbolAt(p + 1) = "-"
  <2>1. p \in Nat \ {0} /\ start + 4 <= p /\ SymbolAt(p) = "-" /\ SymbolAt(p + 1) = "-"
    BY DEF ReadUpTo
  <2>2. p + 1 <= Len(text)
    BY <2>1, SymbolAtIs DEF EOF
  <2>3. QED BY <2>1, <2>2
<1>2. ShownSymbol("-") = "-" /\ "-" \in Readable
  <2>1. p <= Len(text)
    BY <1>1
  <2>2. "-" \in Symbols
    BY <1>1, <2>1, SymbolAtIs
  <2>3. QED BY <2>2 DEF ShownSymbol, NUL, Readable
<1>3. ~EndsAt(start + 4, p) /\ ~EndsAt(start + 4, p + 1)
  <2>1. (p + 1) + 1 = p + 2 /\ p + 1 # start + 4
    BY <1>1
  <2>2. QED BY <1>1, <2>1 DEF EndsAt, EOF
<1>4. word \in Seq(Readable) /\ Len(word) = 2 /\ word[1] = "-" /\ word[2] = "-"
  BY <1>2
<1> HIDE DEF word
<1>5. \A j \in 1 .. Len(word) : word[j] = ShownSymbol(SymbolAt(p + j - 1))
  <2>1. TAKE j \in 1 .. Len(word)
  <2>2. (j = 1 /\ p + j - 1 = p) \/ (j = 2 /\ p + j - 1 = p + 1)
    BY <1>1, <1>4
  <2>3. QED BY <1>1, <1>2, <1>4, <2>2
<1>6. \A k \in p .. p + Len(word) - 1 : ~EndsAt(start + 4, k)
  <2>1. \A k \in p .. p + Len(word) - 1 : k = p \/ k = p + 1
    BY <1>1, <1>4
  <2>2. QED BY <1>3, <2>1
<1>7. p + Len(word) <= Len(text) + 1
  BY <1>1, <1>4
<1>8. ReadUpTo(start, p + Len(word), 0, tmp \o word)
  BY <1>4, <1>5, <1>6, <1>7, ReadGrows
<1>9. QED BY <1>4, <1>8 DEF word

\* --! before what cannot end the comment is its text.
LEMMA BangGrows ==
  ASSUME text \in Seq(Symbols), NEW start \in Nat \ {0}, NEW p \in Nat, NEW tmp,
         ReadUpTo(start, p, 3, tmp), SymbolAt(p + 3) \notin {">", EOF}
  PROVE  ReadUpTo(start, p + 3, 0, tmp \o <<"-", "-", "!">>)
<1> DEFINE word == <<"-", "-", "!">>
<1>1. /\ p \in Nat \ {0} /\ start + 4 <= p /\ p + 2 <= Len(text) /\ Len(text) \in Nat
      /\ SymbolAt(p) = "-" /\ SymbolAt(p + 1) = "-" /\ SymbolAt(p + 2) = "!"
  <2>1. p \in Nat \ {0} /\ start + 4 <= p
        /\ SymbolAt(p) = "-" /\ SymbolAt(p + 1) = "-" /\ SymbolAt(p + 2) = "!"
    BY DEF ReadUpTo
  <2>2. p + 2 <= Len(text)
    BY <2>1, SymbolAtIs DEF EOF
  <2>3. QED BY <2>1, <2>2
<1>2. ShownSymbol("-") = "-" /\ ShownSymbol("!") = "!" /\ "-" \in Readable /\ "!" \in Readable
  <2>1. p <= Len(text) /\ p + 2 <= Len(text) /\ p + 2 \in Nat \ {0}
    BY <1>1
  <2>2. "-" \in Symbols /\ "!" \in Symbols
    BY <1>1, <2>1, SymbolAtIs
  <2>3. QED BY <2>2 DEF ShownSymbol, NUL, Readable
<1>3. ~EndsAt(start + 4, p) /\ ~EndsAt(start + 4, p + 1) /\ ~EndsAt(start + 4, p + 2)
  <2>1. (p + 1) + 1 = p + 2 /\ p + 1 # start + 4 /\ p + 2 # start + 4
    BY <1>1
  <2>2. QED BY <1>1, <2>1 DEF EndsAt, EOF
<1>4. word \in Seq(Readable) /\ Len(word) = 3 /\ word[1] = "-" /\ word[2] = "-" /\ word[3] = "!"
  BY <1>2
<1> HIDE DEF word
<1>5. \A j \in 1 .. Len(word) : word[j] = ShownSymbol(SymbolAt(p + j - 1))
  <2>1. TAKE j \in 1 .. Len(word)
  <2>2. \/ j = 1 /\ p + j - 1 = p
        \/ j = 2 /\ p + j - 1 = p + 1
        \/ j = 3 /\ p + j - 1 = p + 2
    BY <1>1, <1>4
  <2>3. QED BY <1>1, <1>2, <1>4, <2>2
<1>6. \A k \in p .. p + Len(word) - 1 : ~EndsAt(start + 4, k)
  <2>1. \A k \in p .. p + Len(word) - 1 : k = p \/ k = p + 1 \/ k = p + 2
    BY <1>1, <1>4
  <2>2. QED BY <1>3, <2>1
<1>7. p + Len(word) <= Len(text) + 1
  BY <1>1, <1>4
<1>8. ReadUpTo(start, p + Len(word), 0, tmp \o word)
  BY <1>4, <1>5, <1>6, <1>7, ReadGrows
<1>9. QED BY <1>4, <1>8 DEF word

\* Nothing of a bogus comment was read where its text begins.
LEMMA BogusFresh ==
  ASSUME text \in Seq(Symbols), NEW start \in Nat \ {0}, ~IsComment(start),
         SymbolAt(start + 1) = "/" => SymbolAt(start + 2) # ">"
  PROVE  BogusUpTo(start, BogusStart(start), <<>>)
<1> DEFINE from == BogusStart(start)
<1>1. from \in Nat \ {0}
  BY DEF BogusStart
<1>2. ShownFrom(from, from) = <<>>
  BY <1>1, ShownNothing
<1>3. \A k \in from .. from - 1 : SymbolAt(k) # ">"
  BY <1>1
<1>4. QED BY <1>1, <1>2, <1>3 DEF BogusUpTo

\* a comment or a doctype is read
LEMMA PartKept ==
  ASSUME text \in Seq(Symbols), NEW r, CanEmit(r), r.emitted = FALSE, r.resume = 0,
         r.buffered = NoChar, r.tag.open = FALSE, r.tag.listed = FALSE,
         r.state \in (Comments \ {"MARKUP_DECLARATION_OPEN"}) \cup Doctypes,
         r.doctype.owned <=> r.state \in Doctypes,
         r.state \in Unused => r.tmp = <<>>,
         r.state \in InComment => MarkedAt(r, "<") /\ Told(r.mark, Behind(r), r.state, r.tmp)
  PROVE  Kept(Advanced(r))
<1> DEFINE n == Advanced(r)
<1>1. Moved(r, n)
  BY AdvanceIs DEF CanEmit
<1> HIDE DEF n
<1>2. r.state \notin BuildsTag \cup References \cup Plain \cup MayBeText \cup Values
      /\ r.state \notin {"TAG_OPEN", "END_TAG_OPEN", "MARKUP_DECLARATION_OPEN", "AFTER_ATTR_NAME",
                         "CDATA_SECTION_BRACKET", "CDATA_SECTION_END", "AMBIGUOUS_AMPERSAND"}
  BY DEF Comments, Doctypes, BuildsTag, Attributes, References, Plain, Texts, MayBeText,
         NamesEndTag, Values, InValue
<1>3. r.state \in AllStates
  BY DEF AllStates
<1>4. ~InTag(r) /\ ~InTag(n) /\ ~ReadsValue(n) /\ n.state = r.state
  BY <1>1, <1>2 DEF InTag, ReadsValue, Moved, Values
<1>5. Owns(r)
  BY <1>4 DEF Owns
<1>6. Clean(n)
  BY <1>1, <1>2, <1>4 DEF Clean, Moved
<1>7. n.state \in InComment => MarkedAt(n, "<") /\ Told(n.mark, n.pos, n.state, n.tmp)
  <2>1. r.pos <= n.pos /\ r.pos \in Nat /\ n.pos \in Nat /\ r.mark \in Nat
    BY <1>1 DEF Moved, Behind, CanEmit, Places
  <2>2. n.mark = r.mark /\ n.start = r.start /\ n.pos = Behind(r) /\ n.tmp = r.tmp
    BY <1>1 DEF Moved
  <2>3. QED BY <1>4, <2>1, <2>2 DEF MarkedAt
<1>8. Stands(n)
  BY <1>2, <1>4, <1>7 DEF Stands
<1>9. QED BY <1>3, <1>5, <1>6, <1>8, QuietKept DEF n

EndTagOpens == {"RCDATA_END_TAG_OPEN", "RAWTEXT_END_TAG_OPEN", "SCRIPT_DATA_END_TAG_OPEN",
                "SCRIPT_DATA_ESCAPED_END_TAG_OPEN"}

\* it may still be text
LEMMA MayBeKept ==
  \A s, x :
    /\ Ready(s) /\ MarkedAt(s, "<") /\ Closed(s) /\ Frame(s, x) /\ x.tag = s.tag
    /\ x.reconsume = FALSE
    /\ \/ x.state \in EndTagOpens
       \/ s.pos = s.mark + 1 /\ x.state = "END_TAG_OPEN" /\ Current(s) = "/"
       \/ s.pos = s.mark + 1 /\ x.state = "MARKUP_DECLARATION_OPEN" /\ Current(s) = "!"
          /\ x.tmp = <<>>
    => Kept(Advanced(x))
<1>1. SUFFICES ASSUME NEW s, NEW x, Ready(s), MarkedAt(s, "<"), Closed(s), Frame(s, x),
                      x.tag = s.tag, x.reconsume = FALSE,
                      \/ x.state \in EndTagOpens
                      \/ s.pos = s.mark + 1 /\ x.state = "END_TAG_OPEN" /\ Current(s) = "/"
                      \/ s.pos = s.mark + 1 /\ x.state = "MARKUP_DECLARATION_OPEN"
                         /\ Current(s) = "!" /\ x.tmp = <<>>
      PROVE  Kept(Advanced(x))
  OBVIOUS
<1> DEFINE n == Advanced(x)
<1>2. text \in Seq(Symbols) /\ Places(s)
  BY <1>1 DEF Ready, Kept
<1>3. CanEmit(x) /\ x.emitted = FALSE /\ x.resume = 0 /\ x.buffered = NoChar
  BY <1>1, FrameCan
<1>4. Moved(x, n) /\ n.start = s.start /\ n.mark = s.mark /\ n.pos \in s.pos .. Len(text) + 1
      /\ (s.pos <= Len(text) => n.pos = s.pos + 1)
  BY <1>1, <1>2, <1>3, AdvanceIs DEF CanEmit, Moved, Behind, Frame, Places
<1> HIDE DEF n
<1>5. MarkedAt(n, "<")
  BY <1>1, <1>2, <1>4 DEF MarkedAt, Places
<1>6. Current(s) \in {"/", "!"} => s.pos <= Len(text) /\ text[s.pos] = Current(s)
  BY <1>2 DEF Current, Places, EOF
<1>7. n.state = "END_TAG_OPEN" => n.pos = n.mark + 2 /\ text[n.mark + 1] = "/"
  BY <1>1, <1>2, <1>4, <1>6 DEF Moved, Places, EndTagOpens
<1>8. n.state = "MARKUP_DECLARATION_OPEN" => n.pos = n.mark + 2 /\ text[n.mark + 1] = "!"
  BY <1>1, <1>2, <1>4, <1>6 DEF Moved, Places, EndTagOpens
<1>9. /\ x.state \notin BuildsTag \cup References \cup Plain \cup Values \cup Doctypes
      /\ x.state \in AllStates
      /\ x.state \notin {"TAG_OPEN", "AFTER_ATTR_NAME", "CDATA_SECTION_BRACKET",
                         "CDATA_SECTION_END", "AMBIGUOUS_AMPERSAND"}
      /\ x.state \in Unused => x.tmp = <<>>
      /\ x.state \notin InComment
  BY <1>1 DEF EndTagOpens, BuildsTag, Attributes, References, Plain, Texts, Values, InValue,
              Doctypes, AllStates, EndTags, Scripts, Tags, Comments, Unused, InComment
<1>10. ~InTag(x) /\ ~InTag(n) /\ ~ReadsValue(n) /\ n.state = x.state /\ n.tmp = x.tmp
  BY <1>4, <1>9 DEF InTag, ReadsValue, Moved, Values
<1>11. Owns(x)
  BY <1>1, <1>9, <1>10 DEF Owns, Closed, Frame
<1>12. Clean(n)
  BY <1>9, <1>10 DEF Clean
<1>13. Stands(n)
  BY <1>5, <1>7, <1>8, <1>9, <1>10 DEF Stands
<1>14. QED BY <1>2, <1>3, <1>9, <1>11, <1>12, <1>13, QuietKept DEF n

\* a comment begins after all
LEMMA BogusBegins ==
  \A s : Ready(s) /\ Closed(s) /\ MarkedAt(s, "<") /\ BogusUpTo(s.mark, s.pos, <<>>) =>
    Kept(Advanced(reconsume_in_state(clear_temporary_buffer(tokenizer_add_parse_error(s)),
                                     "BOGUS_COMMENT")))
<1>1. SUFFICES ASSUME NEW s, Ready(s), Closed(s), MarkedAt(s, "<"),
                      BogusUpTo(s.mark, s.pos, <<>>)
      PROVE  Kept(Advanced(reconsume_in_state(clear_temporary_buffer(
                             tokenizer_add_parse_error(s)), "BOGUS_COMMENT")))
  OBVIOUS
<1> DEFINE e == tokenizer_add_parse_error(s)
           x == clear_temporary_buffer(e)
           r == reconsume_in_state(x, "BOGUS_COMMENT")
<1>2. Frame(s, e) /\ e.tag = s.tag
  BY <1>1, FrameSelf, ErrorFrame DEF Ready, Kept, With
<1> HIDE DEF e
<1>3. Frame(s, x) /\ x.tag = s.tag /\ x.tmp = <<>>
  BY <1>2, ClearFrame DEF With
<1> HIDE DEF x
<1>4. Frame(s, r) /\ r.tag = s.tag /\ r.reconsume = TRUE /\ r.state = "BOGUS_COMMENT"
      /\ r.tmp = <<>>
  BY <1>3, ReconsumeFrame DEF With
<1> HIDE DEF r
<1>5. CanEmit(r) /\ r.emitted = FALSE /\ r.resume = 0 /\ r.buffered = NoChar
      /\ text \in Seq(Symbols)
  BY <1>1, <1>4, FrameCan DEF Ready
<1>6. "BOGUS_COMMENT" \in Comments \ {"MARKUP_DECLARATION_OPEN"} /\ "BOGUS_COMMENT" \notin Unused
      /\ "BOGUS_COMMENT" \notin Doctypes
  BY DEF Comments, Unused, Doctypes
<1>7. r.tag.open = FALSE /\ r.tag.listed = FALSE /\ r.doctype.owned = FALSE
  BY <1>1, <1>4 DEF Closed, Frame
<1>8. MarkedAt(r, "<") /\ Told(r.mark, Behind(r), "BOGUS_COMMENT", <<>>)
  BY <1>1, <1>4 DEF Frame, MarkedAt, Behind, Told
<1>9. Kept(Advanced(r))
  BY <1>4, <1>5, <1>6, <1>7, <1>8, PartKept
<1>10. QED BY <1>9 DEF e, x, r

\* <? and </ may open a bogus comment.
LEMMA DeclaresBogus ==
  ASSUME NEW s, Ready(s), MarkedAt(s, "<"),
         \/ s.state = "TAG_OPEN" /\ Current(s) = "?"
         \/ s.state = "END_TAG_OPEN" /\ Current(s) # ">"
  PROVE  BogusUpTo(s.mark, s.pos, <<>>)
<1>1. /\ text \in Seq(Symbols) /\ s.mark \in Nat \ {0} /\ s.pos \in Nat \ {0}
      /\ s.mark <= Len(text) /\ s.mark < s.pos /\ Len(text) \in Nat
      /\ s.pos <= Len(text) + 1 /\ text[s.mark] = "<" /\ Stands(s)
  BY DEF Ready, Kept, Places, MarkedAt
<1>2. SymbolAt(s.pos) = Current(s)
  BY DEF SymbolAt, Current
<1>3. CASE s.state = "TAG_OPEN" /\ Current(s) = "?"
  <2>1. s.pos = s.mark + 1
    BY <1>1, <1>3 DEF Stands
  <2>2. SymbolAt(s.mark + 1) = "?"
    BY <1>2, <1>3, <2>1
  <2>3. BogusStart(s.mark) = s.pos /\ ~IsComment(s.mark)
    BY <2>1, <2>2 DEF BogusStart, IsComment
  <2>4. QED BY <1>1, <2>2, <2>3, BogusFresh
<1>4. CASE s.state = "END_TAG_OPEN" /\ Current(s) # ">"
  <2>1. s.pos = s.mark + 2 /\ text[s.mark + 1] = "/"
    BY <1>1, <1>4 DEF Stands
  <2>2. SymbolAt(s.mark + 1) = "/"
    BY <1>1, <2>1 DEF SymbolAt
  <2>3. BogusStart(s.mark) = s.pos /\ ~IsComment(s.mark) /\ SymbolAt(s.mark + 2) # ">"
    BY <1>2, <1>4, <2>1, <2>2 DEF BogusStart, IsComment
  <2>4. QED BY <1>1, <2>2, <2>3, BogusFresh
<1>5. QED BY <1>3, <1>4

\* back, if what was read may still be text
LEMMA GoesBack ==
  \A s, c, state : Ready(s) /\ Closed(s) /\ MarkedAt(s, c) /\ state \in Plain =>
    /\ Kept(Advanced(Back(s, state)))
    /\ Kept(Advanced(Back(tokenizer_add_parse_error(s), state)))
<1>1. SUFFICES ASSUME NEW s, NEW c, NEW state \in Plain, Ready(s), Closed(s), MarkedAt(s, c)
      PROVE  /\ Kept(Advanced(Back(s, state)))
             /\ Kept(Advanced(Back(tokenizer_add_parse_error(s), state)))
  OBVIOUS
<1> DEFINE e == tokenizer_add_parse_error(s)
<1>2. Frame(s, s) /\ Frame(s, e) /\ e.tag = s.tag /\ text \in Seq(Symbols)
  BY <1>1, FrameSelf, ErrorFrame DEF Ready, Kept, With
<1> HIDE DEF e
<1>3. CanGoBack(s) /\ CanGoBack(e)
  BY <1>1, <1>2, MarkedCan DEF Closed, Frame
<1>4. QED BY <1>1, <1>2, <1>3, BackKept DEF e

\* Nothing is left of </>.
LEMMA NothingLeft ==
  ASSUME NEW s, Ready(s), Closed(s), s.state = "END_TAG_OPEN", Current(s) = ">"
  PROVE  Kept(Advanced(gumbo_tokenizer_set_state(tokenizer_add_parse_error(s), "DATA")))
<1> DEFINE e == tokenizer_add_parse_error(s)
           x == gumbo_tokenizer_set_state(e, "DATA")
           n == Advanced(x)
<1>1. Kept(s) /\ Shape(s) /\ Places(s) /\ Stands(s) /\ text \in Seq(Symbols) /\ s.reconsume = FALSE
  BY DEF Ready, Kept
<1>2. Frame(s, e) /\ With(e, s.state, FALSE, s.tmp, s.tag)
  BY <1>1, FrameSelf, ErrorFrame
<1> HIDE DEF e
<1>3. Frame(s, x) /\ With(x, "DATA", FALSE, s.tmp, s.tag)
  BY <1>2, StateFrame DEF With
<1> HIDE DEF x
<1>4. CanEmit(x) /\ x.emitted = FALSE /\ x.resume = 0 /\ x.buffered = NoChar
  BY <1>3, FrameCan DEF With
<1>5. s.pos <= Len(text) /\ text[s.pos] = ">"
  BY <1>1 DEF Current, EOF, Places
<1>6. s.pos = s.mark + 2 /\ text[s.mark + 1] = "/" /\ MarkedAt(s, "<")
  BY <1>1 DEF Stands, MayBeText
<1>7. Covered(s.start, s.pos + 1, Dropped)
  <2> DEFINE word == <<"<", "/", ">">>
  <2>1. word \in Dropped /\ word \in Seq(Marks) /\ Len(word) = 3
    BY WordsAre DEF Dropped
  <2>2. word[1] = "<" /\ word[2] = "/" /\ word[3] = ">"
    OBVIOUS
  <2> HIDE DEF word
  <2>3. s.mark \in Nat /\ s.start \in Nat /\ s.start <= s.mark /\ s.pos + 1 = s.mark + 3
        /\ s.pos \in Nat
    BY <1>1, <1>6, SMTT(30) DEF MarkedAt, Places
  <2>4. Held(word, s.mark, s.mark + Len(word))
    <3>1. \A j \in 1 .. Len(word) : text[s.mark + j - 1] = word[j]
      <4>1. TAKE j \in 1 .. Len(word)
      <4>2. j \in {1, 2, 3}
        BY <2>1
      <4>3. text[s.mark] = "<" /\ text[s.mark + 1] = "/" /\ text[s.mark + 2] = ">"
        BY <1>5, <1>6 DEF MarkedAt
      <4>4. CASE j = 1
        BY <2>2, <2>3, <4>3, <4>4
      <4>5. CASE j = 2
        BY <2>2, <2>3, <4>3, <4>5
      <4>6. CASE j = 3
        BY <2>2, <2>3, <4>3, <4>6
      <4>7. QED BY <4>2, <4>4, <4>5, <4>6
    <3>2. QED BY <2>1, <2>3, <3>1 DEF Held
  <2>5. Covered(s.mark, s.mark + Len(word), Dropped)
    BY <2>1, <2>3, <2>4, CoveredWord
  <2>6. Covered(s.start, s.mark, Dropped)
    BY <1>6 DEF MarkedAt
  <2>7. Covered(s.start, s.mark + 3, Dropped)
    BY <2>1, <2>3, <2>5, <2>6, CoveredJoins, WordsAre
  <2>8. QED BY <2>3, <2>7
<1>8. Moved(x, n) /\ n.start = s.start /\ n.pos = s.pos + 1 /\ n.state = "DATA"
  BY <1>1, <1>3, <1>4, <1>5, AdvanceIs DEF CanEmit, Moved, Behind, Frame, With, Places
<1> HIDE DEF n
<1>9. ~InTag(n) /\ ~InTag(x)
  BY <1>3, <1>8 DEF InTag, BuildsTag, Attributes, References, With
<1>10. Stands(n) /\ Clean(n)
  BY <1>7, <1>8, <1>9 DEF Stands, Clean, MayBeText, NamesEndTag, References, Unused, ReadsValue,
                          InValue, InComment, Comments
<1>11. Owns(x) /\ x.state \in AllStates
  BY <1>3, <1>4, <1>9 DEF Owns, Closed, Frame, With, Doctypes, AllStates, Texts
<1>12. QED BY <1>1, <1>4, <1>10, <1>11, QuietKept DEF n, x, e

\* a reference in the value of an attribute
LEMMA ValueReference ==
  ASSUME NEW s, Ready(s), s.state \in InValue
  PROVE  Kept(Advanced(StartsReference(s, s.state)))
<1> DEFINE r == StartsReference(s, s.state)
           n == Advanced(r)
<1>1. s.state \in BuildsTag /\ s.state \in Values
  BY DEF InValue, BuildsTag, Attributes, Values
<1>2. InTag(s) /\ Valued(s.tag)
  BY <1>1, ReadyFrame
<1>3. /\ s.tag.open /\ s.tag.open = s.tag.listed /\ ~s.doctype.owned
      /\ text[s.start] = "<" /\ s.start < s.pos /\ Shape(s) /\ Places(s) /\ s.reconsume = FALSE
      /\ text \in Seq(Symbols)
  BY <1>2, ReadyTag
<1>4. Opened(s, r) /\ r.state = "CHARACTER_REFERENCE" /\ r.return = s.state
  BY <1>3, StartsReferenceIs
<1> HIDE DEF r
<1>5. CanEmit(r) /\ r.emitted = FALSE /\ r.resume = 0 /\ r.buffered = NoChar
  BY <1>3, <1>4 DEF Ready, Kept, Opened, CanEmit, Places, Returns
<1>6. Moved(r, n) /\ n.start = s.start /\ n.pos \in s.pos .. Len(text) + 1 /\ n.tag = s.tag
  BY <1>3, <1>4, <1>5, AdvanceIs DEF CanEmit, Moved, Behind, Opened, Places
<1> HIDE DEF n
<1>7. InTag(r) /\ r.state \in References /\ r.state \in AllStates /\ r.state \notin Doctypes
  BY <1>4 DEF InTag, References, AllStates, Doctypes
<1>8. Owns(r)
  BY <1>3, <1>4, <1>5, <1>7 DEF Owns, Opened
<1>9. n.state = "CHARACTER_REFERENCE" /\ InTag(n)
  BY <1>4, <1>6, <1>7 DEF Moved, InTag
<1>10. Clean(n)
  BY <1>2, <1>6, <1>9 DEF Clean, Unused
<1>11. text[n.start] = "<" /\ n.start < n.pos
  BY <1>3, <1>6 DEF Places
<1>12. Stands(n)
  BY <1>9, <1>11 DEF Stands, Plain, Texts, MayBeText, NamesEndTag, InComment, Comments
<1>13. QED BY <1>3, <1>5, <1>7, <1>8, <1>10, <1>12, QuietKept DEF n, r

\* the terms in which the handlers of values end
LEMMA ValueTerms ==
  ASSUME NEW s, Ready(s), s.state \in BuildsTag, Valued(s.tag)
  PROVE  /\ \A next \in Values : /\ Kept(Advanced(gumbo_tokenizer_set_state(s, next)))
                                 /\ Kept(Advanced(reconsume_in_state(s, next)))
         /\ Kept(Advanced(finish_attribute_value(gumbo_tokenizer_set_state(s, "BEFORE_ATTR_NAME"))))
         /\ Current(s) = ">" => Kept(Advanced(TagDone(finish_attribute_value(s))))
         /\ TagFrame(s, finish_attribute_value(s), s.state, FALSE, FALSE)
<1> DEFINE x == gumbo_tokenizer_set_state(s, "BEFORE_ATTR_NAME")
           f == finish_attribute_value(s)
           g == finish_attribute_value(x)
<1>1. InTag(s) /\ TagFrame(s, s, s.state, FALSE, TRUE)
  BY ReadyFrame
<1>2. TagFrame(s, x, "BEFORE_ATTR_NAME", FALSE, TRUE) /\ TagFrame(s, f, s.state, FALSE, FALSE)
  BY <1>1, TagOps
<1> HIDE DEF x
<1>3. TagFrame(s, g, "BEFORE_ATTR_NAME", FALSE, FALSE)
  BY <1>2, TagOps
<1> HIDE DEF f, g
<1>4. Kept(Advanced(g))
  BY <1>1, <1>3, TagKept DEF BuildsTag, Attributes, NamesEndTag, Values, InValue
<1>5. Current(s) = ">" => Kept(Advanced(TagDone(f)))
  BY <1>1, <1>2, TagEnds DEF TagFrame
<1>6. ASSUME NEW next \in Values
      PROVE  /\ Kept(Advanced(gumbo_tokenizer_set_state(s, next)))
             /\ Kept(Advanced(reconsume_in_state(s, next)))
  <2>1. next \in BuildsTag /\ next \notin NamesEndTag /\ next # "AFTER_ATTR_NAME"
    BY <1>6 DEF Values, InValue, BuildsTag, Attributes, NamesEndTag
  <2>2. /\ TagFrame(s, gumbo_tokenizer_set_state(s, next), next, FALSE, TRUE)
        /\ TagFrame(s, reconsume_in_state(s, next), next, TRUE, TRUE)
    BY <1>1, TagOps
  <2>3. QED BY <1>1, <2>1, <2>2, TagKept
<1>7. QED BY <1>2, <1>4, <1>5, <1>6 DEF f, g, x

\* the tag goes on as it is
LEMMA TagWaits ==
  ASSUME NEW s, Ready(s), s.state \in BuildsTag, s.state \notin NamesEndTag,
         s.state = "AFTER_ATTR_NAME" => Valued(s.tag)
  PROVE  Kept(Advanced(s))
<1>1. InTag(s) /\ TagFrame(s, s, s.state, FALSE, Valued(s.tag))
      /\ (s.state \in Values => Valued(s.tag))
  BY ReadyFrame
<1>2. QED BY <1>1, TagKept

\* /> ends a tag.
LEMMA SelfClosing ==
  ASSUME NEW s, Ready(s), s.state \in BuildsTag, Current(s) = ">"
  PROVE  Kept(Advanced(TagDone([s EXCEPT !.tag.self_closing = TRUE])))
<1> DEFINE x == [s EXCEPT !.tag.self_closing = TRUE]
<1>1. InTag(s) /\ Shape(s) /\ s.tag.open /\ s.reconsume = FALSE
  BY ReadyTag DEF InTag
<1>2. Frame(s, x) /\ x.tag.open /\ x.reconsume = FALSE
  BY <1>1 DEF Frame, Shape, Listed, StateFields, TagFields
<1> HIDE DEF x
<1>3. QED BY <1>1, <1>2, TagEnds DEF x

\* The states of tags and attributes.
LEMMA LexTagKept ==
  ASSUME NEW s, Ready(s), s.state \in Tags
  PROVE  Kept(Advanced(LexTag(s, Current(s))))
<1> DEFINE c == Current(s)
           r == LexTag(s, c)
<1>1. CASE s.state \in {"TAG_OPEN", "END_TAG_OPEN"}
  <2>1. Closed(s) /\ s.reconsume = FALSE
    BY <1>1, ReadyClosed DEF InTag, BuildsTag, Attributes, References, Doctypes
  <2>2. MarkedAt(s, "<") /\ Shape(s) /\ (s.state = "TAG_OPEN" => s.pos = s.mark + 1)
    BY <1>1 DEF Ready, Kept, Stands, MayBeText
  <2>3. Kept(Advanced(Back(tokenizer_add_parse_error(s), "DATA")))
    BY <2>1, <2>2, GoesBack DEF Plain, Texts
  <2>4. \A start : is_alpha(c) =>
          Kept(Advanced(start_new_tag(reconsume_in_state(s, "TAG_NAME"), start)))
    BY <2>1, <2>2, TagBegins
  <2>5. BogusUpTo(s.mark, s.pos, <<>>) =>
          Kept(Advanced(reconsume_in_state(clear_temporary_buffer(tokenizer_add_parse_error(s)),
                                           "BOGUS_COMMENT")))
    BY <2>1, <2>2, BogusBegins
  <2>6. CASE s.state = "TAG_OPEN"
    <3> DEFINE x == gumbo_tokenizer_set_state(s, "MARKUP_DECLARATION_OPEN")
               y == clear_temporary_buffer(x)
               z == gumbo_tokenizer_set_state(s, "END_TAG_OPEN")
    <3>1. /\ Frame(s, x) /\ With(x, "MARKUP_DECLARATION_OPEN", FALSE, s.tmp, s.tag)
          /\ Frame(s, z) /\ With(z, "END_TAG_OPEN", FALSE, s.tmp, s.tag)
      BY <2>1, <2>2, FrameSelf, StateFrame
    <3> HIDE DEF x, z
    <3>2. Frame(s, y) /\ With(y, "MARKUP_DECLARATION_OPEN", FALSE, <<>>, s.tag)
      BY <3>1, ClearFrame DEF With
    <3> HIDE DEF y
    <3>3. (c = "!" => Kept(Advanced(y))) /\ (c = "/" => Kept(Advanced(z)))
      BY <2>1, <2>2, <2>6, <3>1, <3>2, MayBeKept DEF With
    <3>4. r = handle_tag_open_state(s, c)
      BY <2>6 DEF LexTag
    <3>5. c = "?" => BogusUpTo(s.mark, s.pos, <<>>)
      BY <2>2, <2>6, DeclaresBogus
    <3> HIDE DEF c, r
    <3>6. Kept(Advanced(handle_tag_open_state(s, c)))
      BY <2>3, <2>4, <2>5, <3>3, <3>5 DEF handle_tag_open_state, y, x, z
    <3>7. QED BY <3>4, <3>6 DEF c, r
  <2>7. CASE s.state = "END_TAG_OPEN"
    <3>1. c = ">" => Kept(Advanced(gumbo_tokenizer_set_state(tokenizer_add_parse_error(s),
                                                             "DATA")))
      BY <2>1, <2>7, NothingLeft
    <3>2. r = handle_end_tag_open_state(s, c)
      BY <2>7 DEF LexTag
    <3>3. c # ">" => BogusUpTo(s.mark, s.pos, <<>>)
      BY <2>2, <2>7, DeclaresBogus
    <3> HIDE DEF c, r
    <3>4. Kept(Advanced(handle_end_tag_open_state(s, c)))
      BY <2>3, <2>4, <2>5, <3>1, <3>3 DEF handle_end_tag_open_state, EOF
    <3>5. QED BY <3>2, <3>4 DEF c, r
  <2>8. QED BY <1>1, <2>6, <2>7
<1>2. CASE s.state \in BuildsTag
  <2>1. /\ TagFrame(s, s, s.state, FALSE, FALSE)
        /\ s.state \in Values => Valued(s.tag)
        /\ s.state = "AFTER_ATTR_NAME" => Valued(s.tag) \/ c \in {"/", ">", EOF}
    BY <1>2, ReadyFrame
  <2> HIDE DEF r
  <2>2. /\ Kept(Advanced(EofInTag(s)))
        /\ c = ">" => /\ Kept(Advanced(TagDone(s)))
                      /\ Kept(Advanced(TagDone(tokenizer_add_parse_error(s))))
                      /\ Kept(Advanced(TagDone(finish_tag_name(s))))
        /\ \A next \in Before :
             /\ Kept(Advanced(gumbo_tokenizer_set_state(s, next)))
             /\ Kept(Advanced(reconsume_in_state(s, next)))
             /\ Kept(Advanced(reconsume_in_state(tokenizer_add_parse_error(s), next)))
             /\ Kept(Advanced(gumbo_tokenizer_set_state(finish_tag_name(s), next)))
             /\ \A word : Kept(Advanced(append_to_tag_buffer(
                  gumbo_tokenizer_set_state(tokenizer_add_parse_error(s), next), word)))
        /\ c \in {"/", ">", EOF} => Kept(Advanced(reconsume_in_state(s, "AFTER_ATTR_NAME")))
        /\ Kept(Advanced(reconsume_in_state(finish_attribute_name(s), "AFTER_ATTR_NAME")))
        /\ Kept(Advanced(gumbo_tokenizer_set_state(finish_attribute_name(s),
                                                   "BEFORE_ATTR_VALUE")))
    BY <1>2, <2>1, TagTerms
  <2>3. s.state # "AFTER_ATTR_NAME" =>
          /\ Kept(Advanced(NullInTag(s)))
          /\ \A word : /\ Kept(Advanced(append_to_tag_buffer(s, word)))
                       /\ Kept(Advanced(append_to_tag_buffer(tokenizer_add_parse_error(s), word)))
    BY <1>2, TagAppends
  <2>4. s.state \notin NamesEndTag
    BY DEF Tags, Attributes, NamesEndTag
  <2>5. (s.state = "AFTER_ATTR_NAME" => Valued(s.tag)) => Kept(Advanced(s))
    BY <1>2, <2>4, TagWaits
  <2>6. Valued(s.tag) =>
          /\ \A next \in Values : /\ Kept(Advanced(gumbo_tokenizer_set_state(s, next)))
                                  /\ Kept(Advanced(reconsume_in_state(s, next)))
          /\ Kept(Advanced(finish_attribute_value(
                             gumbo_tokenizer_set_state(s, "BEFORE_ATTR_NAME"))))
          /\ c = ">" => Kept(Advanced(TagDone(finish_attribute_value(s))))
    BY <1>2, ValueTerms
  <2>7. s.state \in InValue => Kept(Advanced(StartsReference(s, s.state))) /\ Valued(s.tag)
    BY <2>1, ValueReference DEF Values
  <2>8. c = ">" => Kept(Advanced(TagDone([s EXCEPT !.tag.self_closing = TRUE])))
    BY <1>2, SelfClosing
  <2>9. s.state = "AFTER_ATTR_VALUE_QUOTED" =>
          LET x == finish_attribute_value(s)
          IN  /\ Kept(Advanced(EofInTag(x)))
              /\ c = ">" => Kept(Advanced(TagDone(x)))
              /\ \A next \in Before :
                   /\ Kept(Advanced(gumbo_tokenizer_set_state(x, next)))
                   /\ Kept(Advanced(reconsume_in_state(tokenizer_add_parse_error(x), next)))
    <3>1. SUFFICES ASSUME s.state = "AFTER_ATTR_VALUE_QUOTED"
          PROVE  LET x == finish_attribute_value(s)
                 IN  /\ Kept(Advanced(EofInTag(x)))
                     /\ c = ">" => Kept(Advanced(TagDone(x)))
                     /\ \A next \in Before :
                          /\ Kept(Advanced(gumbo_tokenizer_set_state(x, next)))
                          /\ Kept(Advanced(reconsume_in_state(tokenizer_add_parse_error(x), next)))
      OBVIOUS
    <3>2. TagFrame(s, finish_attribute_value(s), s.state, FALSE, FALSE)
      BY <1>2, <2>1, <3>1, ValueTerms DEF Values
    <3>3. QED BY <1>2, <3>2, TagTerms
  <2> HIDE DEF c
  <2>10. CASE s.state = "TAG_NAME"
    <3>1. Kept(Advanced(handle_tag_name_state(s, c)))
      BY <2>2, <2>3, <2>10 DEF handle_tag_name_state, Before
    <3>2. QED BY <2>10, <3>1 DEF LexTag, r, c
  <2>11. CASE s.state = "BEFORE_ATTR_NAME"
    <3>1. Kept(Advanced(handle_before_attr_name_state(s, c)))
      BY <2>2, <2>3, <2>5, <2>11 DEF handle_before_attr_name_state, Before
    <3>2. QED BY <2>11, <3>1 DEF LexTag, r, c
  <2>12. CASE s.state = "ATTR_NAME"
    <3>1. Kept(Advanced(handle_attr_name_state(s, c)))
      BY <2>2, <2>3, <2>12 DEF handle_attr_name_state
    <3>2. QED BY <2>12, <3>1 DEF LexTag, r, c
  <2>13. CASE s.state = "AFTER_ATTR_NAME"
    <3>1. c \notin {"/", ">", EOF} => Valued(s.tag)
      BY <2>1, <2>13
    <3>2. Kept(Advanced(handle_after_attr_name_state(s, c)))
      BY <2>2, <2>5, <2>6, <3>1 DEF handle_after_attr_name_state, Before, Values, Space, EOF
    <3>3. QED BY <2>13, <3>2 DEF LexTag, r, c
  <2>14. CASE s.state = "BEFORE_ATTR_VALUE"
    <3>1. Valued(s.tag)
      BY <2>1, <2>14 DEF Values
    <3>2. Kept(Advanced(handle_before_attr_value_state(s, c)))
      BY <2>2, <2>5, <2>6, <2>14, <3>1 DEF handle_before_attr_value_state, Values, InValue
    <3>3. QED BY <2>14, <3>2 DEF LexTag, r, c
  <2>15. CASE s.state \in {"ATTR_VALUE_DOUBLE_QUOTED", "ATTR_VALUE_SINGLE_QUOTED"}
    <3>1. \A quote : Kept(Advanced(QuotedValue(s, c, quote, s.state)))
      <4>1. Kept(Advanced(gumbo_tokenizer_set_state(s, "AFTER_ATTR_VALUE_QUOTED")))
            /\ Kept(Advanced(StartsReference(s, s.state)))
        BY <2>6, <2>7, <2>15 DEF Values, InValue
      <4>2. /\ Kept(Advanced(NullInTag(s))) /\ Kept(Advanced(EofInTag(s)))
            /\ Kept(Advanced(append_to_tag_buffer(s, <<c>>)))
        BY <2>2, <2>3, <2>15
      <4>3. QED BY <4>1, <4>2 DEF QuotedValue
    <3>2. \/ r = QuotedValue(s, c, "\"", s.state)
          \/ r = QuotedValue(s, c, "'", s.state)
      BY <2>15 DEF LexTag, r, handle_attr_value_double_quoted_state,
                   handle_attr_value_single_quoted_state
    <3>3. QED BY <3>1, <3>2 DEF r, c
  <2>16. CASE s.state = "ATTR_VALUE_UNQUOTED"
    <3>1. Valued(s.tag) /\ Kept(Advanced(StartsReference(s, "ATTR_VALUE_UNQUOTED")))
      BY <2>7, <2>16 DEF InValue
    <3>2. Kept(Advanced(handle_attr_value_unquoted_state(s, c)))
      BY <2>2, <2>3, <2>6, <2>16, <3>1 DEF handle_attr_value_unquoted_state
    <3>3. QED BY <2>16, <3>2 DEF LexTag, r, c
  <2>17. CASE s.state = "AFTER_ATTR_VALUE_QUOTED"
    <3>1. Kept(Advanced(handle_after_attr_value_quoted_state(s, c)))
      BY <2>9, <2>17 DEF handle_after_attr_value_quoted_state, AfterValue, Before
    <3>2. QED BY <2>17, <3>1 DEF LexTag, r, c
  <2>18. CASE s.state = "SELF_CLOSING_START_TAG"
    <3>1. Kept(Advanced(handle_self_closing_start_tag_state(s, c)))
      BY <2>2, <2>8, <2>18 DEF handle_self_closing_start_tag_state, Before
    <3>2. QED BY <2>18, <3>1 DEF LexTag, r, c
  <2>19. QED BY <1>2, <2>4, <2>10, <2>11, <2>12, <2>13, <2>14, <2>15, <2>16, <2>17, <2>18
             DEF BuildsTag, Attributes, NamesEndTag
<1>3. QED BY <1>1, <1>2 DEF Tags, BuildsTag

(* End tags in text. *)
LEMMA LexEndTagNameKept ==
  ASSUME NEW s, Ready(s), s.state \in NamesEndTag, NEW state \in Plain
  PROVE  Kept(Advanced(EndTagName(s, Current(s), state)))
<1> DEFINE c == Current(s)
<1>1. s.state \in BuildsTag /\ s.state # "AFTER_ATTR_NAME" /\ s.state \in MayBeText
  BY DEF NamesEndTag, BuildsTag, MayBeText
<1>2. InTag(s) /\ TagFrame(s, s, s.state, FALSE, FALSE) /\ MarkedAt(s, "<")
  BY <1>1, ReadyFrame DEF Ready, Kept, Stands
<1>3. \A word : Kept(Advanced(append_to_tag_buffer(s, word)))
  BY <1>1, TagAppends
<1>4. \A next \in Before : Kept(Advanced(gumbo_tokenizer_set_state(finish_tag_name(s), next)))
  BY <1>1, <1>2, TagTerms
<1>5. c = ">" => Kept(Advanced(emit_current_tag(gumbo_tokenizer_set_state(finish_tag_name(s),
                                                                          "DATA"))))
  BY <1>1, <1>2, TagTerms DEF TagDone
<1>6. Kept(Advanced(Back(abandon_current_tag(s), state)))
  <2> DEFINE x == abandon_current_tag(s)
  <2>1. Frame(s, x) /\ x.tag.open = FALSE /\ x.tag.listed = FALSE
    BY <1>2, AbandonFrame DEF TagFrame
  <2>2. s.doctype.owned = FALSE
    BY <1>1, <1>2 DEF Ready, Kept, Owns, BuildsTag, Attributes, Doctypes
  <2> HIDE DEF x
  <2>3. Closed(x)
    BY <2>1, <2>2 DEF Closed, Frame
  <2>4. CanGoBack(x) /\ text \in Seq(Symbols)
    BY <1>2, <2>1, <2>3, MarkedCan DEF Ready
  <2>5. QED BY <2>4, BackKept DEF x
<1> HIDE DEF c
<1>7. Kept(Advanced(EndTagName(s, c, state)))
  BY <1>3, <1>4, <1>5, <1>6 DEF EndTagName, Before
<1>8. QED BY <1>7 DEF c

\* < and </ in text
LEMMA LessThanKept ==
  ASSUME NEW s, Ready(s), s.state \in MayBeText, s.state \notin NamesEndTag,
         NEW state \in Plain
  PROVE  /\ \A next \in EndTagOpens : Kept(Advanced(LessThan(s, Current(s), state, next)))
         /\ \A next \in NamesEndTag : Kept(Advanced(EndTagOpen(s, Current(s), state, next)))
<1>1. ~InTag(s) /\ s.state \notin Doctypes
  BY DEF MayBeText, NamesEndTag, InTag, BuildsTag, Attributes, References, Doctypes
<1>2. Closed(s) /\ s.reconsume = FALSE /\ MarkedAt(s, "<") /\ Shape(s)
  BY <1>1, ReadyClosed DEF Ready, Kept, Stands
<1>3. Kept(Advanced(Back(s, state)))
  BY <1>2, GoesBack
<1>4. ASSUME NEW next \in EndTagOpens
      PROVE  Kept(Advanced(gumbo_tokenizer_set_state(s, next)))
  <2> DEFINE x == gumbo_tokenizer_set_state(s, next)
  <2>1. Frame(s, x) /\ With(x, next, FALSE, s.tmp, s.tag)
    BY <1>2, FrameSelf, StateFrame
  <2> HIDE DEF x
  <2>2. Kept(Advanced(x))
    BY <1>2, <2>1, MayBeKept DEF With
  <2>3. QED BY <2>2 DEF x
<1>5. \A next \in NamesEndTag : is_alpha(Current(s)) =>
        Kept(Advanced(start_new_tag(reconsume_in_state(s, next), FALSE)))
  BY <1>2, TagBegins
<1>6. QED BY <1>3, <1>4, <1>5 DEF LessThan, EndTagOpen

\* <! in a script is text, and so is what comes before --
LEMMA ScriptOpens ==
  ASSUME NEW s, Ready(s), s.state = "SCRIPT_DATA_LT"
  PROVE  Kept(Advanced(Back(utf8iterator_next(s), "SCRIPT_DATA_ESCAPED_START")))
<1> DEFINE x == utf8iterator_next(s)
<1>1. ~InTag(s) /\ s.state \notin Doctypes
  BY DEF InTag, BuildsTag, Attributes, References, Doctypes
<1>2. Closed(s) /\ MarkedAt(s, "<") /\ Shape(s) /\ Places(s) /\ text \in Seq(Symbols)
  BY <1>1, ReadyClosed DEF Ready, Kept, Stands, MayBeText
<1>3. /\ Shape(x) /\ x.pos = (IF s.pos > Len(text) THEN s.pos ELSE s.pos + 1)
      /\ x.mark = s.mark /\ x.start = s.start /\ x.resume = s.resume /\ x.code = s.code
      /\ x.return = s.return /\ x.failed = s.failed /\ x.out = s.out /\ x.tag = s.tag
      /\ x.doctype = s.doctype
  BY <1>2 DEF utf8iterator_next, Shape, StateFields
<1> HIDE DEF x
<1>4. Places(x) /\ x.mark < x.pos
  BY <1>2, <1>3 DEF Places, MarkedAt
<1>5. CanGoBack(x)
  BY <1>2, <1>3, <1>4 DEF CanGoBack, Closed, MarkedAt, Ready, Kept, Returns
<1>6. QED BY <1>2, <1>5, BackKept DEF Plain, x

\* The states of end tags in RCDATA, RAWTEXT and scripts.
LEMMA LexEndTagKept ==
  ASSUME NEW s, Ready(s), s.state \in EndTags
  PROVE  Kept(Advanced(LexEndTag(s, Current(s))))
<1> DEFINE c == Current(s)
<1>1. {"RCDATA", "RAWTEXT", "SCRIPT_DATA"} \subseteq Plain
  BY DEF Plain, Texts
<1>2. s.state \in NamesEndTag =>
        \A state \in {"RCDATA", "RAWTEXT", "SCRIPT_DATA"} : Kept(Advanced(EndTagName(s, c, state)))
  BY <1>1, LexEndTagNameKept
<1>3. s.state \notin NamesEndTag =>
        \A state \in {"RCDATA", "RAWTEXT", "SCRIPT_DATA"} :
          /\ \A next \in EndTagOpens : Kept(Advanced(LessThan(s, c, state, next)))
          /\ \A next \in NamesEndTag : Kept(Advanced(EndTagOpen(s, c, state, next)))
  <2>1. s.state \in MayBeText
    BY DEF EndTags, MayBeText, NamesEndTag
  <2>2. QED BY <1>1, <2>1, LessThanKept
<1>4. s.state = "SCRIPT_DATA_LT" =>
        Kept(Advanced(Back(utf8iterator_next(s), "SCRIPT_DATA_ESCAPED_START")))
  BY ScriptOpens
<1> HIDE DEF c
<1>5. CASE s.state \in NamesEndTag
  BY <1>2, <1>5 DEF LexEndTag, handle_rcdata_end_tag_name_state,
     handle_rawtext_end_tag_name_state, handle_script_data_end_tag_name_state, NamesEndTag,
     EndTags, c
<1>6. CASE s.state \in {"RCDATA_LT", "RAWTEXT_LT", "SCRIPT_DATA_LT"}
  BY <1>3, <1>4, <1>6 DEF LexEndTag, handle_rcdata_lt_state, handle_rawtext_lt_state,
     handle_script_data_lt_state, NamesEndTag, EndTagOpens, c
<1>7. CASE s.state \in {"RCDATA_END_TAG_OPEN", "RAWTEXT_END_TAG_OPEN", "SCRIPT_DATA_END_TAG_OPEN"}
  BY <1>3, <1>7 DEF LexEndTag, handle_rcdata_end_tag_open_state,
     handle_rawtext_end_tag_open_state, handle_script_data_end_tag_open_state, NamesEndTag, c
<1>8. QED BY <1>5, <1>6, <1>7 DEF EndTags, NamesEndTag

(* Scripts. *)
LEMMA EscapedKept ==
  ASSUME NEW s, Ready(s), TextState(s), NEW next \in Plain
  PROVE  Kept(Advanced(Escaped(s, Current(s), next)))
<1> DEFINE c == Current(s)
<1>1. /\ Kept(Advanced(emit_char(gumbo_tokenizer_set_state(s, next), c)))
      /\ c = NUL => Kept(Advanced(emit_replacement_char(gumbo_tokenizer_set_state(s, next))))
      /\ c = EOF => Kept(Advanced(emit_eof(tokenizer_add_parse_error(s))))
  BY TextEnds
<1> HIDE DEF c
<1>2. Kept(Advanced(Escaped(s, c, next)))
  BY <1>1 DEF Escaped, NUL, EOF
<1>3. QED BY <1>2 DEF c

\* The start and the end of a double escape, which reads <script> as text.
LEMMA DoubleEscapeKept ==
  ASSUME NEW s, Ready(s), TextState(s),
         NEW inside \in Plain, NEW outside \in Plain, NEW otherwise \in Plain
  PROVE  Kept(Advanced(DoubleEscape(s, Current(s), inside, outside, otherwise)))
<1> DEFINE c == Current(s)
<1>1. \A next \in Plain :
        /\ Kept(Advanced(emit_char(gumbo_tokenizer_set_state(s, next), c)))
        /\ \A word : Kept(Advanced(emit_char(append_to_temporary_buffer(s, word), c)))
        /\ Kept(Advanced(reconsume_in_state(s, next)))
  BY TextEnds
<1> HIDE DEF c
<1>2. Kept(Advanced(DoubleEscape(s, c, inside, outside, otherwise)))
  BY <1>1 DEF DoubleEscape
<1>3. QED BY <1>2 DEF c

\* The states of scripts.
LEMMA LexScriptKept ==
  ASSUME NEW s, Ready(s), s.state \in Scripts
  PROVE  Kept(Advanced(LexScript(s, Current(s))))
<1> DEFINE c == Current(s)
<1>1. {"SCRIPT_DATA", "SCRIPT_DATA_ESCAPED_START_DASH", "SCRIPT_DATA_ESCAPED",
       "SCRIPT_DATA_ESCAPED_DASH", "SCRIPT_DATA_ESCAPED_DASH_DASH",
       "SCRIPT_DATA_DOUBLE_ESCAPED_START", "SCRIPT_DATA_DOUBLE_ESCAPED",
       "SCRIPT_DATA_DOUBLE_ESCAPED_DASH", "SCRIPT_DATA_DOUBLE_ESCAPED_DASH_DASH",
       "SCRIPT_DATA_DOUBLE_ESCAPED_LT", "SCRIPT_DATA_DOUBLE_ESCAPED_END"} \subseteq Plain
  BY DEF Plain, Texts
<1>2. CASE s.state \in Plain
  <2>1. TextState(s)
    BY <1>2 DEF TextState, InTag, Plain, Texts, BuildsTag, Attributes, References
  <2>2. \A next \in Plain :
          /\ Kept(Advanced(Escaped(s, c, next)))
          /\ Kept(Advanced(emit_char(gumbo_tokenizer_set_state(s, next), c)))
          /\ Kept(Advanced(emit_char(clear_temporary_buffer(
                                       gumbo_tokenizer_set_state(s, next)), c)))
          /\ Kept(Advanced(reconsume_in_state(s, next)))
    BY <2>1, TextEnds, EscapedKept
  <2>3. \A inside, outside, otherwise \in Plain :
          Kept(Advanced(DoubleEscape(s, c, inside, outside, otherwise)))
    BY <2>1, DoubleEscapeKept
  <2>4. c = "<" => Kept(Advanced(EscapedLessThan(s)))
    <3>1. Shape(s) /\ s.return \in Returns
      BY DEF Ready, Kept, Returns
    <3>2. QED BY <2>1, <3>1, EscapedLessThanIs, TextOpens DEF OpensMarkup
  <2> HIDE DEF c
  <2>5. CASE s.state = "SCRIPT_DATA_ESCAPED_START"
    <3>1. Kept(Advanced(handle_script_data_escaped_start_state(s, c)))
      BY <1>1, <2>2 DEF handle_script_data_escaped_start_state
    <3>2. QED BY <2>5, <3>1 DEF LexScript, c
  <2>6. CASE s.state = "SCRIPT_DATA_ESCAPED_START_DASH"
    <3>1. Kept(Advanced(handle_script_data_escaped_start_dash_state(s, c)))
      BY <1>1, <2>2 DEF handle_script_data_escaped_start_dash_state
    <3>2. QED BY <2>6, <3>1 DEF LexScript, c
  <2>7. CASE s.state = "SCRIPT_DATA_ESCAPED"
    <3>1. Kept(Advanced(handle_script_data_escaped_state(s, c)))
      BY <1>1, <2>2, <2>4 DEF handle_script_data_escaped_state
    <3>2. QED BY <2>7, <3>1 DEF LexScript, c
  <2>8. CASE s.state = "SCRIPT_DATA_ESCAPED_DASH"
    <3>1. Kept(Advanced(handle_script_data_escaped_dash_state(s, c)))
      BY <1>1, <2>2, <2>4 DEF handle_script_data_escaped_dash_state
    <3>2. QED BY <2>8, <3>1 DEF LexScript, c
  <2>9. CASE s.state = "SCRIPT_DATA_ESCAPED_DASH_DASH"
    <3>1. Kept(Advanced(handle_script_data_escaped_dash_dash_state(s, c)))
      BY <1>1, <2>2, <2>4 DEF handle_script_data_escaped_dash_dash_state
    <3>2. QED BY <2>9, <3>1 DEF LexScript, c
  <2>10. CASE s.state = "SCRIPT_DATA_DOUBLE_ESCAPED_START"
    <3>1. Kept(Advanced(handle_script_data_double_escaped_start_state(s, c)))
      BY <1>1, <2>3 DEF handle_script_data_double_escaped_start_state
    <3>2. QED BY <2>10, <3>1 DEF LexScript, c
  <2>11. CASE s.state = "SCRIPT_DATA_DOUBLE_ESCAPED"
    <3>1. Kept(Advanced(handle_script_data_double_escaped_state(s, c)))
      BY <1>1, <2>2 DEF handle_script_data_double_escaped_state
    <3>2. QED BY <2>11, <3>1 DEF LexScript, c
  <2>12. CASE s.state = "SCRIPT_DATA_DOUBLE_ESCAPED_DASH"
    <3>1. Kept(Advanced(handle_script_data_double_escaped_dash_state(s, c)))
      BY <1>1, <2>2 DEF handle_script_data_double_escaped_dash_state
    <3>2. QED BY <2>12, <3>1 DEF LexScript, c
  <2>13. CASE s.state = "SCRIPT_DATA_DOUBLE_ESCAPED_DASH_DASH"
    <3>1. Kept(Advanced(handle_script_data_double_escaped_dash_dash_state(s, c)))
      BY <1>1, <2>2 DEF handle_script_data_double_escaped_dash_dash_state
    <3>2. QED BY <2>13, <3>1 DEF LexScript, c
  <2>14. CASE s.state = "SCRIPT_DATA_DOUBLE_ESCAPED_LT"
    <3>1. Kept(Advanced(handle_script_data_double_escaped_lt_state(s, c)))
      BY <1>1, <2>2 DEF handle_script_data_double_escaped_lt_state
    <3>2. QED BY <2>14, <3>1 DEF LexScript, c
  <2>15. CASE s.state = "SCRIPT_DATA_DOUBLE_ESCAPED_END"
    <3>1. Kept(Advanced(handle_script_data_double_escaped_end_state(s, c)))
      BY <1>1, <2>3 DEF handle_script_data_double_escaped_end_state
    <3>2. QED BY <2>15, <3>1 DEF LexScript, c
  <2>16. QED BY <1>2, <2>5, <2>6, <2>7, <2>8, <2>9, <2>10, <2>11, <2>12, <2>13, <2>14, <2>15
             DEF Plain, Texts, Scripts
<1>3. CASE s.state = "SCRIPT_DATA_ESCAPED_END_TAG_NAME"
  BY <1>1, <1>3, LexEndTagNameKept
     DEF LexScript, handle_script_data_escaped_end_tag_name_state, NamesEndTag
<1>4. CASE s.state = "SCRIPT_DATA_ESCAPED_END_TAG_OPEN"
  <2>1. s.state \in MayBeText /\ s.state \notin NamesEndTag
    BY <1>4 DEF MayBeText, NamesEndTag
  <2>2. QED BY <1>1, <1>4, <2>1, LessThanKept
            DEF LexScript, handle_script_data_escaped_end_tag_open_state, NamesEndTag
<1>5. CASE s.state = "SCRIPT_DATA_ESCAPED_LT"
  <2>1. s.state \in MayBeText /\ s.state \notin NamesEndTag
    BY <1>5 DEF MayBeText, NamesEndTag
  <2>2. Kept(Advanced(LessThan(s, c, "SCRIPT_DATA_ESCAPED", "SCRIPT_DATA_ESCAPED_END_TAG_OPEN")))
    BY <1>1, <2>1, LessThanKept DEF EndTagOpens
  <2>3. Closed(s) /\ MarkedAt(s, "<")
    BY <1>5, <2>1, ReadyClosed
       DEF Ready, Kept, Stands, InTag, BuildsTag, Attributes, References, Doctypes
  <2>4. Kept(Advanced(Back(s, "SCRIPT_DATA_DOUBLE_ESCAPED_START")))
    BY <1>1, <2>3, GoesBack
  <2>5. assert(s, temporary_buffer_is_empty(s)) = s
    BY <1>5 DEF assert, temporary_buffer_is_empty, Ready, Kept, Clean, Unused
  <2> HIDE DEF c
  <2>6. Kept(Advanced(handle_script_data_escaped_lt_state(s, c)))
    BY <2>2, <2>4, <2>5 DEF handle_script_data_escaped_lt_state
  <2>7. QED BY <1>5, <2>6 DEF LexScript, c
<1>6. QED BY <1>2, <1>3, <1>4, <1>5 DEF Scripts, Plain

(* --------------------------------- Comments -------------------------------- *)

\* r is s but for its state and the temporary buffer, which is empty if empty is
PartFrame(s, r, state, reconsume, empty) ==
  /\ Frame(s, r) /\ r.state = state /\ r.reconsume = reconsume /\ r.tag = s.tag
  /\ empty => r.tmp = <<>>

\* Each operation on the temporary buffer keeps what a handler of comments
\* and doctypes has to keep.
LEMMA PartOps ==
  \A z, x, state, reconsume, empty : PartFrame(z, x, state, reconsume, empty) =>
    /\ PartFrame(z, tokenizer_add_parse_error(x), state, reconsume, empty)
    /\ \A next : /\ PartFrame(z, gumbo_tokenizer_set_state(x, next), next, reconsume, empty)
                 /\ PartFrame(z, reconsume_in_state(x, next), next, TRUE, empty)
    /\ \A word : PartFrame(z, append_to_temporary_buffer(x, word), state, reconsume, FALSE)
    /\ PartFrame(z, clear_temporary_buffer(x), state, reconsume, TRUE)
<1>1. SUFFICES ASSUME NEW z, NEW x, NEW state, NEW reconsume, NEW empty,
                      PartFrame(z, x, state, reconsume, empty)
      PROVE
    /\ PartFrame(z, tokenizer_add_parse_error(x), state, reconsume, empty)
    /\ \A next : /\ PartFrame(z, gumbo_tokenizer_set_state(x, next), next, reconsume, empty)
                 /\ PartFrame(z, reconsume_in_state(x, next), next, TRUE, empty)
    /\ \A word : PartFrame(z, append_to_temporary_buffer(x, word), state, reconsume, FALSE)
    /\ PartFrame(z, clear_temporary_buffer(x), state, reconsume, TRUE)
  OBVIOUS
<1>2. PartFrame(z, tokenizer_add_parse_error(x), state, reconsume, empty)
  BY <1>1, ErrorFrame DEF PartFrame, With
<1>3. \A next : /\ PartFrame(z, gumbo_tokenizer_set_state(x, next), next, reconsume, empty)
                /\ PartFrame(z, reconsume_in_state(x, next), next, TRUE, empty)
  BY <1>1, StateFrame, ReconsumeFrame DEF PartFrame, With
<1>4. \A word : PartFrame(z, append_to_temporary_buffer(x, word), state, reconsume, FALSE)
  <2>1. TAKE word
  <2> DEFINE r == append_to_temporary_buffer(x, word)
  <2>2. Frame(z, r) /\ With(r, x.state, x.reconsume, x.tmp \o word, x.tag)
    BY <1>1, AppendFrame DEF PartFrame
  <2> HIDE DEF r
  <2>3. PartFrame(z, r, state, reconsume, FALSE)
    BY <1>1, <2>2 DEF PartFrame, With
  <2>4. QED BY <2>3 DEF r
<1>5. PartFrame(z, clear_temporary_buffer(x), state, reconsume, TRUE)
  BY <1>1, ClearFrame DEF PartFrame, With
<1>6. QED BY <1>2, <1>3, <1>4, <1>5

\* where the tokenizer stands after a handler that reads the character again or not
After(s, reconsume) == IF reconsume \/ s.pos > Len(text) THEN s.pos ELSE s.pos + 1

\* A handler that goes on with the comment keeps the invariant.
LEMMA CommentKept ==
  \A s, r, state, reconsume, tmp :
    /\ Ready(s) /\ Closed(s) /\ MarkedAt(s, "<")
    /\ Frame(s, r) /\ With(r, state, reconsume, tmp, s.tag)
    /\ reconsume \in BOOLEAN /\ state \in InComment
    /\ Told(s.mark, After(s, reconsume), state, tmp)
    => Kept(Advanced(r))
<1>1. SUFFICES ASSUME NEW s, NEW r, NEW state \in InComment, NEW reconsume \in BOOLEAN, NEW tmp,
                      Ready(s), Closed(s), MarkedAt(s, "<"), Frame(s, r),
                      With(r, state, reconsume, tmp, s.tag),
                      Told(s.mark, After(s, reconsume), state, tmp)
      PROVE  Kept(Advanced(r))
  OBVIOUS
<1>2. CanEmit(r) /\ r.emitted = FALSE /\ r.resume = 0 /\ r.buffered = NoChar
      /\ text \in Seq(Symbols)
  BY <1>1, FrameCan DEF With, Ready
<1>3. state \notin Unused /\ state \notin Doctypes
      /\ state \in (Comments \ {"MARKUP_DECLARATION_OPEN"}) \cup Doctypes
  BY <1>1 DEF InComment, Comments, Unused, Doctypes
<1>4. r.tag.open = FALSE /\ r.tag.listed = FALSE /\ r.doctype.owned = FALSE /\ r.state = state
  BY <1>1 DEF Closed, With, Frame
<1>5. MarkedAt(r, "<") /\ Told(r.mark, Behind(r), r.state, r.tmp)
  <2>1. r.mark = s.mark /\ r.pos = s.pos /\ r.start = s.start /\ r.reconsume = reconsume
        /\ r.state = state /\ r.tmp = tmp
    BY <1>1 DEF Frame, With
  <2>2. Behind(r) = After(s, reconsume)
    BY <2>1 DEF Behind, After
  <2>3. QED BY <1>1, <2>1, <2>2 DEF MarkedAt
<1>6. QED BY <1>2, <1>3, <1>4, <1>5, PartKept

\* A handler that ends the comment keeps the invariant.
LEMMA CommentEmitted ==
  \A s, x, reconsume :
    /\ Ready(s) /\ Closed(s) /\ MarkedAt(s, "<")
    /\ Frame(s, x) /\ With(x, "DATA", reconsume, s.tmp, s.tag)
    /\ reconsume \in BOOLEAN
    /\ s.tmp = Shown(CommentText(s.mark)) /\ ~IsAt(<<"<", "/", ">">>, s.mark)
    => Kept(Advanced(emit_comment(x)))
<1>1. SUFFICES ASSUME NEW s, NEW x, NEW reconsume \in BOOLEAN,
                      Ready(s), Closed(s), MarkedAt(s, "<"), Frame(s, x),
                      With(x, "DATA", reconsume, s.tmp, s.tag),
                      s.tmp = Shown(CommentText(s.mark)), ~IsAt(<<"<", "/", ">">>, s.mark)
      PROVE  Kept(Advanced(emit_comment(x)))
  OBVIOUS
<1> DEFINE r == emit_comment(x)
           token == Token("COMMENT", x.tmp, x.start, Behind(x), x.pos)
<1>2. CanEmit(x) /\ x.resume = 0 /\ x.buffered = NoChar /\ text \in Seq(Symbols)
  BY <1>1, FrameCan DEF With, Ready
<1>3. Emits(x, r, "COMMENT", x.tmp) /\ Else(x, r) /\ r.tag = x.tag /\ r.doctype = x.doctype
  BY <1>2, CommentIs DEF CanEmit
<1> HIDE DEF r
<1>4. Closed(r) /\ x.state = "DATA"
  BY <1>1, <1>3 DEF Closed, With, Frame
<1>5. token.from = s.start /\ x.tmp = s.tmp
  BY <1>1 DEF Token, Frame, With
<1> HIDE DEF token
<1>6. /\ s.start \in Nat \ {0} /\ s.mark \in s.start .. Len(text)
      /\ Covered(s.start, s.mark, Dropped)
  BY <1>1 DEF Ready, Kept, Places, MarkedAt
<1>7. Markup(token) = s.mark
  BY <1>1, <1>2, <1>5, <1>6, MarkupIs
<1>8. x.tmp = Shown(CommentText(Markup(token)))
  BY <1>1, <1>5, <1>7
<1>9. QED BY <1>2, <1>3, <1>4, <1>8, MarkupEmitted DEF r, token

\* what the state says of the comment when it is read
LEMMA ReadyComment ==
  ASSUME NEW s, Ready(s), s.state \in InComment
  PROVE  /\ Closed(s) /\ s.reconsume = FALSE /\ Shape(s) /\ text \in Seq(Symbols)
         /\ MarkedAt(s, "<") /\ Told(s.mark, s.pos, s.state, s.tmp)
         /\ s.mark \in Nat \ {0} /\ s.pos \in Nat \ {0} /\ s.pos <= Len(text) + 1
         /\ Len(text) \in Nat /\ SymbolAt(s.mark) = "<" /\ SymbolAt(s.pos) = Current(s)
         /\ s.pos > Len(text) <=> Current(s) = EOF
<1>1. ~InTag(s) /\ s.state \notin Doctypes
  BY DEF InComment, Comments, InTag, BuildsTag, Attributes, References, Doctypes
<1>2. Closed(s) /\ s.reconsume = FALSE
  BY <1>1, ReadyClosed
<1>3. /\ Shape(s) /\ text \in Seq(Symbols) /\ MarkedAt(s, "<")
      /\ Told(s.mark, s.pos, s.state, s.tmp) /\ Places(s)
  BY DEF Ready, Kept, Stands
<1>4. /\ s.mark \in Nat \ {0} /\ s.pos \in Nat \ {0} /\ s.pos <= Len(text) + 1
      /\ Len(text) \in Nat /\ s.mark <= Len(text)
  BY <1>3 DEF Places, MarkedAt
<1>5. SymbolAt(s.mark) = "<" /\ SymbolAt(s.pos) = Current(s)
  BY <1>3, <1>4 DEF SymbolAt, MarkedAt, Current
<1>6. s.pos > Len(text) <=> Current(s) = EOF
  BY <1>3, <1>4, <1>5, SymbolAtIs
<1>7. QED BY <1>2, <1>3, <1>4, <1>5, <1>6

\* the terms in which the handlers of comments end
LEMMA CommentTerms ==
  ASSUME NEW s, Ready(s), s.state \in InComment
  PROVE  /\ EndsHere(s.mark, s.pos, s.state) =>
              /\ Kept(Advanced(CommentDone(s)))
              /\ Kept(Advanced(CommentDone(tokenizer_add_parse_error(s))))
              /\ Kept(Advanced(EofInComment(s)))
              /\ Kept(Advanced(emit_comment(reconsume_in_state(s, "DATA"))))
         /\ \A word :
              /\ Told(s.mark, After(s, FALSE), s.state, s.tmp \o word) =>
                   /\ Kept(Advanced(append_to_temporary_buffer(s, word)))
                   /\ Kept(Advanced(append_to_temporary_buffer(
                                      tokenizer_add_parse_error(s), word)))
              /\ Told(s.mark, s.pos, "COMMENT", s.tmp \o word) =>
                   Kept(Advanced(CommentGoesOn(s, word)))
         /\ \A next \in InComment :
              /\ Told(s.mark, After(s, FALSE), next, s.tmp) =>
                   Kept(Advanced(gumbo_tokenizer_set_state(s, next)))
              /\ Told(s.mark, s.pos, next, s.tmp) =>
                   /\ Kept(Advanced(reconsume_in_state(s, next)))
                   /\ Kept(Advanced(reconsume_in_state(tokenizer_add_parse_error(s), next)))
              /\ \A word : Told(s.mark, After(s, FALSE), next, s.tmp \o word) =>
                   Kept(Advanced(append_to_temporary_buffer(
                                   gumbo_tokenizer_set_state(s, next), word)))
<1> DEFINE e == tokenizer_add_parse_error(s)
<1>1. /\ Closed(s) /\ MarkedAt(s, "<") /\ s.reconsume = FALSE
      /\ Frame(s, s) /\ With(s, s.state, FALSE, s.tmp, s.tag)
  BY ReadyComment, FrameSelf DEF With
<1>2. Frame(s, e) /\ With(e, s.state, FALSE, s.tmp, s.tag)
  BY <1>1, ErrorFrame DEF With
<1> HIDE DEF e
<1>3. /\ \A next : LET x == gumbo_tokenizer_set_state(s, next)
                  IN  Frame(s, x) /\ With(x, next, FALSE, s.tmp, s.tag)
      /\ \A next : LET x == gumbo_tokenizer_set_state(e, next)
                  IN  Frame(s, x) /\ With(x, next, FALSE, s.tmp, s.tag)
  BY <1>1, <1>2, StateFrame DEF With
<1>4. /\ \A next : LET x == reconsume_in_state(s, next)
                  IN  Frame(s, x) /\ With(x, next, TRUE, s.tmp, s.tag)
      /\ \A next : LET x == reconsume_in_state(e, next)
                  IN  Frame(s, x) /\ With(x, next, TRUE, s.tmp, s.tag)
  BY <1>1, <1>2, ReconsumeFrame DEF With
<1>5. ASSUME EndsHere(s.mark, s.pos, s.state)
      PROVE  /\ Kept(Advanced(CommentDone(s))) /\ Kept(Advanced(CommentDone(e)))
             /\ Kept(Advanced(EofInComment(s)))
             /\ Kept(Advanced(emit_comment(reconsume_in_state(s, "DATA"))))
  <2>1. s.tmp = Shown(CommentText(s.mark)) /\ ~IsAt(<<"<", "/", ">">>, s.mark)
    <3>1. /\ text \in Seq(Symbols) /\ s.mark \in Nat \ {0} /\ SymbolAt(s.mark) = "<"
          /\ s.pos \in Nat /\ s.pos <= Len(text) + 1 /\ Told(s.mark, s.pos, s.state, s.tmp)
      BY ReadyComment
    <3>2. QED BY <1>5, <3>1, ToldAgrees
  <2>2. /\ Kept(Advanced(emit_comment(gumbo_tokenizer_set_state(s, "DATA"))))
        /\ Kept(Advanced(emit_comment(gumbo_tokenizer_set_state(e, "DATA"))))
    BY <1>1, <1>3, <2>1, CommentEmitted
  <2>3. /\ Kept(Advanced(emit_comment(reconsume_in_state(s, "DATA"))))
        /\ Kept(Advanced(emit_comment(reconsume_in_state(e, "DATA"))))
    BY <1>1, <1>4, <2>1, CommentEmitted
  <2>4. QED BY <2>2, <2>3 DEF CommentDone, EofInComment, e
<1>6. ASSUME NEW word
      PROVE  /\ Told(s.mark, After(s, FALSE), s.state, s.tmp \o word) =>
                  /\ Kept(Advanced(append_to_temporary_buffer(s, word)))
                  /\ Kept(Advanced(append_to_temporary_buffer(e, word)))
             /\ Told(s.mark, s.pos, "COMMENT", s.tmp \o word) =>
                  Kept(Advanced(CommentGoesOn(s, word)))
  <2> DEFINE x == reconsume_in_state(s, "COMMENT")
             p == append_to_temporary_buffer(s, word)
             q == append_to_temporary_buffer(e, word)
             r == append_to_temporary_buffer(x, word)
  <2>1. Frame(s, x) /\ With(x, "COMMENT", TRUE, s.tmp, s.tag)
    BY <1>4
  <2> HIDE DEF x
  <2>2. /\ Frame(s, p) /\ With(p, s.state, FALSE, s.tmp \o word, s.tag)
        /\ Frame(s, q) /\ With(q, s.state, FALSE, s.tmp \o word, s.tag)
        /\ Frame(s, r) /\ With(r, "COMMENT", TRUE, s.tmp \o word, s.tag)
    <3>1. /\ Frame(s, p) /\ With(p, s.state, s.reconsume, s.tmp \o word, s.tag)
          /\ Frame(s, q) /\ With(q, e.state, e.reconsume, e.tmp \o word, e.tag)
          /\ Frame(s, r) /\ With(r, x.state, x.reconsume, x.tmp \o word, x.tag)
      BY <1>1, <1>2, <2>1, AppendFrame
    <3> HIDE DEF p, q, r
    <3>2. QED BY <1>1, <1>2, <2>1, <3>1 DEF With
  <2>3. "COMMENT" \in InComment /\ After(s, TRUE) = s.pos
    BY DEF InComment, Comments, After
  <2>4. r = CommentGoesOn(s, word)
    BY DEF CommentGoesOn, x
  <2> HIDE DEF p, q, r
  <2>5. Told(s.mark, After(s, FALSE), s.state, s.tmp \o word) =>
          Kept(Advanced(p)) /\ Kept(Advanced(q))
    BY <1>1, <2>2, CommentKept
  <2>6. Told(s.mark, s.pos, "COMMENT", s.tmp \o word) => Kept(Advanced(r))
    BY <1>1, <2>2, <2>3, CommentKept
  <2>7. QED BY <2>4, <2>5, <2>6 DEF p, q
<1>7. ASSUME NEW next \in InComment
      PROVE  /\ Told(s.mark, After(s, FALSE), next, s.tmp) =>
                  Kept(Advanced(gumbo_tokenizer_set_state(s, next)))
             /\ Told(s.mark, s.pos, next, s.tmp) =>
                  /\ Kept(Advanced(reconsume_in_state(s, next)))
                  /\ Kept(Advanced(reconsume_in_state(e, next)))
             /\ \A word : Told(s.mark, After(s, FALSE), next, s.tmp \o word) =>
                  Kept(Advanced(append_to_temporary_buffer(
                                  gumbo_tokenizer_set_state(s, next), word)))
  <2> DEFINE x == gumbo_tokenizer_set_state(s, next)
  <2>1. Frame(s, x) /\ With(x, next, FALSE, s.tmp, s.tag)
    BY <1>3
  <2> HIDE DEF x
  <2>2. Told(s.mark, After(s, FALSE), next, s.tmp) => Kept(Advanced(x))
    BY <1>1, <2>1, CommentKept
  <2>3. After(s, TRUE) = s.pos
    BY DEF After
  <2>4. Told(s.mark, s.pos, next, s.tmp) =>
          /\ Kept(Advanced(reconsume_in_state(s, next)))
          /\ Kept(Advanced(reconsume_in_state(e, next)))
    BY <1>1, <1>4, <2>3, CommentKept
  <2>5. ASSUME NEW word, Told(s.mark, After(s, FALSE), next, s.tmp \o word)
        PROVE  Kept(Advanced(append_to_temporary_buffer(x, word)))
    <3> DEFINE y == append_to_temporary_buffer(x, word)
    <3>1. Frame(s, y) /\ With(y, x.state, x.reconsume, x.tmp \o word, x.tag)
      BY <2>1, AppendFrame
    <3> HIDE DEF y
    <3>2. Frame(s, y) /\ With(y, next, FALSE, s.tmp \o word, s.tag)
      BY <2>1, <3>1 DEF With
    <3>3. Kept(Advanced(y))
      BY <1>1, <2>5, <3>2, CommentKept
    <3>4. QED BY <3>3 DEF y
  <2>6. QED BY <2>2, <2>4, <2>5 DEF x
<1>8. QED BY <1>5, <1>6, <1>7 DEF e

\* The rest of the text begins with a word: its characters follow here.
LEMMA BeginsIs ==
  ASSUME text \in Seq(Symbols), NEW s, s.pos \in 1 .. Len(text) + 1,
         NEW W, NEW word \in Seq(W), Len(word) >= 1, Begins(word, Rest(s))
  PROVE  /\ s.pos + Len(word) <= Len(text) + 1
         /\ \A j \in 1 .. Len(word) : text[s.pos + j - 1] = word[j]
<1> DEFINE rest == Rest(s)
<1>1. Len(word) \in Nat /\ Len(text) \in Nat /\ s.pos \in Nat
  OBVIOUS
<1>2. CASE s.pos <= Len(text)
  <2>1. \A i \in s.pos .. Len(text) : text[i] \in Symbols
    BY <1>1
  <2>2. /\ rest \in Seq(Symbols) /\ Len(rest) = Len(text) - s.pos + 1
        /\ \A i \in 1 .. Len(text) - s.pos + 1 : rest[i] = text[s.pos + i - 1]
    BY <1>1, <1>2, <2>1, SubSeqProperties DEF Rest
  <2>3. Len(word) <= Len(rest) /\ SubSeq(rest, 1, Len(word)) = word
    BY DEF Begins
  <2> HIDE DEF rest
  <2>4. \A i \in 1 .. Len(word) : rest[i] \in Symbols
    BY <1>1, <2>2, <2>3
  <2>5. \A i \in 1 .. Len(word) - 1 + 1 : SubSeq(rest, 1, Len(word))[i] = rest[1 + i - 1]
    BY <1>1, <2>4, SubSeqProperties
  <2>6. \A j \in 1 .. Len(word) : word[j] = rest[j]
    BY <1>1, <2>3, <2>5
  <2>7. s.pos + Len(word) <= Len(text) + 1
    BY <1>1, <2>2, <2>3
  <2>8. \A j \in 1 .. Len(word) : rest[j] = text[s.pos + j - 1]
    BY <1>1, <2>2, <2>3
  <2>9. QED BY <2>6, <2>7, <2>8
<1>3. CASE s.pos > Len(text)
  <2>1. Len(rest) = 0
    BY <1>1, <1>3, SubSeqProperties DEF Rest
  <2>2. Len(word) <= Len(rest)
    BY DEF Begins
  <2>3. QED BY <1>1, <2>1, <2>2
<1>4. QED BY <1>1, <1>2, <1>3

\* The rest of the text begins with two dashes if they are there.
LEMMA DashesAre ==
  ASSUME text \in Seq(Symbols), NEW s, s.pos \in 1 .. Len(text) + 1
  PROVE  Begins(<<"-", "-">>, Rest(s)) <=> SymbolAt(s.pos) = "-" /\ SymbolAt(s.pos + 1) = "-"
<1> DEFINE rest == Rest(s)
           word == <<"-", "-">>
<1>1. s.pos \in Nat \ {0} /\ Len(text) \in Nat
  OBVIOUS
<1>2. word \in Seq({"-"}) /\ Len(word) = 2 /\ word[1] = "-" /\ word[2] = "-"
  OBVIOUS
<1> HIDE DEF word
<1>3. ASSUME Begins(word, rest)
      PROVE  SymbolAt(s.pos) = "-" /\ SymbolAt(s.pos + 1) = "-"
  <2>1. /\ s.pos + Len(word) <= Len(text) + 1
        /\ \A j \in 1 .. Len(word) : text[s.pos + j - 1] = word[j]
    <3>1. Len(word) >= 1 /\ Begins(word, Rest(s))
      BY <1>2, <1>3
    <3>2. QED BY <1>2, <3>1, BeginsIs, ZenonT(60)
  <2>2. s.pos + 1 - 1 = s.pos /\ s.pos + 2 - 1 = s.pos + 1
    BY <1>1
  <2>3. text[s.pos] = "-" /\ text[s.pos + 1] = "-"
    BY <1>2, <2>1, <2>2
  <2>4. QED BY <1>1, <1>2, <2>1, <2>3 DEF SymbolAt
<1>4. ASSUME SymbolAt(s.pos) = "-", SymbolAt(s.pos + 1) = "-"
      PROVE  Begins(word, rest)
  <2>1. s.pos + 1 <= Len(text) /\ text[s.pos] = "-" /\ text[s.pos + 1] = "-"
    BY <1>1, <1>4 DEF SymbolAt, EOF
  <2>2. /\ rest \in Seq(Symbols) /\ Len(rest) = Len(text) - s.pos + 1
        /\ \A i \in 1 .. Len(text) - s.pos + 1 : rest[i] = text[s.pos + i - 1]
    <3>1. \A i \in s.pos .. Len(text) : text[i] \in Symbols
      BY <1>1
    <3>2. QED BY <1>1, <2>1, <3>1, SubSeqProperties DEF Rest
  <2> HIDE DEF rest
  <2>3. rest[1] = "-" /\ rest[2] = "-" /\ Len(rest) >= 2
    <3>1. s.pos + 1 - 1 = s.pos /\ s.pos + 2 - 1 = s.pos + 1 /\ Len(rest) >= 2
          /\ 1 \in 1 .. Len(text) - s.pos + 1 /\ 2 \in 1 .. Len(text) - s.pos + 1
      BY <1>1, <2>1, <2>2
    <3>2. rest[1] = text[s.pos + 1 - 1] /\ rest[2] = text[s.pos + 2 - 1]
      BY <2>2, <3>1
    <3>3. QED BY <2>1, <3>1, <3>2
  <2> DEFINE part == SubSeq(rest, 1, 2)
  <2>4. \A i \in 1 .. 2 : rest[i] \in Symbols
    BY <2>2, <2>3
  <2>5. part \in Seq(Symbols) /\ Len(part) = 2 /\ \A i \in 1 .. 2 : part[i] = rest[i]
    <3>1. \A i \in 1 .. 2 : 1 + i - 1 = i
      OBVIOUS
    <3>2. QED BY <2>3, <2>4, <3>1, SubSeqProperties
  <2> HIDE DEF part
  <2>6. part[1] = word[1] /\ part[2] = word[2]
    BY <1>2, <2>3, <2>5
  <2>7. part = word
    <3>1. \A j \in 1 .. 2 : part[j] = word[j]
      BY <2>6
    <3> DEFINE S == Symbols \cup {"-"}
    <3>2. part \in Seq(S) /\ word \in Seq(S)
      BY <1>2, <2>5, SeqMonotonic
    <3> HIDE DEF S
    <3>3. QED BY <1>2, <2>5, <3>1, <3>2, SeqEqual
  <2>8. QED BY <1>2, <2>3, <2>7 DEF Begins, part
<1>5. QED BY <1>3, <1>4 DEF rest, word

\* r is s but for its place, its state and its buffers
Further(s, r, pos) ==
  /\ Shape(r) /\ r.pos = pos /\ r.mark = s.mark /\ r.resume = s.resume /\ r.start = s.start
  /\ r.return = s.return /\ r.buffered = s.buffered /\ r.code = s.code
  /\ r.tag = s.tag /\ r.out = s.out /\ r.emitted = s.emitted /\ r.failed = s.failed

\* Advance skips as many characters as it is told.
LEMMA AdvanceFurther ==
  \A z, s, pos, n : Further(z, s, pos) =>
    LET r == Advance(s, n)
    IN  /\ Further(z, r, pos + n) /\ r.tmp = s.tmp /\ r.state = s.state
        /\ r.reconsume = s.reconsume /\ r.doctype = s.doctype
BY DEF Advance, Further, Shape, StateFields

\* A handler skips characters, then reads the next one again.
LEMMA ReconsumeFurther ==
  \A z, s, pos, state : Further(z, s, pos) =>
    LET r == reconsume_in_state(s, state)
    IN  /\ Further(z, r, pos) /\ r.tmp = s.tmp /\ r.state = state /\ r.reconsume = TRUE
        /\ r.doctype = s.doctype
BY DEF reconsume_in_state, Further, Shape, StateFields

\* After skipping, the tokenizer can emit what it stands at.
LEMMA FurtherCan ==
  ASSUME NEW s, Ready(s), NEW pos \in s.pos .. Len(text) + 1, NEW r, Further(s, r, pos),
         r.reconsume \in BOOLEAN
  PROVE  CanEmit(r) /\ r.emitted = FALSE /\ r.resume = 0 /\ r.buffered = NoChar
<1>1. Kept(s) /\ Places(s) /\ text \in Seq(Symbols)
  BY DEF Ready, Kept
<1>2. Places(r)
  BY <1>1 DEF Further, Places
<1>3. QED BY <1>1, <1>2 DEF Further, CanEmit, Ready, Kept, Returns

\* After <!: a comment, a doctype, a CDATA section or a bogus comment.
LEMMA DeclarationKept ==
  ASSUME NEW s, Ready(s), s.state = "MARKUP_DECLARATION_OPEN", NEW c
  PROVE  Kept(Advanced(handle_markup_declaration_open_state(s, c)))
<1> DEFINE rest == Rest(s)
           cleared == clear_temporary_buffer(s)
           e == tokenizer_add_parse_error(cleared)
           bogus == reconsume_in_state(e, "BOGUS_COMMENT")
<1>1. Kept(s) /\ Shape(s) /\ Places(s) /\ text \in Seq(Symbols) /\ s.tmp = <<>>
  BY DEF Ready, Kept, Clean, Unused
<1>2. Closed(s) /\ s.reconsume = FALSE
  BY ReadyClosed DEF InTag, BuildsTag, Attributes, References, Doctypes
<1>3. s.pos = s.mark + 2 /\ text[s.mark + 1] = "!" /\ MarkedAt(s, "<")
  BY DEF Ready, Kept, Stands, MayBeText
\* which comment it can be
<1>4. /\ Begins(<<"-", "-">>, rest) => ReadUpTo(s.mark, s.pos + 2, 0, <<>>)
      /\ ~Begins(<<"-", "-">>, rest) => BogusUpTo(s.mark, s.pos, <<>>)
  <2>1. /\ s.mark \in Nat \ {0} /\ Len(text) \in Nat /\ s.mark + 1 <= Len(text)
        /\ s.pos \in 1 .. Len(text) + 1 /\ s.pos \in Nat \ {0} /\ text[s.mark] = "<"
    BY <1>1, <1>3 DEF Places, MarkedAt
  <2>2. SymbolAt(s.mark) = "<" /\ SymbolAt(s.mark + 1) = "!"
    BY <1>3, <2>1 DEF SymbolAt
  <2>3. /\ Begins(<<"-", "-">>, rest) <=> SymbolAt(s.pos) = "-" /\ SymbolAt(s.pos + 1) = "-"
        /\ s.mark + 2 = s.pos /\ s.mark + 3 = s.pos + 1 /\ s.mark + 4 = s.pos + 2
    <3>1. Begins(<<"-", "-">>, rest) <=> SymbolAt(s.pos) = "-" /\ SymbolAt(s.pos + 1) = "-"
      BY <1>1, <2>1, DashesAre, SMTT(30)
    <3>2. s.mark + 2 = s.pos /\ s.mark + 3 = s.pos + 1 /\ s.mark + 4 = s.pos + 2
      BY <1>3, <2>1
    <3>3. QED BY <3>1, <3>2
  <2>4. Begins(<<"-", "-">>, rest) <=> IsComment(s.mark)
    BY <2>2, <2>3 DEF IsComment
  <2>5. IsComment(s.mark) => ReadUpTo(s.mark, s.mark + 4, 0, <<>>)
    <3>1. ShownFrom(s.mark + 4, s.mark + 4) = <<>>
      BY <1>1, <2>1, ShownNothing
    <3>2. \A k \in s.mark + 4 .. (s.mark + 4) - 1 : ~EndsAt(s.mark + 4, k)
      BY <2>1
    <3>3. QED BY <2>1, <3>1, <3>2 DEF ReadUpTo
  <2>6. ~IsComment(s.mark) => BogusUpTo(s.mark, BogusStart(s.mark), <<>>)
    BY <1>1, <2>1, <2>2, BogusFresh
  <2>7. BogusStart(s.mark) = s.pos
    BY <2>2, <2>3 DEF BogusStart
  <2>8. QED BY <2>3, <2>4, <2>5, <2>6, <2>7
<1>5. Further(s, s, s.pos)
  BY <1>1 DEF Further
<1>6. /\ Frame(s, bogus) /\ With(bogus, "BOGUS_COMMENT", TRUE, <<>>, s.tag)
      /\ Further(s, bogus, s.pos)
  <2>1. Frame(s, cleared) /\ With(cleared, s.state, FALSE, <<>>, s.tag)
    BY <1>1, <1>2, FrameSelf, ClearFrame
  <2> HIDE DEF cleared
  <2>2. Frame(s, e) /\ With(e, s.state, FALSE, <<>>, s.tag)
    BY <2>1, ErrorFrame DEF With
  <2> HIDE DEF e
  <2>3. Frame(s, bogus) /\ With(bogus, "BOGUS_COMMENT", TRUE, <<>>, s.tag)
    BY <2>2, ReconsumeFrame DEF With
  <2> HIDE DEF bogus
  <2>4. Further(s, bogus, s.pos)
    BY <2>3 DEF Further, Frame, With
  <2>5. QED BY <2>3, <2>4
<1> HIDE DEF rest, cleared, e, bogus
<1>7. ~Begins(<<"-", "-">>, rest) => Kept(Advanced(bogus))
  <2>1. "BOGUS_COMMENT" \in InComment
    BY DEF InComment, Comments
  <2>2. BogusUpTo(s.mark, s.pos, <<>>) => Told(s.mark, After(s, TRUE), "BOGUS_COMMENT", <<>>)
    BY DEF Told, After
  <2>3. QED BY <1>2, <1>3, <1>6, <1>4, <2>1, <2>2, CommentKept
\* what follows the words is at most at the end of the text
<1>8. /\ Begins(<<"-", "-">>, rest) => s.pos + 2 \in s.pos .. Len(text) + 1
      /\ \A word \in {"DOCTYPE", "[CDATA["} :
           Begins(<<word>>, rest) => s.pos + 1 \in s.pos .. Len(text) + 1 /\ text[s.pos] = word
  <2>1. ASSUME Begins(<<"-", "-">>, rest)
        PROVE  s.pos + 2 \in s.pos .. Len(text) + 1
    <3> DEFINE w == <<"-", "-">>
    <3>1. w \in Seq({"-"}) /\ Len(w) = 2
      OBVIOUS
    <3>2. Begins(w, Rest(s))
      BY <2>1 DEF rest
    <3> HIDE DEF w
    <3>3. s.pos \in 1 .. Len(text) + 1 /\ Len(w) >= 1
      BY <1>1, <3>1 DEF Places
    <3>4. s.pos + Len(w) <= Len(text) + 1
      BY <1>1, <3>1, <3>2, <3>3, BeginsIs
    <3>5. QED BY <3>1, <3>3, <3>4
  <2>2. ASSUME NEW word \in {"DOCTYPE", "[CDATA["}, Begins(<<word>>, rest)
        PROVE  s.pos + 1 \in s.pos .. Len(text) + 1 /\ text[s.pos] = word
    <3> DEFINE w == <<word>>
    <3>1. w \in Seq({"DOCTYPE", "[CDATA["}) /\ Len(w) = 1 /\ w[1] = word
      OBVIOUS
    <3> HIDE DEF w
    <3>2. s.pos + Len(w) <= Len(text) + 1 /\ \A j \in 1 .. Len(w) : text[s.pos + j - 1] = w[j]
      <4>1. Begins(w, Rest(s))
        BY <2>2 DEF w, rest
      <4>2. s.pos \in 1 .. Len(text) + 1 /\ Len(w) >= 1
        BY <1>1, <3>1 DEF Places
      <4>3. QED BY <1>1, <3>1, <4>1, <4>2, BeginsIs, ZenonT(60)
    <3>3. text[s.pos + 1 - 1] = w[1]
      BY <3>1, <3>2
    <3>4. s.pos + 1 - 1 = s.pos
      BY <1>1 DEF Places
    <3>5. QED BY <1>1, <3>1, <3>2, <3>3, <3>4 DEF Places
  <2>3. QED BY <2>1, <2>2
<1>9. ASSUME Begins(<<"-", "-">>, rest)
      PROVE  Kept(Advanced(reconsume_in_state(Advance(s, 2), "COMMENT_START")))
  <2> DEFINE x == Advance(s, 2)
             r == reconsume_in_state(x, "COMMENT_START")
  <2>1. Further(s, x, s.pos + 2) /\ x.doctype = s.doctype /\ x.tmp = <<>>
    <3>1. Further(s, x, s.pos + 2) /\ x.doctype = s.doctype /\ x.tmp = s.tmp
      BY <1>5, AdvanceFurther
    <3>2. QED BY <1>1, <3>1
  <2> HIDE DEF x
  <2>2. /\ Further(s, r, s.pos + 2) /\ r.state = "COMMENT_START" /\ r.reconsume = TRUE
        /\ r.doctype = s.doctype /\ r.tmp = <<>>
    BY <2>1, ReconsumeFurther
  <2> HIDE DEF r
  <2>3. CanEmit(r) /\ r.emitted = FALSE /\ r.resume = 0 /\ r.buffered = NoChar
    BY <1>8, <1>9, <2>2, FurtherCan
  <2>4. r.tag.open = FALSE /\ r.tag.listed = FALSE /\ r.doctype.owned = FALSE
    BY <1>2, <2>2 DEF Closed, Further
  <2>5. r.state \in Comments \ {"MARKUP_DECLARATION_OPEN"} /\ r.state \notin Doctypes \cup Unused
    BY <2>2 DEF Comments, Doctypes, Unused
  <2>6. MarkedAt(r, "<") /\ Behind(r) = s.pos + 2 /\ r.mark = s.mark
    BY <1>1, <1>3, <2>2 DEF Further, MarkedAt, Behind, Places
  <2>7. Told(s.mark, s.pos + 2, "COMMENT_START", <<>>)
    <3>1. Pending("COMMENT_START") = 0 /\ (s.pos + 2) - 0 = s.pos + 2 /\ s.pos + 2 = s.mark + 4
      BY <1>1, <1>3 DEF Pending, Places
    <3>2. ReadUpTo(s.mark, (s.pos + 2) - 0, 0, <<>>)
      BY <1>4, <1>9, <3>1
    <3>3. QED BY <3>1, <3>2 DEF Told
  <2>8. QED BY <1>1, <2>2, <2>3, <2>4, <2>5, <2>6, <2>7, PartKept DEF r, x
<1>10. ASSUME Begins(<<"DOCTYPE">>, rest)
      PROVE  Kept(Advanced([reconsume_in_state(Advance(s, 1), "DOCTYPE")
                            EXCEPT !.doctype.owned = TRUE]))
  <2> DEFINE x == Advance(s, 1)
             y == reconsume_in_state(x, "DOCTYPE")
             r == [y EXCEPT !.doctype.owned = TRUE]
  <2>1. Further(s, x, s.pos + 1) /\ x.tmp = <<>>
    <3>1. Further(s, x, s.pos + 1) /\ x.tmp = s.tmp
      BY <1>5, AdvanceFurther
    <3>2. QED BY <1>1, <3>1
  <2> HIDE DEF x
  <2>2. /\ Further(s, y, s.pos + 1) /\ y.state = "DOCTYPE" /\ y.reconsume = TRUE /\ y.tmp = <<>>
    BY <2>1, ReconsumeFurther
  <2> HIDE DEF y
  <2>3. /\ Further(s, r, s.pos + 1) /\ r.state = "DOCTYPE" /\ r.reconsume = TRUE /\ r.tmp = <<>>
        /\ r.doctype.owned = TRUE
    BY <2>2 DEF Further, Shape, StateFields, DoctypeFields
  <2> HIDE DEF r
  <2>4. CanEmit(r) /\ r.emitted = FALSE /\ r.resume = 0 /\ r.buffered = NoChar
    BY <1>8, <1>10, <2>3, FurtherCan
  <2>5. r.tag.open = FALSE /\ r.tag.listed = FALSE
    BY <1>2, <2>3 DEF Closed, Further
  <2>6. r.state \in Doctypes /\ r.state \notin InComment
    BY <2>3 DEF Doctypes, InComment, Comments
  <2>7. QED BY <1>1, <2>3, <2>4, <2>5, <2>6, PartKept DEF r, y, x
<1>11. ASSUME Begins(<<"[CDATA[">>, rest)
       PROVE  Kept(Advanced([reset_token_start_point(
                               reconsume_in_state(Advance(s, 1), "CDATA_SECTION"))
                             EXCEPT !.cdata = TRUE]))
  <2> DEFINE x == Advance(s, 1)
             y == reconsume_in_state(x, "CDATA_SECTION")
             r == [reset_token_start_point(y) EXCEPT !.cdata = TRUE]
             n == Advanced(r)
  <2>1. Further(s, x, s.pos + 1) /\ x.doctype = s.doctype
    BY <1>5, AdvanceFurther
  <2> HIDE DEF x
  <2>2. /\ Further(s, y, s.pos + 1) /\ y.state = "CDATA_SECTION" /\ y.reconsume = TRUE
        /\ y.doctype = s.doctype
    BY <2>1, ReconsumeFurther
  <2> HIDE DEF y
  <2>3. /\ Shape(r) /\ r.pos = s.pos + 1 /\ r.start = s.pos + 1 /\ r.mark = s.mark
        /\ r.resume = s.resume /\ r.return = s.return /\ r.buffered = s.buffered
        /\ r.code = s.code /\ r.tag = s.tag /\ r.doctype = s.doctype /\ r.out = s.out
        /\ r.emitted = s.emitted /\ r.failed = s.failed
        /\ r.state = "CDATA_SECTION" /\ r.reconsume = TRUE
    BY <2>2 DEF reset_token_start_point, Further, Shape, StateFields
  <2> HIDE DEF r
  <2>4. s.pos + 1 <= Len(text) + 1 /\ text[s.pos] = "[CDATA["
    BY <1>8, <1>11
  <2>5. Covered(s.start, s.pos + 1, Dropped \cup Brackets)
    <3> DEFINE word == <<"<", "!", "[CDATA[">>
    <3>1. word \in Dropped \cup Brackets /\ word \in Seq(Marks) /\ Len(word) = 3
      BY WordsAre DEF Brackets
    <3>2. word[1] = "<" /\ word[2] = "!" /\ word[3] = "[CDATA["
      OBVIOUS
    <3> HIDE DEF word
    <3>3. s.mark \in Nat /\ s.start \in Nat /\ s.start <= s.mark /\ s.pos + 1 = s.mark + 3
          /\ s.pos \in Nat
      BY <1>1, <1>3, SMTT(30) DEF MarkedAt, Places
    <3>4. Held(word, s.mark, s.mark + Len(word))
      <4>1. \A j \in 1 .. Len(word) : text[s.mark + j - 1] = word[j]
        <5>1. TAKE j \in 1 .. Len(word)
        <5>2. j \in {1, 2, 3}
          BY <3>1
        <5>3. text[s.mark] = "<" /\ text[s.mark + 1] = "!" /\ text[s.mark + 2] = "[CDATA["
          BY <1>3, <2>4 DEF MarkedAt
        <5>4. CASE j = 1
          BY <3>2, <3>3, <5>3, <5>4
        <5>5. CASE j = 2
          BY <3>2, <3>3, <5>3, <5>5
        <5>6. CASE j = 3
          BY <3>2, <3>3, <5>3, <5>6
        <5>7. QED BY <5>2, <5>4, <5>5, <5>6
      <4>2. QED BY <3>1, <3>3, <4>1 DEF Held
    <3>5. Covered(s.mark, s.mark + Len(word), Dropped \cup Brackets)
      BY <3>1, <3>3, <3>4, CoveredWord
    <3>6. Covered(s.start, s.mark, Dropped \cup Brackets)
      BY <1>3, CoveredMore DEF MarkedAt
    <3>7. Covered(s.start, s.mark + 3, Dropped \cup Brackets)
      BY <3>1, <3>3, <3>5, <3>6, CoveredJoins, WordsAre
    <3>8. QED BY <3>3, <3>7
  <2>6. History(r.out, r.start)
    <3>1. /\ History(s.out, s.start) /\ s.start \in Nat /\ s.pos + 1 \in Nat
          /\ s.start <= s.pos + 1
      BY <1>1 DEF Kept, Places
    <3>2. History(s.out, s.pos + 1)
      BY <2>5, <3>1, HistoryMoves
    <3>3. QED BY <2>3, <3>2
  <2>7. CanEmit(r) /\ r.emitted = FALSE /\ r.resume = 0 /\ r.buffered = NoChar
    <3>1. Places(r)
      BY <1>1, <2>3, <2>4 DEF Places
    <3>2. QED BY <2>3, <2>6, <3>1 DEF CanEmit, Ready, Kept, Returns
  <2>8. Moved(r, n) /\ n.pos = s.pos + 1 /\ n.start = s.pos + 1 /\ n.state = "CDATA_SECTION"
    BY <2>3, <2>7, AdvanceIs DEF CanEmit, Moved, Behind
  <2> HIDE DEF n
  <2>9. ~InTag(n) /\ ~InTag(r) /\ Covered(n.start, n.pos, Dropped)
    BY <1>1, <2>3, <2>8, CoveredNothing DEF InTag, BuildsTag, Attributes, References, Places
  <2>10. Stands(n) /\ Clean(n)
    BY <2>8, <2>9 DEF Stands, Clean, MayBeText, NamesEndTag, References, Unused, ReadsValue,
                      InValue, InComment, Comments
  <2>11. Owns(r) /\ r.state \in AllStates
    BY <1>2, <2>3, <2>7, <2>9 DEF Owns, Closed, Doctypes, AllStates, CDatas
  <2>12. QED BY <1>1, <2>7, <2>10, <2>11, QuietKept DEF n, r, y, x
<1>12. ASSUME Begins(<<"[CDATA[">>, rest)
       PROVE  Kept(Advanced(append_to_temporary_buffer(Advance(bogus, 1), <<"[CDATA[">>)))
  <2> DEFINE x == Advance(bogus, 1)
             r == append_to_temporary_buffer(x, <<"[CDATA[">>)
  <2>1. /\ Further(s, x, s.pos + 1) /\ x.doctype = bogus.doctype /\ x.state = "BOGUS_COMMENT"
        /\ x.reconsume = TRUE /\ x.tmp = <<>>
    BY <1>6, AdvanceFurther DEF With
  <2> HIDE DEF x
  <2>2. /\ Further(s, r, s.pos + 1) /\ r.state = "BOGUS_COMMENT" /\ r.reconsume = TRUE
        /\ r.doctype = bogus.doctype /\ r.tmp = x.tmp \o <<"[CDATA[">>
    BY <2>1 DEF append_to_temporary_buffer, Further, Shape, StateFields
  <2> HIDE DEF r
  <2>3. CanEmit(r) /\ r.emitted = FALSE /\ r.resume = 0 /\ r.buffered = NoChar
    BY <1>8, <1>12, <2>2, FurtherCan
  <2>4. r.tag.open = FALSE /\ r.tag.listed = FALSE /\ r.doctype.owned = FALSE
    BY <1>2, <1>6, <2>2 DEF Closed, Further, Frame
  <2>5. r.state \in Comments \ {"MARKUP_DECLARATION_OPEN"} /\ r.state \notin Doctypes \cup Unused
    BY <2>2 DEF Comments, Doctypes, Unused
  <2>6. MarkedAt(r, "<") /\ Behind(r) = s.pos + 1 /\ r.mark = s.mark
    BY <1>1, <1>3, <2>2 DEF Further, MarkedAt, Behind, Places
  <2>7. Told(s.mark, s.pos + 1, "BOGUS_COMMENT", <<>> \o <<"[CDATA[">>)
    <3>1. s.pos \in Nat \ {0} /\ s.pos <= Len(text) /\ Len(text) \in Nat /\ text[s.pos] = "[CDATA["
          /\ s.mark \in Nat \ {0}
      BY <1>1, <1>3, <1>8, <1>12, SMTT(30) DEF Places
    <3>2. SymbolAt(s.pos) = "[CDATA["
      BY <3>1 DEF SymbolAt
    <3>3. ~Begins(<<"-", "-">>, rest)
      BY <1>1, <3>2, DashesAre DEF Places, rest
    <3>4. BogusUpTo(s.mark, s.pos + 1, <<>> \o <<ShownSymbol("[CDATA[")>>)
      BY <1>1, <1>4, <3>1, <3>2, <3>3, BogusGrows
    <3>5. ShownSymbol("[CDATA[") = "[CDATA["
      BY DEF ShownSymbol, NUL
    <3>6. QED BY <3>4, <3>5 DEF Told
  <2>8. r.tmp = <<>> \o <<"[CDATA[">>
    BY <2>1, <2>2
  <2>9. QED BY <1>1, <2>2, <2>3, <2>4, <2>5, <2>6, <2>7, <2>8, PartKept DEF r, x
<1>13. QED BY <1>7, <1>9, <1>10, <1>11, <1>12
           DEF handle_markup_declaration_open_state, rest, bogus, e, cleared

\* the handlers after which the comment is read on
Later == InComment \ {"BOGUS_COMMENT", "COMMENT_START", "COMMENT_START_DASH"}

\* what was read of a comment, by its state
LEMMA ReadComment ==
  ASSUME NEW s, Ready(s), s.state \in InComment, s.state # "BOGUS_COMMENT"
  PROVE  /\ ReadUpTo(s.mark, s.pos - Pending(s.state), Pending(s.state), s.tmp)
         /\ s.pos - Pending(s.state) \in Nat
         /\ s.state \in Later => NotAbrupt(s.mark)
<1>1. Told(s.mark, s.pos, s.state, s.tmp) /\ s.pos \in Nat /\ s.mark \in Nat
  BY ReadyComment
<1>2. ReadUpTo(s.mark, s.pos - Pending(s.state), Pending(s.state), s.tmp)
  BY <1>1 DEF Told
<1>3. s.state \in Later => NotAbrupt(s.mark)
  BY <1>1 DEF Told, Later
<1>4. s.pos - Pending(s.state) \in Nat
  BY <1>1, <1>2, PendingIs DEF ReadUpTo
<1>5. QED BY <1>2, <1>3, <1>4

\* what these states say of a comment
LEMMA LaterTold ==
  \A start, p, tmp : NotAbrupt(start) =>
    /\ ReadUpTo(start, p - 0, 0, tmp) =>
         \A state \in {"COMMENT", "COMMENT_LT", "COMMENT_LT_BANG"} : Told(start, p, state, tmp)
    /\ ReadUpTo(start, p - 1, 1, tmp) =>
         \A state \in {"COMMENT_LT_BANG_DASH", "COMMENT_END_DASH"} : Told(start, p, state, tmp)
    /\ ReadUpTo(start, p - 2, 2, tmp) =>
         \A state \in {"COMMENT_LT_BANG_DASH_DASH", "COMMENT_END"} : Told(start, p, state, tmp)
    /\ ReadUpTo(start, p - 3, 3, tmp) => Told(start, p, "COMMENT_END_BANG", tmp)
BY DEF Told, Pending

\* where the tokenizer stands after a symbol of a comment
LEMMA AfterSymbol ==
  \A s : Ready(s) /\ s.state \in InComment /\ Current(s) # EOF => After(s, FALSE) = s.pos + 1
BY ReadyComment DEF After

\* one symbol in its own place
LEMMA ShownAlone == \A c : ShownSymbol(c) = IF c = NUL THEN REPL ELSE c
BY DEF ShownSymbol

\* A bogus comment.
LEMMA BogusCommentKept ==
  ASSUME NEW s, Ready(s), s.state = "BOGUS_COMMENT"
  PROVE  Kept(Advanced(handle_bogus_comment_state(s, Current(s))))
<1> DEFINE c == Current(s)
<1>1. s.state \in InComment
  BY DEF InComment, Comments
<1>2. /\ text \in Seq(Symbols) /\ s.mark \in Nat \ {0} /\ s.pos \in Nat \ {0}
      /\ Len(text) \in Nat /\ Told(s.mark, s.pos, s.state, s.tmp) /\ SymbolAt(s.pos) = c
      /\ s.pos > Len(text) <=> c = EOF
  BY <1>1, ReadyComment
<1>3. BogusUpTo(s.mark, s.pos, s.tmp)
  BY <1>2 DEF Told
<1>4. c \in {">", EOF} => EndsHere(s.mark, s.pos, s.state)
  BY <1>2 DEF EndsHere
<1>5. c \notin {">", EOF} =>
        Told(s.mark, After(s, FALSE), s.state, s.tmp \o <<ShownSymbol(c)>>)
  <2>1. SUFFICES ASSUME c \notin {">", EOF}
        PROVE  Told(s.mark, After(s, FALSE), s.state, s.tmp \o <<ShownSymbol(c)>>)
    OBVIOUS
  <2>2. BogusUpTo(s.mark, s.pos + 1, s.tmp \o <<ShownSymbol(SymbolAt(s.pos))>>)
    BY <1>2, <1>3, <2>1, BogusGrows
  <2>3. After(s, FALSE) = s.pos + 1
    BY <1>1, <2>1, AfterSymbol
  <2>4. QED BY <1>2, <2>2, <2>3 DEF Told
<1>6. /\ c \in {">", EOF} =>
           /\ Kept(Advanced(CommentDone(s)))
           /\ Kept(Advanced(emit_comment(reconsume_in_state(s, "DATA"))))
      /\ c \notin {">", EOF} =>
           /\ Kept(Advanced(append_to_temporary_buffer(s, <<ShownSymbol(c)>>)))
           /\ Kept(Advanced(append_to_temporary_buffer(tokenizer_add_parse_error(s),
                                                       <<ShownSymbol(c)>>)))
  BY <1>1, <1>4, <1>5, CommentTerms
<1> HIDE DEF c
<1>7. Kept(Advanced(handle_bogus_comment_state(s, c)))
  BY <1>6, ShownAlone DEF handle_bogus_comment_state, NUL, EOF
<1>8. QED BY <1>7 DEF c

\* After <!--.
LEMMA CommentStartKept ==
  ASSUME NEW s, Ready(s), s.state = "COMMENT_START"
  PROVE  Kept(Advanced(handle_comment_start_state(s, Current(s))))
<1> DEFINE c == Current(s)
<1>1. s.state \in InComment /\ {"COMMENT_START_DASH", "COMMENT"} \subseteq InComment
  BY DEF InComment, Comments
<1>2. /\ s.mark \in Nat \ {0} /\ s.pos \in Nat \ {0} /\ SymbolAt(s.pos) = c
      /\ Told(s.mark, s.pos, s.state, s.tmp)
  BY <1>1, ReadyComment
<1>3. ReadUpTo(s.mark, s.pos, 0, s.tmp) /\ s.pos = s.mark + 4
  BY <1>2 DEF Told, Pending
<1>4. c = ">" => EndsHere(s.mark, s.pos, s.state)
  BY <1>2, <1>3 DEF EndsHere, EndsAt, Pending
<1>5. c = "-" => Told(s.mark, After(s, FALSE), "COMMENT_START_DASH", s.tmp)
  <2>1. SUFFICES ASSUME c = "-" PROVE Told(s.mark, After(s, FALSE), "COMMENT_START_DASH", s.tmp)
    OBVIOUS
  <2>2. ReadUpTo(s.mark, s.pos, 0 + 1, s.tmp)
    BY <1>2, <1>3, <2>1, PendingGrows
  <2>3. After(s, FALSE) = s.pos + 1
    BY <1>1, <2>1, AfterSymbol DEF EOF
  <2>4. (s.pos + 1) - 1 = s.pos /\ s.pos + 1 = s.mark + 5
    BY <1>2, <1>3
  <2>5. Pending("COMMENT_START_DASH") = 1 /\ 0 + 1 = 1
    BY DEF Pending
  <2>6. ReadUpTo(s.mark, (s.pos + 1) - 1, 1, s.tmp)
    BY <2>2, <2>4, <2>5
  <2>7. QED BY <2>3, <2>4, <2>5, <2>6 DEF Told
<1>6. c \notin {"-", ">"} => Told(s.mark, s.pos, "COMMENT", s.tmp)
  <2>1. SUFFICES ASSUME c \notin {"-", ">"} PROVE Told(s.mark, s.pos, "COMMENT", s.tmp)
    OBVIOUS
  <2>2. NotAbrupt(s.mark) /\ ReadUpTo(s.mark, s.pos - 0, 0, s.tmp)
    BY <1>2, <1>3, <2>1 DEF NotAbrupt
  <2>3. QED BY <2>2, LaterTold
<1>7. /\ c = "-" => Kept(Advanced(gumbo_tokenizer_set_state(s, "COMMENT_START_DASH")))
      /\ c = ">" => Kept(Advanced(CommentDone(tokenizer_add_parse_error(s))))
      /\ c \notin {"-", ">"} => Kept(Advanced(reconsume_in_state(s, "COMMENT")))
  BY <1>1, <1>4, <1>5, <1>6, CommentTerms
<1> HIDE DEF c
<1>8. Kept(Advanced(handle_comment_start_state(s, c)))
  BY <1>7 DEF handle_comment_start_state
<1>9. QED BY <1>8 DEF c

\* After <!---.
LEMMA CommentStartDashKept ==
  ASSUME NEW s, Ready(s), s.state = "COMMENT_START_DASH"
  PROVE  Kept(Advanced(handle_comment_start_dash_state(s, Current(s))))
<1> DEFINE c == Current(s)
<1>1. s.state \in InComment /\ {"COMMENT_END", "COMMENT"} \subseteq InComment
  BY DEF InComment, Comments
<1>2. /\ s.mark \in Nat \ {0} /\ s.pos \in Nat \ {0} /\ SymbolAt(s.pos) = c
      /\ Told(s.mark, s.pos, s.state, s.tmp) /\ text \in Seq(Symbols)
  BY <1>1, ReadyComment
<1>3. ReadUpTo(s.mark, s.mark + 4, 1, s.tmp) /\ s.pos = s.mark + 5
  <2>1. ReadUpTo(s.mark, s.pos - 1, 1, s.tmp) /\ s.pos = s.mark + 5
    BY <1>2 DEF Told, Pending
  <2>2. s.pos - 1 = s.mark + 4
    BY <1>2, <2>1
  <2>3. QED BY <2>1, <2>2
<1>4. SymbolAt(s.mark + 4) = "-" /\ SymbolAt((s.mark + 4) + 1) = c /\ SymbolAt(s.mark + 5) = c
      /\ s.mark + 4 \in Nat
  <2>1. (s.mark + 4) + 1 = s.pos /\ s.mark + 4 \in Nat
    BY <1>2, <1>3
  <2>2. QED BY <1>2, <1>3, <2>1 DEF ReadUpTo
<1>5. c \in {">", EOF} => EndsHere(s.mark, s.pos, s.state)
  <2>1. s.pos - 1 = s.mark + 4
    BY <1>2, <1>3
  <2>2. QED BY <1>4, <2>1 DEF EndsHere, EndsAt, Pending
<1>6. c # ">" => NotAbrupt(s.mark)
  BY <1>4 DEF NotAbrupt
<1>7. c = "-" => Told(s.mark, After(s, FALSE), "COMMENT_END", s.tmp)
  <2>1. SUFFICES ASSUME c = "-" PROVE Told(s.mark, After(s, FALSE), "COMMENT_END", s.tmp)
    OBVIOUS
  <2>2. ReadUpTo(s.mark, s.mark + 4, 1 + 1, s.tmp)
    BY <1>3, <1>4, <2>1, PendingGrows
  <2>3. After(s, FALSE) = s.pos + 1 /\ (s.pos + 1) - 2 = s.mark + 4
    <3>1. After(s, FALSE) = s.pos + 1
      BY <1>1, <2>1, AfterSymbol DEF EOF
    <3>2. s.mark \in Nat /\ s.pos \in Nat /\ s.pos = s.mark + 5
      BY <1>2, <1>3
    <3>3. (s.pos + 1) - 2 = s.mark + 4
      BY <3>2
    <3>4. QED BY <3>1, <3>3
  <2>4. ReadUpTo(s.mark, (s.pos + 1) - 2, 2, s.tmp)
    BY <2>2, <2>3
  <2>5. QED BY <1>6, <2>1, <2>3, <2>4, LaterTold
<1>8. c \notin {"-", ">", EOF} => Told(s.mark, s.pos, "COMMENT", s.tmp \o <<"-">>)
  <2>1. SUFFICES ASSUME c \notin {"-", ">", EOF}
        PROVE  Told(s.mark, s.pos, "COMMENT", s.tmp \o <<"-">>)
    OBVIOUS
  <2>2. ReadUpTo(s.mark, (s.mark + 4) + 1, 0, s.tmp \o <<"-">>)
    BY <1>2, <1>3, <1>4, <2>1, DashGrows
  <2>3. (s.mark + 4) + 1 = s.pos - 0
    BY <1>2, <1>3
  <2>4. QED BY <1>6, <2>1, <2>2, <2>3, LaterTold
<1>9. /\ c = "-" => Kept(Advanced(gumbo_tokenizer_set_state(s, "COMMENT_END")))
      /\ c \in {">", EOF} => /\ Kept(Advanced(CommentDone(tokenizer_add_parse_error(s))))
                            /\ Kept(Advanced(EofInComment(s)))
      /\ c \notin {"-", ">", EOF} => Kept(Advanced(CommentGoesOn(s, <<"-">>)))
  BY <1>1, <1>5, <1>7, <1>8, CommentTerms
<1> HIDE DEF c
<1>10. Kept(Advanced(handle_comment_start_dash_state(s, c)))
  BY <1>9 DEF handle_comment_start_dash_state, EOF
<1>11. QED BY <1>10 DEF c

\* In a comment, or after a < in it, every symbol but a dash is its text.
LEMMA CommentGrows ==
  ASSUME NEW s, Ready(s), s.state \in {"COMMENT", "COMMENT_LT"}, Current(s) \notin {"-", EOF},
         NEW state \in {"COMMENT", "COMMENT_LT", "COMMENT_LT_BANG"}
  PROVE  Told(s.mark, After(s, FALSE), state, s.tmp \o <<ShownSymbol(Current(s))>>)
<1> DEFINE c == Current(s)
<1>1. s.state \in Later /\ s.state \in InComment /\ s.state # "BOGUS_COMMENT"
      /\ Pending(s.state) = 0
  BY DEF Later, InComment, Comments, Pending
<1>2. /\ text \in Seq(Symbols) /\ s.mark \in Nat \ {0} /\ s.pos \in Nat \ {0}
      /\ SymbolAt(s.pos) = c
  BY <1>1, ReadyComment
<1>3. ReadUpTo(s.mark, s.pos - 0, 0, s.tmp) /\ NotAbrupt(s.mark)
  BY <1>1, ReadComment
<1>4. s.pos - 0 = s.pos /\ (s.pos + 1) - 0 = s.pos + 1
  BY <1>2
<1>5. s.pos = s.mark + 4 => SymbolAt(s.pos) # ">"
  BY <1>3 DEF NotAbrupt
<1>6. ReadUpTo(s.mark, s.pos + 1, 0, s.tmp \o <<ShownSymbol(SymbolAt(s.pos))>>)
  BY <1>2, <1>3, <1>4, <1>5, SymbolGrows
<1>7. After(s, FALSE) = s.pos + 1
  BY <1>1, AfterSymbol
<1>8. Told(s.mark, s.pos + 1, state, s.tmp \o <<ShownSymbol(c)>>)
  BY <1>2, <1>3, <1>4, <1>6, LaterTold
<1>9. QED BY <1>7, <1>8

\* The text of a comment.
LEMMA CommentTextKept ==
  ASSUME NEW s, Ready(s), s.state = "COMMENT"
  PROVE  Kept(Advanced(handle_comment_state(s, Current(s))))
<1> DEFINE c == Current(s)
<1>1. s.state \in InComment /\ {"COMMENT_LT", "COMMENT_END_DASH"} \subseteq InComment
  BY DEF InComment, Comments
<1>2. s.mark \in Nat \ {0} /\ s.pos \in Nat \ {0} /\ SymbolAt(s.pos) = c
  BY <1>1, ReadyComment
<1>3. ReadUpTo(s.mark, s.pos - 0, 0, s.tmp) /\ NotAbrupt(s.mark) /\ s.pos - 0 = s.pos
  BY <1>1, <1>2, ReadComment DEF Later, Pending
<1>4. c \notin {"-", EOF} =>
        /\ Told(s.mark, After(s, FALSE), s.state, s.tmp \o <<ShownSymbol(c)>>)
        /\ Told(s.mark, After(s, FALSE), "COMMENT_LT", s.tmp \o <<ShownSymbol(c)>>)
  BY CommentGrows
<1>5. c = "-" => Told(s.mark, After(s, FALSE), "COMMENT_END_DASH", s.tmp)
  <2>1. SUFFICES ASSUME c = "-" PROVE Told(s.mark, After(s, FALSE), "COMMENT_END_DASH", s.tmp)
    OBVIOUS
  <2>2. s.pos + 0 = s.pos /\ (s.pos + 1) - 1 = s.pos /\ 0 + 1 = 1
    BY <1>2
  <2>3. ReadUpTo(s.mark, s.pos, 0 + 1, s.tmp)
    BY <1>2, <1>3, <2>1, <2>2, PendingGrows
  <2>4. After(s, FALSE) = s.pos + 1
    BY <1>1, <2>1, AfterSymbol DEF EOF
  <2>5. Told(s.mark, s.pos + 1, "COMMENT_END_DASH", s.tmp)
    BY <1>3, <2>2, <2>3, LaterTold
  <2>6. QED BY <2>4, <2>5
<1>6. c = EOF => EndsHere(s.mark, s.pos, s.state)
  BY <1>2, <1>3 DEF EndsHere, EndsAt, Pending
<1>7. /\ c \notin {"-", EOF} =>
           /\ Kept(Advanced(append_to_temporary_buffer(
                              gumbo_tokenizer_set_state(s, "COMMENT_LT"), <<ShownSymbol(c)>>)))
           /\ Kept(Advanced(append_to_temporary_buffer(s, <<ShownSymbol(c)>>)))
           /\ Kept(Advanced(append_to_temporary_buffer(tokenizer_add_parse_error(s),
                                                       <<ShownSymbol(c)>>)))
      /\ c = "-" => Kept(Advanced(gumbo_tokenizer_set_state(s, "COMMENT_END_DASH")))
      /\ c = EOF => Kept(Advanced(EofInComment(s)))
  BY <1>1, <1>4, <1>5, <1>6, CommentTerms
<1> HIDE DEF c
<1>8. Kept(Advanced(handle_comment_state(s, c)))
  BY <1>7, ShownAlone DEF handle_comment_state, NUL, EOF
<1>9. QED BY <1>8 DEF c

\* After a < in a comment, and after <!.
LEMMA CommentLtKept ==
  ASSUME NEW s, Ready(s), s.state \in {"COMMENT_LT", "COMMENT_LT_BANG"}
  PROVE  /\ s.state = "COMMENT_LT" =>
              Kept(Advanced(handle_comment_lt_state(s, Current(s))))
         /\ s.state = "COMMENT_LT_BANG" =>
              Kept(Advanced(handle_comment_lt_bang_state(s, Current(s))))
<1> DEFINE c == Current(s)
<1>1. s.state \in InComment
      /\ {"COMMENT", "COMMENT_LT", "COMMENT_LT_BANG", "COMMENT_LT_BANG_DASH"} \subseteq InComment
  BY DEF InComment, Comments
<1>2. s.mark \in Nat \ {0} /\ s.pos \in Nat \ {0} /\ SymbolAt(s.pos) = c
  BY <1>1, ReadyComment
<1>3. ReadUpTo(s.mark, s.pos - 0, 0, s.tmp) /\ NotAbrupt(s.mark) /\ s.pos - 0 = s.pos
  BY <1>1, <1>2, ReadComment DEF Later, Pending
<1>4. Told(s.mark, s.pos, "COMMENT", s.tmp)
  BY <1>3, LaterTold
<1>5. s.state = "COMMENT_LT" /\ c \notin {"-", EOF} =>
        /\ Told(s.mark, After(s, FALSE), s.state, s.tmp \o <<ShownSymbol(c)>>)
        /\ Told(s.mark, After(s, FALSE), "COMMENT_LT_BANG", s.tmp \o <<ShownSymbol(c)>>)
  BY CommentGrows
<1>6. c = "-" => Told(s.mark, After(s, FALSE), "COMMENT_LT_BANG_DASH", s.tmp)
  <2>1. SUFFICES ASSUME c = "-"
        PROVE  Told(s.mark, After(s, FALSE), "COMMENT_LT_BANG_DASH", s.tmp)
    OBVIOUS
  <2>2. s.pos + 0 = s.pos /\ (s.pos + 1) - 1 = s.pos /\ 0 + 1 = 1
    BY <1>2
  <2>3. ReadUpTo(s.mark, s.pos, 0 + 1, s.tmp)
    BY <1>2, <1>3, <2>1, <2>2, PendingGrows
  <2>4. After(s, FALSE) = s.pos + 1
    BY <1>1, <2>1, AfterSymbol DEF EOF
  <2>5. Told(s.mark, s.pos + 1, "COMMENT_LT_BANG_DASH", s.tmp)
    BY <1>3, <2>2, <2>3, LaterTold
  <2>6. QED BY <2>4, <2>5
<1>7. /\ s.state = "COMMENT_LT" /\ c \notin {"-", EOF} =>
           /\ Kept(Advanced(append_to_temporary_buffer(
                              gumbo_tokenizer_set_state(s, "COMMENT_LT_BANG"), <<ShownSymbol(c)>>)))
           /\ Kept(Advanced(append_to_temporary_buffer(s, <<ShownSymbol(c)>>)))
      /\ c = "-" => Kept(Advanced(gumbo_tokenizer_set_state(s, "COMMENT_LT_BANG_DASH")))
      /\ Kept(Advanced(reconsume_in_state(s, "COMMENT")))
  BY <1>1, <1>4, <1>5, <1>6, CommentTerms
<1> HIDE DEF c
<1>8. s.state = "COMMENT_LT" => Kept(Advanced(handle_comment_lt_state(s, c)))
  BY <1>7, ShownAlone DEF handle_comment_lt_state, NUL, EOF
<1>9. Kept(Advanced(handle_comment_lt_bang_state(s, c)))
  BY <1>7 DEF handle_comment_lt_bang_state
<1>10. QED BY <1>8, <1>9 DEF c

\* After <!- and <!-- in a comment.
LEMMA CommentLtDashKept ==
  ASSUME NEW s, Ready(s), s.state \in {"COMMENT_LT_BANG_DASH", "COMMENT_LT_BANG_DASH_DASH"}
  PROVE  /\ s.state = "COMMENT_LT_BANG_DASH" =>
              Kept(Advanced(handle_comment_lt_bang_dash_state(s, Current(s))))
         /\ s.state = "COMMENT_LT_BANG_DASH_DASH" =>
              Kept(Advanced(handle_comment_lt_bang_dash_dash_state(s, Current(s))))
<1> DEFINE c == Current(s)
<1>1. s.state \in InComment
      /\ {"COMMENT_LT_BANG_DASH_DASH", "COMMENT_END_DASH", "COMMENT_END"} \subseteq InComment
  BY DEF InComment, Comments
<1>2. s.mark \in Nat \ {0} /\ s.pos \in Nat \ {0} /\ SymbolAt(s.pos) = c
  BY <1>1, ReadyComment
<1>3. ReadUpTo(s.mark, s.pos - Pending(s.state), Pending(s.state), s.tmp) /\ NotAbrupt(s.mark)
      /\ s.pos - Pending(s.state) \in Nat
  BY <1>1, ReadComment DEF Later
<1>4. s.state = "COMMENT_LT_BANG_DASH" => Told(s.mark, s.pos, "COMMENT_END_DASH", s.tmp)
  BY <1>3, LaterTold DEF Pending
<1>5. s.state = "COMMENT_LT_BANG_DASH_DASH" => Told(s.mark, s.pos, "COMMENT_END", s.tmp)
  BY <1>3, LaterTold DEF Pending
<1>6. s.state = "COMMENT_LT_BANG_DASH" /\ c = "-" =>
        Told(s.mark, After(s, FALSE), "COMMENT_LT_BANG_DASH_DASH", s.tmp)
  <2>1. SUFFICES ASSUME s.state = "COMMENT_LT_BANG_DASH", c = "-"
        PROVE  Told(s.mark, After(s, FALSE), "COMMENT_LT_BANG_DASH_DASH", s.tmp)
    OBVIOUS
  <2>2. (s.pos - 1) + 1 = s.pos /\ (s.pos + 1) - 2 = s.pos - 1 /\ 1 + 1 = 2
    BY <1>2
  <2>3. ReadUpTo(s.mark, s.pos - 1, 1, s.tmp) /\ s.pos - 1 \in Nat
    BY <1>3, <2>1 DEF Pending
  <2>4. ReadUpTo(s.mark, s.pos - 1, 1 + 1, s.tmp)
    BY <1>2, <2>1, <2>2, <2>3, PendingGrows
  <2>5. After(s, FALSE) = s.pos + 1
    BY <1>1, <2>1, AfterSymbol DEF EOF
  <2>6. Told(s.mark, s.pos + 1, "COMMENT_LT_BANG_DASH_DASH", s.tmp)
    BY <1>3, <2>2, <2>4, LaterTold
  <2>7. QED BY <2>5, <2>6
<1>7. /\ s.state = "COMMENT_LT_BANG_DASH" =>
           /\ c = "-" => Kept(Advanced(gumbo_tokenizer_set_state(s, "COMMENT_LT_BANG_DASH_DASH")))
           /\ Kept(Advanced(reconsume_in_state(s, "COMMENT_END_DASH")))
      /\ s.state = "COMMENT_LT_BANG_DASH_DASH" =>
           /\ Kept(Advanced(reconsume_in_state(s, "COMMENT_END")))
           /\ Kept(Advanced(reconsume_in_state(tokenizer_add_parse_error(s), "COMMENT_END")))
  BY <1>1, <1>4, <1>5, <1>6, CommentTerms
<1> HIDE DEF c
<1>8. s.state = "COMMENT_LT_BANG_DASH" => Kept(Advanced(handle_comment_lt_bang_dash_state(s, c)))
  BY <1>7 DEF handle_comment_lt_bang_dash_state
<1>9. s.state = "COMMENT_LT_BANG_DASH_DASH" =>
        Kept(Advanced(handle_comment_lt_bang_dash_dash_state(s, c)))
  BY <1>7 DEF handle_comment_lt_bang_dash_dash_state
<1>10. QED BY <1>8, <1>9 DEF c

\* After a dash in a comment.
LEMMA CommentEndDashKept ==
  ASSUME NEW s, Ready(s), s.state = "COMMENT_END_DASH"
  PROVE  Kept(Advanced(handle_comment_end_dash_state(s, Current(s))))
<1> DEFINE c == Current(s)
           p == s.pos - 1
<1>1. s.state \in InComment /\ {"COMMENT", "COMMENT_END"} \subseteq InComment
  BY DEF InComment, Comments
<1>2. /\ s.mark \in Nat \ {0} /\ s.pos \in Nat \ {0} /\ SymbolAt(s.pos) = c
      /\ text \in Seq(Symbols)
  BY <1>1, ReadyComment
<1>3. ReadUpTo(s.mark, p, 1, s.tmp) /\ NotAbrupt(s.mark) /\ p \in Nat
  BY <1>1, ReadComment DEF Later, Pending
<1>4. p + 1 = s.pos /\ (s.pos + 1) - 2 = p /\ s.pos - 0 = s.pos /\ 1 + 1 = 2
  BY <1>2
<1>5. SymbolAt(p) = "-" /\ SymbolAt(p + 1) = c
  BY <1>2, <1>3, <1>4 DEF ReadUpTo
<1>6. c = EOF => EndsHere(s.mark, s.pos, s.state)
  BY <1>5 DEF EndsHere, EndsAt, Pending
<1>7. c = "-" => Told(s.mark, After(s, FALSE), "COMMENT_END", s.tmp)
  <2>1. SUFFICES ASSUME c = "-" PROVE Told(s.mark, After(s, FALSE), "COMMENT_END", s.tmp)
    OBVIOUS
  <2>2. ReadUpTo(s.mark, p, 1 + 1, s.tmp)
    BY <1>3, <1>5, <2>1, PendingGrows
  <2>3. After(s, FALSE) = s.pos + 1
    BY <1>1, <2>1, AfterSymbol DEF EOF
  <2>4. Told(s.mark, s.pos + 1, "COMMENT_END", s.tmp)
    BY <1>3, <1>4, <2>2, LaterTold
  <2>5. QED BY <2>3, <2>4
<1>8. c \notin {"-", EOF} => Told(s.mark, s.pos, "COMMENT", s.tmp \o <<"-">>)
  <2>1. SUFFICES ASSUME c \notin {"-", EOF}
        PROVE  Told(s.mark, s.pos, "COMMENT", s.tmp \o <<"-">>)
    OBVIOUS
  <2>2. p = s.mark + 4 => SymbolAt(p + 1) # ">"
    <3>1. p = s.mark + 4 => p + 1 = s.mark + 5
      BY <1>2
    <3>2. QED BY <1>3, <1>5, <3>1 DEF NotAbrupt
  <2>3. ReadUpTo(s.mark, p + 1, 0, s.tmp \o <<"-">>)
    BY <1>2, <1>3, <1>5, <2>1, <2>2, DashGrows
  <2>4. QED BY <1>3, <1>4, <2>3, LaterTold
<1>9. /\ c = "-" => Kept(Advanced(gumbo_tokenizer_set_state(s, "COMMENT_END")))
      /\ c = EOF => Kept(Advanced(CommentDone(tokenizer_add_parse_error(s))))
      /\ c \notin {"-", EOF} => Kept(Advanced(CommentGoesOn(s, <<"-">>)))
  BY <1>1, <1>6, <1>7, <1>8, CommentTerms
<1> HIDE DEF c
<1>10. Kept(Advanced(handle_comment_end_dash_state(s, c)))
  BY <1>9 DEF handle_comment_end_dash_state, EofAfterDashes, EOF
<1>11. QED BY <1>10 DEF c

\* After two dashes in a comment.
LEMMA CommentEndKept ==
  ASSUME NEW s, Ready(s), s.state = "COMMENT_END"
  PROVE  Kept(Advanced(handle_comment_end_state(s, Current(s))))
<1> DEFINE c == Current(s)
           p == s.pos - 2
<1>1. s.state \in InComment /\ {"COMMENT", "COMMENT_END_BANG"} \subseteq InComment
  BY DEF InComment, Comments
<1>2. /\ s.mark \in Nat \ {0} /\ s.pos \in Nat \ {0} /\ SymbolAt(s.pos) = c
      /\ text \in Seq(Symbols)
  BY <1>1, ReadyComment
<1>3. ReadUpTo(s.mark, p, 2, s.tmp) /\ NotAbrupt(s.mark) /\ p \in Nat
  BY <1>1, ReadComment DEF Later, Pending
<1>4. /\ p + 2 = s.pos /\ (s.pos + 1) - 3 = p /\ s.pos - 0 = s.pos /\ 2 + 1 = 3
      /\ (s.pos + 1) - 2 = p + 1
  BY <1>2
<1>5. SymbolAt(p) = "-" /\ SymbolAt(p + 1) = "-" /\ SymbolAt(p + 2) = c
  BY <1>2, <1>3, <1>4 DEF ReadUpTo
<1>6. c \in {">", EOF} => EndsHere(s.mark, s.pos, s.state)
  BY <1>5 DEF EndsHere, EndsAt, Pending
<1>7. c = "!" => Told(s.mark, After(s, FALSE), "COMMENT_END_BANG", s.tmp)
  <2>1. SUFFICES ASSUME c = "!" PROVE Told(s.mark, After(s, FALSE), "COMMENT_END_BANG", s.tmp)
    OBVIOUS
  <2>2. ReadUpTo(s.mark, p, 2 + 1, s.tmp)
    BY <1>3, <1>5, <2>1, PendingGrows
  <2>3. After(s, FALSE) = s.pos + 1
    BY <1>1, <2>1, AfterSymbol DEF EOF
  <2>4. Told(s.mark, s.pos + 1, "COMMENT_END_BANG", s.tmp)
    BY <1>3, <1>4, <2>2, LaterTold
  <2>5. QED BY <2>3, <2>4
<1>8. c = "-" => Told(s.mark, After(s, FALSE), s.state, s.tmp \o <<"-">>)
  <2>1. SUFFICES ASSUME c = "-" PROVE Told(s.mark, After(s, FALSE), s.state, s.tmp \o <<"-">>)
    OBVIOUS
  <2>2. ReadUpTo(s.mark, p + 1, 2, s.tmp \o <<"-">>)
    BY <1>2, <1>3, <1>5, <2>1, ThirdDashGrows
  <2>3. After(s, FALSE) = s.pos + 1
    BY <1>1, <2>1, AfterSymbol DEF EOF
  <2>4. Told(s.mark, s.pos + 1, "COMMENT_END", s.tmp \o <<"-">>)
    BY <1>3, <1>4, <2>2, LaterTold
  <2>5. QED BY <2>3, <2>4
<1>9. c \notin {"-", "!", ">", EOF} => Told(s.mark, s.pos, "COMMENT", s.tmp \o <<"-", "-">>)
  <2>1. SUFFICES ASSUME c \notin {"-", "!", ">", EOF}
        PROVE  Told(s.mark, s.pos, "COMMENT", s.tmp \o <<"-", "-">>)
    OBVIOUS
  <2>2. ReadUpTo(s.mark, p + 2, 0, s.tmp \o <<"-", "-">>)
    BY <1>2, <1>3, <1>5, <2>1, DashesGrow
  <2>3. QED BY <1>3, <1>4, <2>2, LaterTold
<1>10. /\ c = ">" => Kept(Advanced(CommentDone(s)))
       /\ c = EOF => Kept(Advanced(CommentDone(tokenizer_add_parse_error(s))))
       /\ c = "!" => Kept(Advanced(gumbo_tokenizer_set_state(s, "COMMENT_END_BANG")))
       /\ c = "-" => Kept(Advanced(append_to_temporary_buffer(s, <<"-">>)))
       /\ c \notin {"-", "!", ">", EOF} => Kept(Advanced(CommentGoesOn(s, <<"-", "-">>)))
  BY <1>1, <1>6, <1>7, <1>8, <1>9, CommentTerms
<1> HIDE DEF c
<1>11. Kept(Advanced(handle_comment_end_state(s, c)))
  BY <1>10 DEF handle_comment_end_state, EofAfterDashes, EOF
<1>12. QED BY <1>11 DEF c

\* After --! in a comment.
LEMMA CommentEndBangKept ==
  ASSUME NEW s, Ready(s), s.state = "COMMENT_END_BANG"
  PROVE  Kept(Advanced(handle_comment_end_bang_state(s, Current(s))))
<1> DEFINE c == Current(s)
           p == s.pos - 3
           word == <<"-", "-", "!">>
<1>1. s.state \in InComment /\ {"COMMENT", "COMMENT_END_DASH"} \subseteq InComment
  BY DEF InComment, Comments
<1>2. /\ s.mark \in Nat \ {0} /\ s.pos \in Nat \ {0} /\ SymbolAt(s.pos) = c
      /\ text \in Seq(Symbols)
  BY <1>1, ReadyComment
<1>3. ReadUpTo(s.mark, p, 3, s.tmp) /\ NotAbrupt(s.mark) /\ p \in Nat
  BY <1>1, ReadComment DEF Later, Pending
<1>4. /\ p + 3 = s.pos /\ (s.pos + 1) - 1 = s.pos /\ s.pos - 0 = s.pos /\ s.pos + 0 = s.pos
      /\ 0 + 1 = 1
  BY <1>2
<1>5. SymbolAt(p) = "-" /\ SymbolAt(p + 1) = "-" /\ SymbolAt(p + 2) = "!" /\ SymbolAt(p + 3) = c
  BY <1>2, <1>3, <1>4 DEF ReadUpTo
<1>6. c \in {">", EOF} => EndsHere(s.mark, s.pos, s.state)
  BY <1>5 DEF EndsHere, EndsAt, Pending
<1>7. c \notin {">", EOF} => ReadUpTo(s.mark, s.pos, 0, s.tmp \o word)
  <2>1. SUFFICES ASSUME c \notin {">", EOF} PROVE ReadUpTo(s.mark, s.pos, 0, s.tmp \o word)
    OBVIOUS
  <2>2. ReadUpTo(s.mark, p + 3, 0, s.tmp \o word)
    BY <1>2, <1>3, <1>5, <2>1, BangGrows
  <2>3. QED BY <1>4, <2>2
<1> HIDE DEF word
<1>8. c = "-" => Told(s.mark, After(s, FALSE), "COMMENT_END_DASH", s.tmp \o word)
  <2>1. SUFFICES ASSUME c = "-"
        PROVE  Told(s.mark, After(s, FALSE), "COMMENT_END_DASH", s.tmp \o word)
    OBVIOUS
  <2>2. ReadUpTo(s.mark, s.pos, 0 + 1, s.tmp \o word)
    <3>1. ReadUpTo(s.mark, s.pos, 0, s.tmp \o word)
      BY <1>7, <2>1 DEF EOF
    <3>2. SymbolAt(s.pos + 0) = "-" /\ s.pos \in Nat
      BY <1>2, <1>4, <2>1
    <3>3. QED BY <3>1, <3>2, PendingGrows
  <2>3. After(s, FALSE) = s.pos + 1
    BY <1>1, <2>1, AfterSymbol DEF EOF
  <2>4. Told(s.mark, s.pos + 1, "COMMENT_END_DASH", s.tmp \o word)
    BY <1>3, <1>4, <2>2, LaterTold
  <2>5. QED BY <2>3, <2>4
<1>9. c \notin {">", EOF} => Told(s.mark, s.pos, "COMMENT", s.tmp \o word)
  BY <1>3, <1>4, <1>7, LaterTold
<1>10. /\ c = "-" => Kept(Advanced(append_to_temporary_buffer(
                            gumbo_tokenizer_set_state(s, "COMMENT_END_DASH"), word)))
       /\ c \in {">", EOF} => Kept(Advanced(CommentDone(tokenizer_add_parse_error(s))))
       /\ c \notin {"-", ">", EOF} => Kept(Advanced(CommentGoesOn(s, word)))
  BY <1>1, <1>6, <1>8, <1>9, CommentTerms
<1> HIDE DEF c
<1>11. Kept(Advanced(handle_comment_end_bang_state(s, c)))
  BY <1>10 DEF handle_comment_end_bang_state, EofAfterDashes, EOF, word
<1>12. QED BY <1>11 DEF c

\* The states of comments.
LEMMA LexCommentKept ==
  ASSUME NEW s, Ready(s), s.state \in Comments
  PROVE  Kept(Advanced(LexComment(s, Current(s))))
<1>1. CASE s.state = "MARKUP_DECLARATION_OPEN"
  BY <1>1, DeclarationKept DEF LexComment
<1>2. CASE s.state = "BOGUS_COMMENT"
  BY <1>2, BogusCommentKept DEF LexComment
<1>3. CASE s.state = "COMMENT_START"
  BY <1>3, CommentStartKept DEF LexComment
<1>4. CASE s.state = "COMMENT_START_DASH"
  BY <1>4, CommentStartDashKept DEF LexComment
<1>5. CASE s.state = "COMMENT"
  BY <1>5, CommentTextKept DEF LexComment
<1>6. CASE s.state \in {"COMMENT_LT", "COMMENT_LT_BANG"}
  BY <1>6, CommentLtKept DEF LexComment
<1>7. CASE s.state \in {"COMMENT_LT_BANG_DASH", "COMMENT_LT_BANG_DASH_DASH"}
  BY <1>7, CommentLtDashKept DEF LexComment
<1>8. CASE s.state = "COMMENT_END_DASH"
  BY <1>8, CommentEndDashKept DEF LexComment
<1>9. CASE s.state = "COMMENT_END"
  BY <1>9, CommentEndKept DEF LexComment
<1>10. CASE s.state = "COMMENT_END_BANG"
  BY <1>10, CommentEndBangKept DEF LexComment
<1>11. QED BY <1>1, <1>2, <1>3, <1>4, <1>5, <1>6, <1>7, <1>8, <1>9, <1>10 DEF Comments

(* -------------------------------- Doctypes --------------------------------- *)

\* force_quirks is set: the strings of the doctype stay.
LEMMA QuirksFrame ==
  \A z, x, state, reconsume, empty : PartFrame(z, x, state, reconsume, empty) =>
    PartFrame(z, Quirks(x), state, reconsume, empty)
<1>1. SUFFICES ASSUME NEW z, NEW x, NEW state, NEW reconsume, NEW empty,
                      PartFrame(z, x, state, reconsume, empty)
      PROVE  PartFrame(z, Quirks(x), state, reconsume, empty)
  OBVIOUS
<1> DEFINE e == tokenizer_add_parse_error(x)
           r == Quirks(x)
<1>2. PartFrame(z, e, state, reconsume, empty)
  BY <1>1, PartOps
<1>3. r = [e EXCEPT !.doctype.force_quirks = TRUE]
  BY DEF Quirks
<1> HIDE DEF e, r
<1>4. Frame(z, r) /\ With(r, e.state, e.reconsume, e.tmp, e.tag)
  BY <1>2, <1>3 DEF PartFrame, Frame, With, Shape, StateFields, DoctypeFields
<1>5. PartFrame(z, r, state, reconsume, empty)
  BY <1>2, <1>4 DEF PartFrame, With
<1>6. QED BY <1>5 DEF r

\* the strings are the tokenizer's, so the assertion holds
LEMMA FinishFrame ==
  \A z, x, state, reconsume, empty :
    PartFrame(z, x, state, reconsume, empty) /\ z.doctype.owned =>
    /\ PartFrame(z, finish_doctype_name(x), state, reconsume, TRUE)
    /\ PartFrame(z, finish_doctype_public_id(x), state, reconsume, TRUE)
    /\ PartFrame(z, finish_doctype_system_id(x), state, reconsume, TRUE)
<1>1. SUFFICES ASSUME NEW z, NEW x, NEW state, NEW reconsume, NEW empty,
                      PartFrame(z, x, state, reconsume, empty), z.doctype.owned
      PROVE  /\ PartFrame(z, finish_doctype_name(x), state, reconsume, TRUE)
             /\ PartFrame(z, finish_doctype_public_id(x), state, reconsume, TRUE)
             /\ PartFrame(z, finish_doctype_system_id(x), state, reconsume, TRUE)
  OBVIOUS
<1> DEFINE e == clear_temporary_buffer(x)
           n == finish_doctype_name(x)
           p == finish_doctype_public_id(x)
           q == finish_doctype_system_id(x)
<1>2. PartFrame(z, e, state, reconsume, TRUE)
  BY <1>1, PartOps
<1>3. assert(x, x.doctype.owned) = x
  BY <1>1 DEF assert, PartFrame, Frame
<1>4. /\ n = [e EXCEPT !.doctype.name = x.tmp]
      /\ p = [e EXCEPT !.doctype.public = x.tmp, !.doctype.has_public = TRUE]
      /\ q = [e EXCEPT !.doctype.system = x.tmp, !.doctype.has_system = TRUE]
  BY <1>3 DEF finish_doctype_name, finish_doctype_public_id, finish_doctype_system_id
<1> HIDE DEF e, n, p, q
<1>5. Frame(z, n) /\ With(n, e.state, e.reconsume, e.tmp, e.tag)
  BY <1>2, <1>4 DEF PartFrame, Frame, With, Shape, StateFields, DoctypeFields
<1>6. Frame(z, p) /\ With(p, e.state, e.reconsume, e.tmp, e.tag)
  BY <1>2, <1>4 DEF PartFrame, Frame, With, Shape, StateFields, DoctypeFields
<1>7. Frame(z, q) /\ With(q, e.state, e.reconsume, e.tmp, e.tag)
  BY <1>2, <1>4 DEF PartFrame, Frame, With, Shape, StateFields, DoctypeFields
<1>8. QED BY <1>2, <1>5, <1>6, <1>7 DEF PartFrame, With, n, p, q

\* While a doctype is read its strings are owned, and no tag is open.
LEMMA ReadyDoctype ==
  \A s : Ready(s) /\ s.state \in Doctypes =>
    /\ s.tag.open = FALSE /\ s.tag.listed = FALSE /\ s.doctype.owned
    /\ s.reconsume = FALSE /\ text \in Seq(Symbols) /\ Shape(s) /\ Places(s)
    /\ PartFrame(s, s, s.state, FALSE, FALSE)
    /\ s.state \in Unused => s.tmp = <<>> /\ PartFrame(s, s, s.state, FALSE, TRUE)
<1>1. SUFFICES ASSUME NEW s, Ready(s), s.state \in Doctypes
      PROVE  /\ s.tag.open = FALSE /\ s.tag.listed = FALSE /\ s.doctype.owned
             /\ s.reconsume = FALSE /\ text \in Seq(Symbols) /\ Shape(s) /\ Places(s)
             /\ PartFrame(s, s, s.state, FALSE, FALSE)
             /\ s.state \in Unused => s.tmp = <<>> /\ PartFrame(s, s, s.state, FALSE, TRUE)
  OBVIOUS
<1>2. ~InTag(s)
  BY <1>1 DEF InTag, BuildsTag, Attributes, References, Doctypes
<1>3. Kept(s) /\ Owns(s) /\ Clean(s) /\ s.emitted = FALSE
  BY <1>1 DEF Ready, Kept
<1>4. s.tag.open = FALSE /\ s.tag.listed = FALSE /\ s.doctype.owned
  BY <1>1, <1>2, <1>3 DEF Owns
<1>5. s.reconsume = FALSE /\ text \in Seq(Symbols) /\ Shape(s) /\ Places(s) /\ Frame(s, s)
  BY <1>1, <1>3, FrameSelf DEF Ready, Kept
<1>6. QED BY <1>3, <1>4, <1>5 DEF PartFrame, Clean

\* A handler that goes on with the doctype keeps the invariant.
LEMMA DoctypeKept ==
  \A s, r, state, reconsume, empty :
    /\ Ready(s) /\ s.state \in Doctypes /\ PartFrame(s, r, state, reconsume, empty)
    /\ reconsume \in BOOLEAN /\ state \in Doctypes /\ (state \in Unused => empty)
    => Kept(Advanced(r))
<1>1. SUFFICES ASSUME NEW s, NEW r, NEW state \in Doctypes, NEW reconsume \in BOOLEAN, NEW empty,
                      Ready(s), s.state \in Doctypes, PartFrame(s, r, state, reconsume, empty),
                      state \in Unused => empty
      PROVE  Kept(Advanced(r))
  OBVIOUS
<1>2. CanEmit(r) /\ r.emitted = FALSE /\ r.resume = 0 /\ r.buffered = NoChar
      /\ text \in Seq(Symbols)
  BY <1>1, FrameCan DEF PartFrame, Ready
<1>3. r.tag.open = FALSE /\ r.tag.listed = FALSE /\ r.doctype.owned /\ r.state = state
      /\ (r.state \in Unused => r.tmp = <<>>)
  BY <1>1, ReadyDoctype DEF PartFrame, Frame
<1>4. r.state \notin InComment
  BY <1>1, <1>3, NoComments
<1>5. QED BY <1>1, <1>2, <1>3, <1>4, PartKept

\* A handler that ends the doctype keeps the invariant.
LEMMA DoctypeEmitted ==
  \A s, x, reconsume, empty :
    /\ Ready(s) /\ s.state \in Doctypes /\ PartFrame(s, x, "DATA", reconsume, empty)
    /\ reconsume \in BOOLEAN
    => Kept(Advanced(emit_doctype(x)))
<1>1. SUFFICES ASSUME NEW s, NEW x, NEW reconsume \in BOOLEAN, NEW empty,
                      Ready(s), s.state \in Doctypes, PartFrame(s, x, "DATA", reconsume, empty)
      PROVE  Kept(Advanced(emit_doctype(x)))
  OBVIOUS
<1> DEFINE r == emit_doctype(x)
<1>2. CanEmit(x) /\ x.resume = 0 /\ x.buffered = NoChar /\ text \in Seq(Symbols)
  BY <1>1, FrameCan DEF PartFrame, Ready
<1>3. Emits(x, r, "DOCTYPE", x.doctype) /\ Else(x, r) /\ r.tag = x.tag
      /\ r.doctype.owned = FALSE
  BY <1>2, DoctypeIs DEF CanEmit
<1> HIDE DEF r
<1>4. Closed(r) /\ x.state = "DATA"
  BY <1>1, <1>3, ReadyDoctype DEF Closed, PartFrame
<1>5. QED BY <1>2, <1>3, <1>4, MarkupEmitted DEF r

\* the terms in which the handlers of doctypes end
LEMMA DoctypeTerms ==
  \A s, x, empty :
    Ready(s) /\ s.state \in Doctypes /\ PartFrame(s, x, s.state, FALSE, empty) =>
    /\ Kept(Advanced(DoctypeDone(x))) /\ Kept(Advanced(DoctypeDone(Quirks(x))))
    /\ Kept(Advanced(EofInDoctype(x)))
    /\ Kept(Advanced(emit_doctype(reconsume_in_state(x, "DATA"))))
    /\ Kept(Advanced(BogusDoctype(x)))
    /\ Kept(Advanced(reconsume_in_state(tokenizer_add_parse_error(x), "BOGUS_DOCTYPE")))
    /\ s.state \notin Unused =>
         \A word : /\ Kept(Advanced(append_to_temporary_buffer(x, word)))
                   /\ Kept(Advanced(append_to_temporary_buffer(tokenizer_add_parse_error(x), word)))
    /\ \A word : /\ Kept(Advanced(DoctypeName(x, word)))
                 /\ Kept(Advanced(DoctypeName(tokenizer_add_parse_error(x), word)))
    /\ \A next \in Doctypes : next \notin Unused \/ empty =>
         /\ Kept(Advanced(gumbo_tokenizer_set_state(x, next)))
         /\ Kept(Advanced(reconsume_in_state(x, next)))
         /\ Kept(Advanced(reconsume_in_state(tokenizer_add_parse_error(x), next)))
<1>1. SUFFICES ASSUME NEW s, NEW x, NEW empty, Ready(s), s.state \in Doctypes,
                      PartFrame(s, x, s.state, FALSE, empty)
      PROVE
    /\ Kept(Advanced(DoctypeDone(x))) /\ Kept(Advanced(DoctypeDone(Quirks(x))))
    /\ Kept(Advanced(EofInDoctype(x)))
    /\ Kept(Advanced(emit_doctype(reconsume_in_state(x, "DATA"))))
    /\ Kept(Advanced(BogusDoctype(x)))
    /\ Kept(Advanced(reconsume_in_state(tokenizer_add_parse_error(x), "BOGUS_DOCTYPE")))
    /\ s.state \notin Unused =>
         \A word : /\ Kept(Advanced(append_to_temporary_buffer(x, word)))
                   /\ Kept(Advanced(append_to_temporary_buffer(tokenizer_add_parse_error(x), word)))
    /\ \A word : /\ Kept(Advanced(DoctypeName(x, word)))
                 /\ Kept(Advanced(DoctypeName(tokenizer_add_parse_error(x), word)))
    /\ \A next \in Doctypes : next \notin Unused \/ empty =>
         /\ Kept(Advanced(gumbo_tokenizer_set_state(x, next)))
         /\ Kept(Advanced(reconsume_in_state(x, next)))
         /\ Kept(Advanced(reconsume_in_state(tokenizer_add_parse_error(x), next)))
  OBVIOUS
<1> DEFINE e == tokenizer_add_parse_error(x)
           q == Quirks(x)
           d == gumbo_tokenizer_set_state(x, "DATA")
           u == gumbo_tokenizer_set_state(q, "DATA")
           v == reconsume_in_state(q, "DATA")
           w == reconsume_in_state(x, "DATA")
           b == reconsume_in_state(q, "BOGUS_DOCTYPE")
           g == reconsume_in_state(e, "BOGUS_DOCTYPE")
<1>2. PartFrame(s, e, s.state, FALSE, empty) /\ PartFrame(s, q, s.state, FALSE, empty)
  BY <1>1, PartOps, QuirksFrame
<1> HIDE DEF e, q
<1>3. /\ PartFrame(s, d, "DATA", FALSE, empty) /\ PartFrame(s, u, "DATA", FALSE, empty)
      /\ PartFrame(s, v, "DATA", TRUE, empty) /\ PartFrame(s, w, "DATA", TRUE, empty)
      /\ PartFrame(s, b, "BOGUS_DOCTYPE", TRUE, empty)
      /\ PartFrame(s, g, "BOGUS_DOCTYPE", TRUE, empty)
  BY <1>1, <1>2, PartOps
<1> HIDE DEF d, u, v, w, b, g
<1>4. /\ Kept(Advanced(emit_doctype(d))) /\ Kept(Advanced(emit_doctype(u)))
      /\ Kept(Advanced(emit_doctype(v))) /\ Kept(Advanced(emit_doctype(w)))
  BY <1>1, <1>3, DoctypeEmitted
<1>5. Kept(Advanced(b)) /\ Kept(Advanced(g))
  BY <1>1, <1>3, DoctypeKept DEF Doctypes, Unused
<1>6. s.state \notin Unused =>
        \A word : /\ Kept(Advanced(append_to_temporary_buffer(x, word)))
                  /\ Kept(Advanced(append_to_temporary_buffer(e, word)))
  <2>1. \A word : /\ PartFrame(s, append_to_temporary_buffer(x, word), s.state, FALSE, FALSE)
                  /\ PartFrame(s, append_to_temporary_buffer(e, word), s.state, FALSE, FALSE)
    BY <1>1, <1>2, PartOps
  <2>2. QED BY <1>1, <2>1, DoctypeKept
<1>7. \A word : Kept(Advanced(DoctypeName(x, word))) /\ Kept(Advanced(DoctypeName(e, word)))
  <2> DEFINE y == gumbo_tokenizer_set_state(x, "DOCTYPE_NAME")
             z == gumbo_tokenizer_set_state(e, "DOCTYPE_NAME")
  <2>1. PartFrame(s, y, "DOCTYPE_NAME", FALSE, empty) /\ PartFrame(s, z, "DOCTYPE_NAME", FALSE, empty)
    BY <1>1, <1>2, PartOps
  <2> HIDE DEF y, z
  <2>2. \A word : /\ PartFrame(s, append_to_temporary_buffer(y, word), "DOCTYPE_NAME", FALSE, FALSE)
                  /\ PartFrame(s, append_to_temporary_buffer(z, word), "DOCTYPE_NAME", FALSE, FALSE)
    BY <2>1, PartOps
  <2>3. "DOCTYPE_NAME" \in Doctypes /\ "DOCTYPE_NAME" \notin Unused
    BY DEF Doctypes, Unused
  <2>4. \A word : /\ Kept(Advanced(append_to_temporary_buffer(y, word)))
                  /\ Kept(Advanced(append_to_temporary_buffer(z, word)))
    BY <1>1, <2>2, <2>3, DoctypeKept
  <2>5. QED BY <2>4 DEF DoctypeName, y, z
<1>8. ASSUME NEW next \in Doctypes, next \notin Unused \/ empty
      PROVE  /\ Kept(Advanced(gumbo_tokenizer_set_state(x, next)))
             /\ Kept(Advanced(reconsume_in_state(x, next)))
             /\ Kept(Advanced(reconsume_in_state(e, next)))
  <2>1. /\ PartFrame(s, gumbo_tokenizer_set_state(x, next), next, FALSE, empty)
        /\ PartFrame(s, reconsume_in_state(x, next), next, TRUE, empty)
        /\ PartFrame(s, reconsume_in_state(e, next), next, TRUE, empty)
    BY <1>1, <1>2, PartOps
  <2>2. QED BY <1>1, <1>8, <2>1, DoctypeKept
<1>9. QED BY <1>4, <1>5, <1>6, <1>7, <1>8
          DEF DoctypeDone, EofInDoctype, BogusDoctype, d, u, v, w, b, g, q, e

\* the terms of the handlers in which a string of the doctype ends
LEMMA StringTerms ==
  ASSUME NEW s, Ready(s), s.state \in Doctypes
  PROVE  /\ Kept(Advanced(DoctypeDone(finish_doctype_name(s))))
         /\ Kept(Advanced(EofInDoctype(finish_doctype_name(s))))
         /\ Kept(Advanced(DoctypeDone(finish_doctype_public_id(Quirks(s)))))
         /\ Kept(Advanced(EofInDoctype(finish_doctype_public_id(s))))
         /\ Kept(Advanced(DoctypeDone(finish_doctype_system_id(Quirks(s)))))
         /\ Kept(Advanced(EofInDoctype(finish_doctype_system_id(s))))
         /\ \A next \in Doctypes :
              /\ Kept(Advanced(finish_doctype_name(gumbo_tokenizer_set_state(s, next))))
              /\ Kept(Advanced(finish_doctype_public_id(gumbo_tokenizer_set_state(s, next))))
              /\ Kept(Advanced(finish_doctype_system_id(gumbo_tokenizer_set_state(s, next))))
<1> DEFINE q == Quirks(s)
           n == finish_doctype_name(s)
           p == finish_doctype_public_id(s)
           i == finish_doctype_system_id(s)
           u == finish_doctype_public_id(q)
           v == finish_doctype_system_id(q)
<1>1. PartFrame(s, s, s.state, FALSE, FALSE) /\ s.doctype.owned
  BY ReadyDoctype
<1>2. PartFrame(s, q, s.state, FALSE, FALSE)
  BY <1>1, QuirksFrame
<1> HIDE DEF q
<1>3. /\ PartFrame(s, n, s.state, FALSE, TRUE) /\ PartFrame(s, p, s.state, FALSE, TRUE)
      /\ PartFrame(s, i, s.state, FALSE, TRUE) /\ PartFrame(s, u, s.state, FALSE, TRUE)
      /\ PartFrame(s, v, s.state, FALSE, TRUE)
  BY <1>1, <1>2, FinishFrame
<1> HIDE DEF n, p, i, u, v
<1>4. /\ Kept(Advanced(DoctypeDone(n))) /\ Kept(Advanced(EofInDoctype(n)))
      /\ Kept(Advanced(DoctypeDone(u))) /\ Kept(Advanced(EofInDoctype(p)))
      /\ Kept(Advanced(DoctypeDone(v))) /\ Kept(Advanced(EofInDoctype(i)))
  BY <1>3, DoctypeTerms
<1>5. ASSUME NEW next \in Doctypes
      PROVE  /\ Kept(Advanced(finish_doctype_name(gumbo_tokenizer_set_state(s, next))))
             /\ Kept(Advanced(finish_doctype_public_id(gumbo_tokenizer_set_state(s, next))))
             /\ Kept(Advanced(finish_doctype_system_id(gumbo_tokenizer_set_state(s, next))))
  <2> DEFINE x == gumbo_tokenizer_set_state(s, next)
  <2>1. PartFrame(s, x, next, FALSE, FALSE)
    BY <1>1, PartOps
  <2> HIDE DEF x
  <2>2. /\ PartFrame(s, finish_doctype_name(x), next, FALSE, TRUE)
        /\ PartFrame(s, finish_doctype_public_id(x), next, FALSE, TRUE)
        /\ PartFrame(s, finish_doctype_system_id(x), next, FALSE, TRUE)
    BY <1>1, <2>1, FinishFrame
  <2>3. QED BY <1>5, <2>2, DoctypeKept DEF x
<1>6. QED BY <1>4, <1>5 DEF n, p, i, u, v, q

\* a word of the doctype is passed over
LEMMA KeywordKept ==
  ASSUME NEW s, Ready(s), s.state \in Doctypes \cap Unused, Current(s) # EOF,
         NEW state \in Doctypes
  PROVE  Kept(Advanced(reconsume_in_state(Advance(s, 1), state)))
<1> DEFINE x == Advance(s, 1)
           r == reconsume_in_state(x, state)
<1>1. /\ s.tag.open = FALSE /\ s.tag.listed = FALSE /\ s.doctype.owned /\ s.tmp = <<>>
      /\ text \in Seq(Symbols) /\ Places(s) /\ Shape(s)
  BY ReadyDoctype
<1>2. s.pos + 1 \in s.pos .. Len(text) + 1
  BY <1>1 DEF Current, Places
<1>3. Further(s, s, s.pos)
  BY <1>1 DEF Further
<1>4. Further(s, x, s.pos + 1) /\ x.tmp = s.tmp /\ x.doctype = s.doctype
  BY <1>3, AdvanceFurther
<1> HIDE DEF x
<1>5. /\ Further(s, r, s.pos + 1) /\ r.tmp = x.tmp /\ r.state = state /\ r.reconsume = TRUE
      /\ r.doctype = x.doctype
  BY <1>4, ReconsumeFurther
<1> HIDE DEF r
<1>6. CanEmit(r) /\ r.emitted = FALSE /\ r.resume = 0 /\ r.buffered = NoChar
  BY <1>2, <1>5, FurtherCan
<1>7. r.tag.open = FALSE /\ r.tag.listed = FALSE /\ r.doctype.owned /\ r.tmp = <<>>
  BY <1>1, <1>4, <1>5 DEF Further
<1>8. r.state \notin InComment
  BY <1>5, NoComments
<1>9. QED BY <1>1, <1>5, <1>6, <1>7, <1>8, PartKept DEF r, x

\* Before an identifier the temporary buffer is empty, as the assertion demands.
LEMMA IdExpectedKept ==
  ASSUME NEW s, Ready(s), s.state \in Doctypes \cap Unused, NEW tight \in BOOLEAN, NEW c,
         NEW spaceState \in Doctypes, NEW doubleQuoted \in Doctypes, NEW singleQuoted \in Doctypes
  PROVE  Kept(Advanced(IdExpected(s, c, tight, spaceState, doubleQuoted, singleQuoted)))
<1> DEFINE x == IF tight THEN tokenizer_add_parse_error(s) ELSE s
<1>1. PartFrame(s, s, s.state, FALSE, TRUE)
  BY ReadyDoctype
<1>2. PartFrame(s, x, s.state, FALSE, TRUE)
  BY <1>1, PartOps
<1> HIDE DEF x
<1>3. \A state \in Doctypes : Kept(Advanced(Quoted(x, state)))
  <2>1. x.tmp = <<>>
    BY <1>2 DEF PartFrame
  <2>2. assert(x, temporary_buffer_is_empty(x)) = x
    BY <2>1 DEF assert, temporary_buffer_is_empty
  <2>3. \A state \in Doctypes : Kept(Advanced(gumbo_tokenizer_set_state(x, state)))
    BY <1>2, DoctypeTerms
  <2>4. QED BY <2>2, <2>3 DEF Quoted
<1>4. /\ Kept(Advanced(gumbo_tokenizer_set_state(s, spaceState)))
      /\ Kept(Advanced(DoctypeDone(Quirks(s)))) /\ Kept(Advanced(EofInDoctype(s)))
      /\ Kept(Advanced(BogusDoctype(s)))
  BY <1>1, DoctypeTerms
<1>5. QED BY <1>3, <1>4 DEF IdExpected, x

\* The states of doctypes.
LEMMA LexDoctypeKept ==
  ASSUME NEW s, Ready(s), s.state \in Doctypes
  PROVE  Kept(Advanced(LexDoctype(s, Current(s))))
<1> DEFINE c == Current(s)
           r == LexDoctype(s, c)
           empty == s.state \in Unused
           next(state) == /\ Kept(Advanced(gumbo_tokenizer_set_state(s, state)))
                          /\ Kept(Advanced(reconsume_in_state(s, state)))
                          /\ Kept(Advanced(reconsume_in_state(tokenizer_add_parse_error(s), state)))
<1>1. PartFrame(s, s, s.state, FALSE, empty) /\ (empty => s.tmp = <<>>)
  BY ReadyDoctype DEF PartFrame
<1>2. Kept(Advanced(s))
  BY <1>1, DoctypeKept
<1>3. /\ Kept(Advanced(DoctypeDone(s))) /\ Kept(Advanced(DoctypeDone(Quirks(s))))
      /\ Kept(Advanced(EofInDoctype(s)))
      /\ Kept(Advanced(emit_doctype(reconsume_in_state(s, "DATA"))))
      /\ Kept(Advanced(BogusDoctype(s)))
      /\ Kept(Advanced(reconsume_in_state(tokenizer_add_parse_error(s), "BOGUS_DOCTYPE")))
      /\ \A word : /\ Kept(Advanced(DoctypeName(s, word)))
                   /\ Kept(Advanced(DoctypeName(tokenizer_add_parse_error(s), word)))
  BY <1>1, DoctypeTerms
<1>4. ~empty => \A word : /\ Kept(Advanced(append_to_temporary_buffer(s, word)))
                          /\ Kept(Advanced(append_to_temporary_buffer(
                                             tokenizer_add_parse_error(s), word)))
  BY <1>1, DoctypeTerms
<1>5. empty => \A state \in Doctypes : next(state)
  BY <1>1, DoctypeTerms
<1>6. \A state \in Doctypes :
        /\ Kept(Advanced(finish_doctype_name(gumbo_tokenizer_set_state(s, state))))
        /\ Kept(Advanced(finish_doctype_public_id(gumbo_tokenizer_set_state(s, state))))
        /\ Kept(Advanced(finish_doctype_system_id(gumbo_tokenizer_set_state(s, state))))
  BY StringTerms
<1>7. empty /\ c # EOF => \A state \in Doctypes :
        Kept(Advanced(reconsume_in_state(Advance(s, 1), state)))
  BY KeywordKept
<1>8. empty => \A tight \in BOOLEAN : \A spaceState, doubleQuoted, singleQuoted \in Doctypes :
        Kept(Advanced(IdExpected(s, c, tight, spaceState, doubleQuoted, singleQuoted)))
  BY IdExpectedKept
<1>9. {"BEFORE_DOCTYPE_NAME", "AFTER_DOCTYPE_NAME", "AFTER_DOCTYPE_PUBLIC_KEYWORD",
       "AFTER_DOCTYPE_SYSTEM_KEYWORD", "BEFORE_DOCTYPE_PUBLIC_ID", "BEFORE_DOCTYPE_SYSTEM_ID",
       "BETWEEN_DOCTYPE_PUBLIC_SYSTEM_ID", "AFTER_DOCTYPE_PUBLIC_ID", "AFTER_DOCTYPE_SYSTEM_ID",
       "DOCTYPE_PUBLIC_ID_DOUBLE_QUOTED", "DOCTYPE_PUBLIC_ID_SINGLE_QUOTED",
       "DOCTYPE_SYSTEM_ID_DOUBLE_QUOTED", "DOCTYPE_SYSTEM_ID_SINGLE_QUOTED"} \subseteq Doctypes
  BY DEF Doctypes
<1> HIDE DEF c, r, empty
<1>10. CASE s.state = "DOCTYPE"
  <2>1. empty
    BY <1>10 DEF empty, Unused
  <2>2. assert(s, temporary_buffer_is_empty(s)) = s
    BY <1>1, <2>1 DEF assert, temporary_buffer_is_empty
  <2>3. Kept(Advanced(DoctypeEntered(s, c)))
    BY <1>3, <1>5, <1>9, <2>1 DEF DoctypeEntered
  <2>4. Kept(Advanced(handle_doctype_state(s, c)))
    BY <2>2, <2>3 DEF handle_doctype_state
  <2>5. QED BY <1>10, <2>4 DEF LexDoctype, c
<1>11. CASE s.state = "BEFORE_DOCTYPE_NAME"
  <2>1. Kept(Advanced(handle_before_doctype_name_state(s, c)))
    BY <1>2, <1>3 DEF handle_before_doctype_name_state
  <2>2. QED BY <1>11, <2>1 DEF LexDoctype, c
<1>12. CASE s.state = "DOCTYPE_NAME"
  <2>1. ~empty
    BY <1>12 DEF empty, Unused
  <2>2. Kept(Advanced(handle_doctype_name_state(s, c)))
    BY <1>4, <1>6, <1>9, <2>1, StringTerms DEF handle_doctype_name_state
  <2>3. QED BY <1>12, <2>2 DEF LexDoctype, c
<1>13. CASE s.state = "AFTER_DOCTYPE_NAME"
  <2>1. empty
    BY <1>13 DEF empty, Unused
  <2>2. Kept(Advanced(handle_after_doctype_name_state(s, c)))
    BY <1>2, <1>3, <1>7, <1>9, <2>1 DEF handle_after_doctype_name_state, EOF
  <2>3. QED BY <1>13, <2>2 DEF LexDoctype, c
<1>14. ASSUME empty
       PROVE  /\ Kept(Advanced(handle_after_doctype_public_keyword_state(s, c)))
              /\ Kept(Advanced(handle_before_doctype_public_id_state(s, c)))
              /\ Kept(Advanced(handle_after_doctype_system_keyword_state(s, c)))
              /\ Kept(Advanced(handle_before_doctype_system_id_state(s, c)))
              /\ Kept(Advanced(handle_after_doctype_public_id_state(s, c)))
              /\ Kept(Advanced(handle_between_doctype_public_system_id_state(s, c)))
  BY <1>3, <1>8, <1>9, <1>14
     DEF handle_after_doctype_public_keyword_state, handle_before_doctype_public_id_state,
         handle_after_doctype_system_keyword_state, handle_before_doctype_system_id_state,
         handle_after_doctype_public_id_state, handle_between_doctype_public_system_id_state
<1>15. CASE s.state \in {"AFTER_DOCTYPE_PUBLIC_KEYWORD", "BEFORE_DOCTYPE_PUBLIC_ID",
                         "AFTER_DOCTYPE_PUBLIC_ID", "BETWEEN_DOCTYPE_PUBLIC_SYSTEM_ID",
                         "AFTER_DOCTYPE_SYSTEM_KEYWORD", "BEFORE_DOCTYPE_SYSTEM_ID"}
  <2>1. empty
    BY <1>15 DEF empty, Unused
  <2>2. QED BY <1>14, <1>15, <2>1 DEF LexDoctype, c
<1>16. ASSUME ~empty, NEW quote
       PROVE  /\ Kept(Advanced(handle_doctype_public_id_quoted_state(s, c, quote)))
              /\ Kept(Advanced(handle_doctype_system_id_quoted_state(s, c, quote)))
  BY <1>4, <1>6, <1>9, <1>16, StringTerms
     DEF handle_doctype_public_id_quoted_state, handle_doctype_system_id_quoted_state
<1>17. CASE s.state \in {"DOCTYPE_PUBLIC_ID_DOUBLE_QUOTED", "DOCTYPE_PUBLIC_ID_SINGLE_QUOTED",
                         "DOCTYPE_SYSTEM_ID_DOUBLE_QUOTED", "DOCTYPE_SYSTEM_ID_SINGLE_QUOTED"}
  <2>1. ~empty
    BY <1>17 DEF empty, Unused
  <2>2. QED BY <1>16, <1>17, <2>1 DEF LexDoctype, c
<1>18. CASE s.state = "AFTER_DOCTYPE_SYSTEM_ID"
  <2>1. Kept(Advanced(handle_after_doctype_system_id_state(s, c)))
    BY <1>2, <1>3 DEF handle_after_doctype_system_id_state
  <2>2. QED BY <1>18, <2>1 DEF LexDoctype, c
<1>19. CASE s.state = "BOGUS_DOCTYPE"
  <2>1. Kept(Advanced(tokenizer_add_parse_error(s)))
    BY <1>1, PartOps, DoctypeKept DEF empty
  <2>2. Kept(Advanced(handle_bogus_doctype_state(s, c)))
    BY <1>2, <1>3, <2>1 DEF handle_bogus_doctype_state
  <2>3. QED BY <1>19, <2>2 DEF LexDoctype, c
<1>20. QED BY <1>10, <1>11, <1>12, <1>13, <1>15, <1>17, <1>18, <1>19 DEF Doctypes

(* --------------------------- Character references -------------------------- *)

\* Induction over the numbers up to n, with a set for the induction hypothesis.
LEMMA CountingUp ==
  ASSUME NEW n \in Nat, NEW T, 0 \in T, \A i \in 1 .. n : i - 1 \in T => i \in T
  PROVE  0 .. n \subseteq T
<1>1. SUFFICES ASSUME (0 .. n) \ T # {} PROVE FALSE
  OBVIOUS
<1> DEFINE R == OpToRel(<, Nat)
<1>2. IsWellFoundedOn(R, Nat)
  BY NatLessThanWellFounded
<1>3. \A x, y \in Nat : x < y => <<x, y>> \in R
  BY DEF OpToRel
<1> HIDE DEF R
<1>4. PICK x \in (0 .. n) \ T : \A y \in (0 .. n) \ T : ~ (<<y, x>> \in R)
  <2>1. (0 .. n) \ T \subseteq Nat
    OBVIOUS
  <2>2. QED BY <1>1, <1>2, <2>1, WFMin
<1>5. x \in 1 .. n /\ x - 1 \in 0 .. n /\ x - 1 \in Nat /\ x - 1 < x
  BY <1>4, SMTT(20)
<1>6. x - 1 \notin T
  BY <1>4, <1>5
<1>7. x - 1 \in (0 .. n) \ T
  BY <1>5, <1>6
<1>8. <<x - 1, x>> \in R
  BY <1>3, <1>5
<1>9. QED BY <1>4, <1>7, <1>8

Codes == 0 .. MaxChar + 1

\* The code of a reference is cut at one above the largest character.
LEMMA AddDigitIs ==
  ASSUME NEW code \in Codes, NEW base \in {10, 16}, NEW digit \in Nat
  PROVE  AddDigit(code, base, digit) \in Codes
<1>1. PICK sum : sum = code * base + digit
  OBVIOUS
<1>2. MaxChar \in Nat
  BY DEF MaxChar
<1>3. code \in Nat
  BY <1>2 DEF Codes
<1>4. code * base \in Nat
  <2>1. CASE base = 10
    BY <1>3, <2>1
  <2>2. CASE base = 16
    BY <1>3, <2>2
  <2>3. QED BY <2>1, <2>2
<1>5. sum \in Nat
  BY <1>1, <1>4
<1>6. (IF sum > MaxChar THEN MaxChar + 1 ELSE sum) \in 0 .. MaxChar + 1
  BY <1>2, <1>5
<1>7. QED BY <1>1, <1>6 DEF AddDigit, Codes

\* The number of a reference saturates above the largest code point.
LEMMA AddDigitsIs ==
  ASSUME NEW code \in Codes, NEW base \in {10, 16}, NEW digits \in Seq(Nat)
  PROVE  AddDigits(code, base, digits) \in Codes
<1> DEFINE Def(e, m) == e = [i \in 0 .. m |->
                               IF i = 0 THEN code ELSE AddDigit(e[i - 1], base, digits[i])]
           n == Len(digits)
           T == {m \in 0 .. n : \E e : Def(e, m)}
<1>1. n \in Nat /\ \A i \in 1 .. n : digits[i] \in Nat
  OBVIOUS
<1>2. 0 \in T
  <2> DEFINE e == [i \in 0 .. 0 |-> code]
  <2>1. e = [i \in 0 .. 0 |-> IF i = 0 THEN code ELSE AddDigit(e[i - 1], base, digits[i])]
    OBVIOUS
  <2>2. Def(e, 0)
    BY <2>1
  <2> HIDE DEF e, Def
  <2>3. 0 \in 0 .. n /\ \E g : Def(g, 0)
    BY <2>2, <1>1
  <2>4. QED BY <2>3
<1>3. ASSUME NEW m \in 1 .. n, m - 1 \in T PROVE m \in T
  <2>1. PICK e : Def(e, m - 1)
    BY <1>3
  <2> DEFINE last == AddDigit(e[m - 1], base, digits[m])
             g == [i \in 0 .. m |-> IF i = m THEN last ELSE e[i]]
  <2>2. \A i \in 0 .. m - 1 : g[i] = e[i]
    BY <1>1
  <2>3. g[m] = last
    BY <1>1
  <2> HIDE DEF last
  <2>4. \A i \in 0 .. m : g[i] = IF i = 0 THEN code ELSE AddDigit(g[i - 1], base, digits[i])
    <3>1. SUFFICES ASSUME NEW i \in 0 .. m
          PROVE g[i] = IF i = 0 THEN code ELSE AddDigit(g[i - 1], base, digits[i])
      OBVIOUS
    <3> HIDE DEF g
    <3>2. CASE i = m
      <4>1. m - 1 \in 0 .. m - 1
        BY <1>1
      <4>2. g[m - 1] = e[m - 1] /\ m # 0
        BY <4>1, <2>2
      <4>3. QED BY <2>3, <3>2, <4>2 DEF last
    <3>3. CASE i # m
      <4>1. i \in 0 .. m - 1 /\ (i # 0 => i - 1 \in 0 .. m - 1)
        BY <3>3
      <4>2. g[i] = e[i] /\ (i # 0 => g[i - 1] = e[i - 1])
        BY <2>2, <4>1
      <4>3. e[i] = IF i = 0 THEN code ELSE AddDigit(e[i - 1], base, digits[i])
        BY <2>1, <4>1
      <4>4. QED BY <4>2, <4>3
    <3>4. QED BY <3>2, <3>3
  <2>5. Def(g, m)
    <3>1. g = [i \in 0 .. m |-> g[i]]
      OBVIOUS
    <3> HIDE DEF g
    <3>2. QED BY <2>4, <3>1
  <2>6. m \in 0 .. n /\ \E h : Def(h, m)
    <3> HIDE DEF g, Def
    <3>1. QED BY <2>5, <1>1
  <2>7. QED BY <2>6
<1>4. PICK w : Def(w, n)
  <2>1. \A i \in 1 .. n : i - 1 \in T => i \in T
    BY <1>3
  <2> HIDE DEF T
  <2>2. 0 .. n \subseteq T
    BY <1>1, <1>2, <2>1, CountingUp
  <2>3. n \in T
    BY <1>1, <2>2
  <2>4. QED BY <2>3 DEF T
<1> DEFINE e == CHOOSE e : Def(e, n)
<1>5. Def(e, n)
  BY <1>4
<1>6. AddDigits(code, base, digits) = e[n]
  BY DEF AddDigits
<1>7. \A i \in 0 .. n : e[i] = IF i = 0 THEN code ELSE AddDigit(e[i - 1], base, digits[i])
  BY <1>5
<1> HIDE DEF e, Def, T
<1> DEFINE U == {m \in 0 .. n : e[m] \in Codes}
<1>8. 0 \in U
  BY <1>1, <1>7
<1>9. ASSUME NEW i \in 1 .. n, i - 1 \in U PROVE i \in U
  <2>1. e[i] = AddDigit(e[i - 1], base, digits[i]) /\ e[i - 1] \in Codes /\ digits[i] \in Nat
    BY <1>1, <1>7, <1>9
  <2>2. e[i] \in Codes
    BY <2>1, AddDigitIs
  <2>3. QED BY <1>1, <2>2
<1>10. n \in U
  <2> HIDE DEF U
  <2>1. 0 .. n \subseteq U
    BY <1>1, <1>8, <1>9, CountingUp
  <2>2. QED BY <1>1, <2>1
<1>11. QED BY <1>6, <1>10

\* A digit is a digit in its own base or none.
LEMMA DigitsAre == \A c \in HexDigits : DigitsOf(c) \in Seq(Nat)
<1>1. \A c \in {"0", "9", "31", "65", "128"} : DigitsOf(c) \in Seq(Nat)
  BY SMT DEF DigitsOf
<1>2. DigitsOf("55296") \in Seq(Nat)
  BY SMT DEF DigitsOf
<1>3. DigitsOf("1114112") \in Seq(Nat)
  BY SMT DEF DigitsOf
<1>4. DigitsOf("11111111111") \in Seq(Nat)
  BY SMT DEF DigitsOf
<1>5. \A c \in {"a", "A", "b"} : DigitsOf(c) \in Seq(Nat)
  BY SMT DEF DigitsOf
<1>6. QED BY <1>1, <1>2, <1>3, <1>4, <1>5 DEF HexDigits, Digits

\* what an ampersand may begin
Refers == References \ {"AMBIGUOUS_AMPERSAND"}

InText(s) == s.return \in {"DATA", "RCDATA"}

\* A reference is read in text, from its mark, or in the value of an attribute.
LEMMA ReadyReference ==
  \A s : Ready(s) /\ s.state \in References =>
    /\ Kept(s) /\ Shape(s) /\ Places(s) /\ text \in Seq(Symbols) /\ s.reconsume = FALSE
    /\ s.doctype.owned = FALSE /\ Frame(s, s)
    /\ InText(s) \/ s.return \in InValue
    /\ s.return \in InValue => InTag(s) /\ Valued(s.tag) /\ TagFrame(s, s, s.state, FALSE, TRUE)
    /\ InText(s) => ~InTag(s) /\ Closed(s) /\ s.return \in Plain /\ s.return \notin InValue
    /\ InText(s) /\ s.state \in Refers => MarkedAt(s, "&")
<1>1. SUFFICES ASSUME NEW s, Ready(s), s.state \in References
      PROVE  /\ Kept(s) /\ Shape(s) /\ Places(s) /\ text \in Seq(Symbols) /\ s.reconsume = FALSE
             /\ s.doctype.owned = FALSE /\ Frame(s, s)
             /\ InText(s) \/ s.return \in InValue
             /\ s.return \in InValue =>
                  InTag(s) /\ Valued(s.tag) /\ TagFrame(s, s, s.state, FALSE, TRUE)
             /\ InText(s) => ~InTag(s) /\ Closed(s) /\ s.return \in Plain /\ s.return \notin InValue
             /\ InText(s) /\ s.state \in Refers => MarkedAt(s, "&")
  OBVIOUS
<1>2. /\ Kept(s) /\ Shape(s) /\ Places(s) /\ text \in Seq(Symbols) /\ s.reconsume = FALSE
      /\ s.emitted = FALSE /\ Owns(s) /\ Clean(s) /\ Stands(s) /\ Frame(s, s)
  BY <1>1, FrameSelf DEF Ready, Kept
<1>3. s.state \notin Doctypes \cup BuildsTag
  BY <1>1 DEF References, Doctypes, BuildsTag, Attributes
<1>4. s.doctype.owned = FALSE
  BY <1>2, <1>3 DEF Owns, Kept
<1>5. InText(s) \/ s.return \in InValue
  BY <1>2 DEF Kept, InText
<1>6. InText(s) => s.return \in Plain /\ s.return \notin InValue
  BY DEF InText, Plain, Texts, InValue
<1>7. InTag(s) <=> s.return \in InValue
  BY <1>1, <1>3 DEF InTag
<1>8. s.return \in InValue => Valued(s.tag) /\ TagFrame(s, s, s.state, FALSE, TRUE)
  BY <1>1, <1>2, <1>7 DEF Clean, ReadsValue, Owns, TagFrame
<1>9. InText(s) => Closed(s)
  BY <1>2, <1>3, <1>6, <1>7, <1>1, ReadyClosed
<1>10. InText(s) /\ s.state \in Refers => MarkedAt(s, "&")
  BY <1>2, <1>6, <1>7 DEF Stands, Refers
<1>11. QED BY <1>2, <1>4, <1>5, <1>6, <1>7, <1>8, <1>9, <1>10

\* in a value, the reference goes on or the value does
LEMMA ValueGoes ==
  \A s, r, state, reconsume :
    /\ Ready(s) /\ s.state \in References /\ s.return \in InValue
    /\ TagFrame(s, r, state, reconsume, TRUE) /\ reconsume \in BOOLEAN
    /\ state \in References \cup InValue
    => Kept(Advanced(r))
<1>1. SUFFICES ASSUME NEW s, NEW r, NEW state \in References \cup InValue, NEW reconsume \in BOOLEAN,
                      Ready(s), s.state \in References, s.return \in InValue,
                      TagFrame(s, r, state, reconsume, TRUE)
      PROVE  Kept(Advanced(r))
  OBVIOUS
<1>2. InTag(s)
  BY <1>1, ReadyReference
<1>3. CASE state \in InValue
  <2>1. state \in BuildsTag /\ state \notin NamesEndTag /\ state # "AFTER_ATTR_NAME"
    BY <1>3 DEF InValue, BuildsTag, Attributes, NamesEndTag
  <2>2. QED BY <1>1, <1>2, <2>1, TagKept
<1>4. CASE state \in References
  <2> DEFINE n == Advanced(r)
  <2>1. /\ ~s.doctype.owned /\ text[s.start] = "<" /\ s.start < s.pos /\ Places(s)
        /\ text \in Seq(Symbols)
    BY <1>1, <1>2, ReadyTag
  <2>2. CanEmit(r) /\ r.emitted = FALSE /\ r.resume = 0 /\ r.buffered = NoChar
    BY <1>1, FrameCan DEF TagFrame
  <2>3. Moved(r, n) /\ n.pos \in s.pos .. Len(text) + 1 /\ n.start = s.start
    BY <1>1, <2>1, <2>2, AdvanceIs DEF CanEmit, Moved, Behind, Frame, TagFrame, Places
  <2> HIDE DEF n
  <2>4. r.state = state /\ r.return = s.return /\ r.tag.open /\ r.tag.open = r.tag.listed
        /\ ~r.doctype.owned /\ Valued(r.tag)
    BY <1>1, <2>1 DEF TagFrame, Frame
  <2>5. r.state \notin Plain \cup Doctypes \cup Unused \cup MayBeText
        /\ r.state \notin {"TAG_OPEN", "END_TAG_OPEN", "MARKUP_DECLARATION_OPEN", "AFTER_ATTR_NAME",
                           "CDATA_SECTION_BRACKET", "CDATA_SECTION_END"}
    BY <1>4, <2>4 DEF References, Plain, Texts, Doctypes, Unused, MayBeText, NamesEndTag
  <2>6. InTag(r) /\ InTag(n) /\ n.state = r.state /\ n.tag = r.tag
    BY <1>1, <1>4, <2>3, <2>4 DEF InTag, Moved
  <2>7. Owns(r)
    BY <2>2, <2>4, <2>5, <2>6 DEF Owns
  <2>8. Clean(n)
    BY <2>4, <2>5, <2>6 DEF Clean
  <2>9. text[n.start] = "<" /\ n.start < n.pos
    BY <2>1, <2>3 DEF Places
  <2>10. Stands(n)
    BY <1>1, <1>4, <2>4, <2>5, <2>6, <2>9, NoComments DEF Stands
  <2>11. r.state \in AllStates
    BY <1>4, <2>4 DEF AllStates
  <2>12. QED BY <2>1, <2>2, <2>7, <2>8, <2>10, <2>11, QuietKept DEF n
<1>5. QED BY <1>3, <1>4

\* what a reference leaves alone
RefersFrame(s, r, state, reconsume) ==
  Frame(s, r) /\ r.state = state /\ r.reconsume = reconsume /\ r.tag = s.tag

\* Each operation keeps what a handler of references has to keep.
LEMMA RefersOps ==
  \A z, x, state, reconsume : RefersFrame(z, x, state, reconsume) =>
    /\ RefersFrame(z, tokenizer_add_parse_error(x), state, reconsume)
    /\ \A next : /\ RefersFrame(z, gumbo_tokenizer_set_state(x, next), next, reconsume)
                 /\ RefersFrame(z, reconsume_in_state(x, next), next, TRUE)
    /\ \A word : RefersFrame(z, append_to_temporary_buffer(x, word), state, reconsume)
<1>1. SUFFICES ASSUME NEW z, NEW x, NEW state, NEW reconsume, RefersFrame(z, x, state, reconsume)
      PROVE
    /\ RefersFrame(z, tokenizer_add_parse_error(x), state, reconsume)
    /\ \A next : /\ RefersFrame(z, gumbo_tokenizer_set_state(x, next), next, reconsume)
                 /\ RefersFrame(z, reconsume_in_state(x, next), next, TRUE)
    /\ \A word : RefersFrame(z, append_to_temporary_buffer(x, word), state, reconsume)
  OBVIOUS
<1>2. PartFrame(z, x, state, reconsume, FALSE)
  BY <1>1 DEF RefersFrame, PartFrame
<1>3. /\ PartFrame(z, tokenizer_add_parse_error(x), state, reconsume, FALSE)
      /\ \A next : /\ PartFrame(z, gumbo_tokenizer_set_state(x, next), next, reconsume, FALSE)
                   /\ PartFrame(z, reconsume_in_state(x, next), next, TRUE, FALSE)
      /\ \A word : PartFrame(z, append_to_temporary_buffer(x, word), state, reconsume, FALSE)
  BY <1>2, PartOps
<1>4. QED BY <1>3 DEF RefersFrame, PartFrame

\* the reference goes on
LEMMA ReferenceGoes ==
  \A s, r, state, reconsume :
    /\ Ready(s) /\ s.state \in Refers /\ RefersFrame(s, r, state, reconsume)
    /\ reconsume \in BOOLEAN /\ state \in Refers
    => Kept(Advanced(r))
<1>1. SUFFICES ASSUME NEW s, NEW r, NEW state \in Refers, NEW reconsume \in BOOLEAN,
                      Ready(s), s.state \in Refers, RefersFrame(s, r, state, reconsume)
      PROVE  Kept(Advanced(r))
  OBVIOUS
<1>2. s.state \in References /\ state \in References
  BY <1>1 DEF Refers
<1>3. CASE s.return \in InValue
  <2>1. TagFrame(s, r, state, reconsume, TRUE)
    BY <1>1, <1>2, <1>3, ReadyReference DEF RefersFrame, TagFrame
  <2>2. QED BY <1>1, <1>2, <1>3, <2>1, ValueGoes
<1>4. CASE InText(s)
  <2> DEFINE n == Advanced(r)
  <2>1. /\ Places(s) /\ text \in Seq(Symbols) /\ Closed(s) /\ MarkedAt(s, "&")
        /\ s.return \notin InValue
    BY <1>1, <1>2, <1>4, ReadyReference
  <2>2. CanEmit(r) /\ r.emitted = FALSE /\ r.resume = 0 /\ r.buffered = NoChar
    BY <1>1, FrameCan DEF RefersFrame
  <2>3. Moved(r, n) /\ n.pos \in s.pos .. Len(text) + 1 /\ n.start = s.start /\ n.mark = s.mark
    BY <1>1, <2>1, <2>2, AdvanceIs DEF CanEmit, Moved, Behind, Frame, RefersFrame, Places
  <2> HIDE DEF n
  <2>4. r.state = state /\ r.return = s.return /\ Closed(r)
    BY <1>1, <2>1 DEF RefersFrame, Frame, Closed
  <2>5. r.state \notin Plain \cup Doctypes \cup Unused \cup MayBeText \cup BuildsTag \cup Values
        /\ r.state \notin {"TAG_OPEN", "END_TAG_OPEN", "MARKUP_DECLARATION_OPEN", "AFTER_ATTR_NAME",
                           "CDATA_SECTION_BRACKET", "CDATA_SECTION_END", "AMBIGUOUS_AMPERSAND"}
    BY <2>4, <1>1 DEF Refers, References, Plain, Texts, Doctypes, Unused, MayBeText, NamesEndTag,
                      BuildsTag, Attributes, Values, InValue
  <2>6. ~InTag(r) /\ ~InTag(n) /\ ~ReadsValue(n) /\ n.state = r.state
    BY <2>1, <2>3, <2>4, <2>5 DEF InTag, Moved, ReadsValue, Values
  <2>7. Owns(r)
    BY <2>2, <2>4, <2>5, <2>6 DEF Owns, Closed
  <2>8. Clean(n)
    BY <2>5, <2>6 DEF Clean
  <2>9. MarkedAt(n, "&")
    BY <2>1, <2>3 DEF MarkedAt, Places
  <2>10. Stands(n)
    <3>1. r.state \notin InComment
      BY <1>1, <2>4, NoComments DEF Refers
    <3>2. QED BY <2>5, <2>6, <2>9, <3>1 DEF Stands
  <2>11. r.state \in AllStates
    BY <1>2, <2>4 DEF AllStates
  <2>12. QED BY <2>1, <2>2, <2>7, <2>8, <2>10, <2>11, QuietKept DEF n
<1>5. QED BY <1>1, <1>2, <1>3, <1>4, ReadyReference

\* The number of a reference, and the place after a name, are no part of the frame.
LEMMA ReadyCode ==
  \A s, code : Ready(s) /\ code \in Codes =>
    LET r == [s EXCEPT !.code = code]
    IN  Ready(r) /\ r.state = s.state /\ r.return = s.return
<1>1. SUFFICES ASSUME NEW s, NEW code \in Codes, Ready(s)
      PROVE  LET r == [s EXCEPT !.code = code]
             IN  Ready(r) /\ r.state = s.state /\ r.return = s.return
  OBVIOUS
<1> DEFINE r == [s EXCEPT !.code = code]
<1>2. /\ DOMAIN r = StateFields /\ r.code = code
      /\ r.pos = s.pos /\ r.mark = s.mark /\ r.resume = s.resume /\ r.start = s.start
      /\ r.state = s.state /\ r.return = s.return /\ r.reconsume = s.reconsume
      /\ r.buffered = s.buffered /\ r.tmp = s.tmp /\ r.tag = s.tag /\ r.doctype = s.doctype
      /\ r.out = s.out /\ r.emitted = s.emitted /\ r.failed = s.failed
  BY <1>1 DEF Ready, Kept, Shape, StateFields
<1> HIDE DEF r
<1>3. Shape(r) /\ Places(r)
  BY <1>1, <1>2 DEF Ready, Kept, Shape, Places, Codes
<1>4. Owns(r) /\ Between(r)
  BY <1>1, <1>2 DEF Ready, Kept, Owns, Between, InTag
<1>5. Clean(r)
  BY <1>1, <1>2 DEF Ready, Kept, Clean, ReadsValue, Current
<1>6. Stands(r)
  BY <1>1, <1>2 DEF Ready, Kept, Stands, InTag, MarkedAt
<1>7. Ready(r)
  BY <1>1, <1>2, <1>3, <1>4, <1>5, <1>6 DEF Ready, Kept
<1>8. QED BY <1>2, <1>7 DEF r

\* A reference is read on over the characters that follow.
LEMMA ReadyAdvance ==
  \A s, n : Ready(s) /\ s.state \in Refers /\ s.pos + n \in s.pos .. Len(text) + 1 =>
    LET r == Advance(s, n)
    IN  Ready(r) /\ r.state = s.state /\ r.return = s.return
<1>1. SUFFICES ASSUME NEW s, NEW n, Ready(s), s.state \in Refers,
                      s.pos + n \in s.pos .. Len(text) + 1
      PROVE  LET r == Advance(s, n)
             IN  Ready(r) /\ r.state = s.state /\ r.return = s.return
  OBVIOUS
<1> DEFINE r == Advance(s, n)
<1>2. /\ DOMAIN r = StateFields /\ r.pos = s.pos + n
      /\ r.code = s.code /\ r.mark = s.mark /\ r.resume = s.resume /\ r.start = s.start
      /\ r.state = s.state /\ r.return = s.return /\ r.reconsume = s.reconsume
      /\ r.buffered = s.buffered /\ r.tmp = s.tmp /\ r.tag = s.tag /\ r.doctype = s.doctype
      /\ r.out = s.out /\ r.emitted = s.emitted /\ r.failed = s.failed
  BY <1>1 DEF Ready, Kept, Shape, StateFields, Advance
<1> HIDE DEF r
<1>3. s.state \in References
  BY <1>1 DEF Refers
<1>4. /\ Kept(s) /\ Shape(s) /\ Places(s) /\ text \in Seq(Symbols)
      /\ Owns(s) /\ Clean(s) /\ Stands(s) /\ History(s.out, s.start)
      /\ s.emitted = FALSE /\ s.resume = 0 /\ s.buffered = NoChar
  BY <1>1 DEF Ready, Kept
<1>5. r.pos \in s.pos .. Len(text) + 1
  BY <1>1, <1>2
<1>6. Shape(r) /\ Places(r)
  BY <1>2, <1>4, <1>5 DEF Shape, Places
<1>7. Owns(r) /\ Between(r)
  BY <1>2, <1>4 DEF Owns, Between, InTag
<1>8. s.state \notin Plain \cup Unused \cup MayBeText
      /\ s.state \notin {"TAG_OPEN", "END_TAG_OPEN", "MARKUP_DECLARATION_OPEN", "AFTER_ATTR_NAME",
                         "CDATA_SECTION_BRACKET", "CDATA_SECTION_END", "AMBIGUOUS_AMPERSAND"}
  BY <1>1 DEF Refers, References, Plain, Texts, Unused, MayBeText, NamesEndTag
<1>9. Clean(r)
  BY <1>2, <1>4, <1>8 DEF Clean, ReadsValue
<1>10. InTag(r) => text[r.start] = "<" /\ r.start < r.pos
  BY <1>2, <1>4, <1>5 DEF Stands, InTag, Places
<1>11. ~InTag(r) => MarkedAt(r, "&")
  <2>1. ~InTag(r) => MarkedAt(s, "&")
    BY <1>1, <1>2, <1>4 DEF Stands, InTag, Refers
  <2>2. QED BY <1>2, <1>4, <1>5, <2>1 DEF MarkedAt, Places
<1>12. Stands(r)
  <2>1. r.state \notin InComment
    BY <1>2, <1>3, NoComments
  <2>2. QED BY <1>2, <1>8, <1>10, <1>11, <2>1 DEF Stands
<1>13. Kept(r)
  BY <1>2, <1>4, <1>6, <1>7, <1>9, <1>12 DEF Kept
<1>14. Ready(r)
  BY <1>2, <1>4, <1>13 DEF Ready
<1>15. QED BY <1>2, <1>14 DEF r

\* In a value what was read is appended to it.
LEMMA ValueAppends ==
  \A z, x, state, reconsume, word :
    /\ Ready(z) /\ z.state \in References /\ z.return \in InValue
    /\ RefersFrame(z, x, state, reconsume) /\ reconsume \in BOOLEAN
    /\ state \in References \cup InValue
    => /\ Kept(Advanced(x)) /\ Kept(Advanced(append_to_tag_buffer(x, word)))
       /\ x.return = z.return
<1>1. SUFFICES ASSUME NEW z, NEW x, NEW state \in References \cup InValue,
                      NEW reconsume \in BOOLEAN, NEW word,
                      Ready(z), z.state \in References, z.return \in InValue,
                      RefersFrame(z, x, state, reconsume)
      PROVE  /\ Kept(Advanced(x)) /\ Kept(Advanced(append_to_tag_buffer(x, word)))
             /\ x.return = z.return
  OBVIOUS
<1>2. TagFrame(z, x, state, reconsume, TRUE)
  BY <1>1, ReadyReference DEF RefersFrame, TagFrame
<1>3. TagFrame(z, append_to_tag_buffer(x, word), state, reconsume, TRUE)
  BY <1>2, TagOps
<1>4. x.return = z.return
  BY <1>1 DEF RefersFrame, Frame
<1>5. QED BY <1>1, <1>2, <1>3, <1>4, ValueGoes

\* In text the tokenizer is in a state of text again.
LEMMA TextAgain ==
  \A z, x, state, reconsume :
    /\ Ready(z) /\ z.state \in Refers /\ InText(z) /\ RefersFrame(z, x, state, reconsume)
    /\ state \in {z.return, "AMBIGUOUS_AMPERSAND"}
    => CanGoBack(x) /\ TextState(x) /\ Closed(x) /\ x.return \notin InValue
       /\ MarkedAt(x, "&") /\ text \in Seq(Symbols)
<1>1. SUFFICES ASSUME NEW z, NEW x, NEW state \in {z.return, "AMBIGUOUS_AMPERSAND"},
                      NEW reconsume,
                      Ready(z), z.state \in Refers, InText(z), RefersFrame(z, x, state, reconsume)
      PROVE  CanGoBack(x) /\ TextState(x) /\ Closed(x) /\ x.return \notin InValue
             /\ MarkedAt(x, "&") /\ text \in Seq(Symbols)
  OBVIOUS
<1>2. /\ Closed(z) /\ z.return \in Plain /\ z.return \notin InValue /\ MarkedAt(z, "&")
      /\ text \in Seq(Symbols)
  BY <1>1, ReadyReference DEF Refers
<1>3. Frame(z, x) /\ x.state = state /\ x.tag = z.tag /\ x.return = z.return
  BY <1>1 DEF RefersFrame, Frame
<1>4. Closed(x)
  BY <1>2, <1>3 DEF Closed, Frame
<1>5. CanGoBack(x)
  BY <1>1, <1>2, <1>3, <1>4, MarkedCan
<1>6. MarkedAt(x, "&")
  BY <1>2, <1>3 DEF MarkedAt, Frame
<1>7. x.state \notin BuildsTag
  BY <1>1, <1>3 DEF InText, BuildsTag, Attributes
<1>8. TextState(x)
  BY <1>1, <1>2, <1>3, <1>7 DEF TextState, InTag
<1>9. QED BY <1>2, <1>3, <1>4, <1>5, <1>6, <1>8

\* What is no reference stays as it is written.
LEMMA FlushKept ==
  \A z, x, state :
    /\ Ready(z) /\ z.state \in Refers /\ RefersFrame(z, x, state, TRUE)
    /\ state \in {z.return, "AMBIGUOUS_AMPERSAND"}
    => Kept(Advanced(flush_code_points_consumed_as_character_reference(x)))
<1>1. SUFFICES ASSUME NEW z, NEW x, NEW state \in {z.return, "AMBIGUOUS_AMPERSAND"},
                      Ready(z), z.state \in Refers, RefersFrame(z, x, state, TRUE)
      PROVE  Kept(Advanced(flush_code_points_consumed_as_character_reference(x)))
  OBVIOUS
<1>2. z.state \in References
  BY <1>1 DEF Refers
<1>3. CASE z.return \in InValue
  <2>1. state \in References \cup InValue
    BY <1>1, <1>3 DEF References
  <2> DEFINE word == SubSeq(text, x.mark, x.pos - 1)
  <2>2. Kept(Advanced(append_to_tag_buffer(x, word))) /\ x.return = z.return
    BY <1>1, <1>2, <1>3, <2>1, ValueAppends
  <2>3. QED BY <1>3, <2>2 DEF flush_code_points_consumed_as_character_reference,
                              character_reference_part_of_attribute, InValue
<1>4. CASE InText(z)
  <2>1. CanGoBack(x) /\ TextState(x) /\ x.return \notin InValue /\ text \in Seq(Symbols)
    BY <1>1, <1>4, TextAgain
  <2>2. Kept(Advanced(emit_from_mark(x)))
    BY <2>1, MarkEmitted
  <2>3. QED BY <2>1, <2>2 DEF flush_code_points_consumed_as_character_reference,
                              character_reference_part_of_attribute, InValue
<1>5. QED BY <1>1, <1>2, <1>3, <1>4, ReadyReference

\* the token of a reference
LEMMA ReferenceRightly ==
  ASSUME text \in Seq(Symbols), NEW y, Places(y), y.reconsume = TRUE, MarkedAt(y, "&"),
         NEW type, type \notin {"START_TAG", "COMMENT"}, NEW value
  PROVE  Rightly(Token(type, value, y.start, Behind(y), y.pos))
<1> DEFINE token == Token(type, value, y.start, Behind(y), y.pos)
<1>1. token.from = y.start /\ token.to = y.pos /\ token.at = y.pos /\ y.pos \in Nat
      /\ token.type \notin {"START_TAG", "COMMENT"}
  BY DEF Token, Behind, Places
<1> HIDE DEF token
<1>2. ReadOnce(token)
  BY <1>1 DEF ReadOnce
<1>3. /\ y.start \in Nat \ {0} /\ y.mark \in Nat /\ y.mark <= Len(text) + 1
      /\ y.mark \in y.start .. y.pos - 1 /\ text[y.mark] = "&"
  BY DEF Places, MarkedAt
<1>4. MadeOf(SubSeq(text, y.start, y.mark - 1), Dropped)
  BY <1>3, WordsAre, CoveredMadeOf DEF MarkedAt
<1>5. ReadAsReference(token)
  BY <1>1, <1>3, <1>4 DEF ReadAsReference
<1>6. QED BY <1>1, <1>2, <1>5 DEF Rightly, token

\* What a reference stands for takes its place.
LEMMA FlushCharRefKept ==
  \A z, x, first, second :
    Ready(z) /\ z.state \in Refers /\ RefersFrame(z, x, z.return, TRUE) =>
    Kept(Advanced(flush_char_ref(x, first, second)))
<1>1. SUFFICES ASSUME NEW z, NEW x, NEW first, NEW second,
                      Ready(z), z.state \in Refers, RefersFrame(z, x, z.return, TRUE)
      PROVE  Kept(Advanced(flush_char_ref(x, first, second)))
  OBVIOUS
<1>2. z.state \in References
  BY <1>1 DEF Refers
<1>3. CASE z.return \in InValue
  <2> DEFINE word == IF second = NoChar THEN <<first>> ELSE <<first, second>>
  <2> HIDE DEF word
  <2>1. Kept(Advanced(append_to_tag_buffer(x, word))) /\ x.return = z.return
    BY <1>1, <1>2, <1>3, ValueAppends
  <2>2. QED BY <1>3, <2>1 DEF flush_char_ref, character_reference_part_of_attribute, InValue, word
<1>4. CASE InText(z)
  <2> DEFINE y == [x EXCEPT !.buffered = second]
             r == emit_char(y, first)
  <2>1. /\ CanGoBack(x) /\ TextState(x) /\ Closed(x) /\ x.return \notin InValue
        /\ MarkedAt(x, "&") /\ text \in Seq(Symbols)
    BY <1>1, <1>4, TextAgain
  <2>2. CanEmit(x) /\ x.reconsume = TRUE
    BY <1>1, FrameCan DEF RefersFrame
  <2>3. /\ DOMAIN y = StateFields /\ y.pos = x.pos /\ y.mark = x.mark /\ y.resume = x.resume
        /\ y.start = x.start /\ y.state = x.state /\ y.return = x.return
        /\ y.reconsume = x.reconsume /\ y.code = x.code /\ y.tag = x.tag
        /\ y.doctype = x.doctype /\ y.out = x.out /\ y.failed = x.failed
    BY <2>2 DEF CanEmit, Shape, StateFields
  <2>4. r = emit_char(y, first)
    OBVIOUS
  <2> HIDE DEF y
  <2>5. CanEmit(y) /\ TextState(y) /\ Closed(y) /\ MarkedAt(y, "&")
    BY <2>1, <2>2, <2>3 DEF CanEmit, Shape, Places, TextState, InTag, Closed, MarkedAt
  <2> DEFINE type == get_char_token_type(y.cdata, first)
  <2>6. Emits(y, r, type, first) /\ Else(y, r) /\ r.tag = y.tag /\ r.doctype = y.doctype
        /\ type \notin {"START_TAG", "COMMENT"}
    BY <2>5, CharIs, CharTypes DEF CanEmit
  <2> HIDE DEF r, type
  <2>7. r.reconsume \in BOOLEAN
    BY <2>2, <2>3, <2>6 DEF Else
  <2> DEFINE n == Advanced(r)
  <2>8. /\ Emits(y, n, type, first) /\ n.reconsume = FALSE
        /\ n.tag = y.tag /\ n.doctype = y.doctype
    BY <2>6, <2>7, AdvancedEmission
  <2> HIDE DEF n
  <2>9. Rightly(Token(type, first, y.start, Behind(y), y.pos))
    BY <2>1, <2>2, <2>3, <2>5, <2>6, ReferenceRightly DEF CanEmit
  <2>10. y.state \in AllStates
    BY <2>5, TextStates DEF TextState
  <2>11. Closed(n)
    BY <2>5, <2>8 DEF Closed
  <2>12. Kept(n)
    BY <2>1, <2>5, <2>8, <2>9, <2>10, <2>11, EmissionKept
  <2>13. flush_char_ref(x, first, second) = emit_char(y, first)
    BY <2>1 DEF flush_char_ref, character_reference_part_of_attribute, InValue, y
  <2>14. QED BY <2>12, <2>13 DEF n, r
<1>5. QED BY <1>1, <1>2, <1>3, <1>4, ReadyReference

(* ------------------------- The handlers of references ---------------------- *)

NameWords == {"amp", "not", "in", "b", "nGg", ";"}

\* The names of references are between one and three words long.
LEMMA NamesAre ==
  \A reference \in NamedReferences :
    reference.name \in Seq(NameWords) /\ Len(reference.name) \in 1 .. 3
<1> DEFINE Fine(name) == name \in Seq(NameWords) /\ Len(name) \in 1 .. 3
<1>1. /\ <<"amp">> \in Seq(NameWords) /\ <<"not">> \in Seq(NameWords)
      /\ Len(<<"amp">>) = 1 /\ Len(<<"not">>) = 1
  BY DEF NameWords
<1>2. /\ <<"amp", ";">> \in Seq(NameWords) /\ <<"not", ";">> \in Seq(NameWords)
      /\ <<"in", ";">> \in Seq(NameWords) /\ <<"nGg", ";">> \in Seq(NameWords)
      /\ Len(<<"amp", ";">>) = 2 /\ Len(<<"not", ";">>) = 2 /\ Len(<<"in", ";">>) = 2
      /\ Len(<<"nGg", ";">>) = 2
  BY DEF NameWords
<1>3. /\ <<"not", "in", ";">> \in Seq(NameWords) /\ <<"b", "not", ";">> \in Seq(NameWords)
      /\ Len(<<"not", "in", ";">>) = 3 /\ Len(<<"b", "not", ";">>) = 3
  BY DEF NameWords
<1>4. 1 \in 1 .. 3 /\ 2 \in 1 .. 3 /\ 3 \in 1 .. 3
  OBVIOUS
<1>5. /\ Fine(<<"amp">>) /\ Fine(<<"not">>) /\ Fine(<<"amp", ";">>) /\ Fine(<<"not", ";">>)
      /\ Fine(<<"in", ";">>) /\ Fine(<<"nGg", ";">>) /\ Fine(<<"not", "in", ";">>)
      /\ Fine(<<"b", "not", ";">>)
  BY <1>1, <1>2, <1>3, <1>4
<1> HIDE DEF Fine
<1>6. \A reference \in NamedReferences : Fine(reference.name)
  <2>1. TAKE reference \in NamedReferences
  <2>2. \A name, first, second : Named(name, first, second).name = name
    BY DEF Named
  <2>3. PICK name, first, second :
          /\ reference = Named(name, first, second)
          /\ name \in {<<"amp">>, <<"not">>, <<"amp", ";">>, <<"not", ";">>, <<"in", ";">>,
                       <<"nGg", ";">>, <<"not", "in", ";">>, <<"b", "not", ";">>}
    BY Zenon DEF NamedReferences
  <2>4. reference.name = name
    BY <2>2, <2>3, Zenon
  <2>5. Fine(name)
    BY <1>5, <2>3, Zenon
  <2>6. QED BY <2>4, <2>5, Zenon
<1>7. QED BY <1>6 DEF Fine

\* A name that is found is one of the names, and the text goes on with it.
LEMMA MatchIs ==
  ASSUME NEW symbols
  PROVE  LET m == match_named_char_ref(symbols)
         IN  m = NotNamed \/ (m \in NamedReferences /\ Begins(m.name, symbols))
<1> DEFINE found == {reference \in NamedReferences : Begins(reference.name, symbols)}
           Longest(reference) == \A other \in found : Len(other.name) <= Len(reference.name)
           m == match_named_char_ref(symbols)
<1>1. CASE found = {}
  BY <1>1 DEF match_named_char_ref
<1>2. CASE found # {}
  <2>1. \A reference \in found : Len(reference.name) \in 1 .. 3
    BY NamesAre
  <2>2. m = CHOOSE reference \in found : Longest(reference)
    BY <1>2 DEF match_named_char_ref
  <2>3. \A reference \in found : reference \in NamedReferences /\ Begins(reference.name, symbols)
    OBVIOUS
  <2> HIDE DEF found, m
  <2>4. \E reference \in found : Longest(reference)
    <3>1. CASE \E reference \in found : Len(reference.name) = 3
      <4>1. PICK reference \in found : Len(reference.name) = 3
        BY <3>1
      <4>2. ASSUME NEW other \in found PROVE Len(other.name) <= 3
        <5>1. Len(other.name) \in 1 .. 3
          BY <2>1
        <5>2. \A n \in 1 .. 3 : n <= 3
          OBVIOUS
        <5>3. QED BY <5>1, <5>2, Zenon
      <4>3. Longest(reference)
        BY <4>1, <4>2
      <4>4. QED BY <4>3
    <3>2. CASE \A reference \in found : Len(reference.name) # 3
      <4>1. CASE \E reference \in found : Len(reference.name) = 2
        BY <2>1, <3>2, <4>1
      <4>2. CASE \A reference \in found : Len(reference.name) # 2
        BY <1>2, <2>1, <3>2, <4>2
      <4>3. QED BY <4>1, <4>2
    <3>3. QED BY <3>1, <3>2
  <2>5. m \in found
    BY <2>2, <2>4
  <2>6. QED BY <2>3, <2>5 DEF m
<1>3. QED BY <1>1, <1>2

\* A named reference is replaced or, in an attribute before = or a letter, kept.
LEMMA NamedReferenceKept ==
  ASSUME NEW s, Ready(s), s.state \in Refers, NEW reference \in NamedReferences,
         Begins(reference.name, Rest(s))
  PROVE  Kept(Advanced(NamedReference(s, reference)))
<1> DEFINE name == reference.name
           adv == Advance(s, Len(name))
           after == reconsume_in_state(adv, s.return)
           appended == append_to_temporary_buffer(after, name)
           wrong == tokenizer_add_parse_error(after)
<1>1. name \in Seq(NameWords) /\ Len(name) \in 1 .. 3
  BY NamesAre
<1>2. s.pos \in 1 .. Len(text) + 1 /\ text \in Seq(Symbols)
  BY DEF Ready, Kept, Places
<1>3. s.pos + Len(name) \in s.pos .. Len(text) + 1
  <2>1. s.pos + Len(name) <= Len(text) + 1
    BY <1>1, <1>2, BeginsIs
  <2>2. QED BY <1>1, <1>2, <2>1
<1>4. Ready(adv) /\ adv.state = s.state /\ adv.return = s.return
  BY <1>3, ReadyAdvance
<1>5. RefersFrame(adv, adv, adv.state, FALSE)
  BY <1>4, ReadyReference DEF RefersFrame, Refers
<1>6. NamedReference(s, reference) \in
        {flush_code_points_consumed_as_character_reference(appended),
         flush_char_ref(after, reference.first, reference.second),
         flush_char_ref(wrong, reference.first, reference.second)}
  BY DEF NamedReference
<1> HIDE DEF adv
<1>7. RefersFrame(adv, after, adv.return, TRUE)
  BY <1>4, <1>5, RefersOps
<1> HIDE DEF after
<1>8. /\ RefersFrame(adv, appended, adv.return, TRUE)
      /\ RefersFrame(adv, wrong, adv.return, TRUE)
  BY <1>7, RefersOps
<1> HIDE DEF appended, wrong
<1>9. /\ Kept(Advanced(flush_code_points_consumed_as_character_reference(appended)))
      /\ Kept(Advanced(flush_char_ref(after, reference.first, reference.second)))
      /\ Kept(Advanced(flush_char_ref(wrong, reference.first, reference.second)))
  BY <1>4, <1>7, <1>8, FlushKept, FlushCharRefKept
<1>10. QED BY <1>6, <1>9

\* the terms of the handlers of references
LEMMA RefersTerms ==
  ASSUME NEW s, Ready(s), s.state \in Refers
  PROVE  /\ \A next \in Refers :
              /\ Kept(Advanced(gumbo_tokenizer_set_state(s, next)))
              /\ Kept(Advanced(reconsume_in_state(s, next)))
              /\ Kept(Advanced(reconsume_in_state(tokenizer_add_parse_error(s), next)))
         /\ \A next \in {s.return, "AMBIGUOUS_AMPERSAND"} :
              /\ Kept(Advanced(flush_code_points_consumed_as_character_reference(
                                 reconsume_in_state(s, next))))
              /\ Kept(Advanced(flush_code_points_consumed_as_character_reference(
                                 reconsume_in_state(tokenizer_add_parse_error(s), next))))
         /\ \A first, second :
              /\ Kept(Advanced(flush_char_ref(reconsume_in_state(s, s.return), first, second)))
              /\ Kept(Advanced(flush_char_ref(
                   tokenizer_add_parse_error(reconsume_in_state(s, s.return)), first, second)))
<1> DEFINE e == tokenizer_add_parse_error(s)
<1>1. RefersFrame(s, s, s.state, FALSE)
  BY ReadyReference DEF RefersFrame, Refers
<1>2. RefersFrame(s, e, s.state, FALSE)
  BY <1>1, RefersOps
<1> HIDE DEF e
<1>3. ASSUME NEW next
      PROVE  /\ RefersFrame(s, gumbo_tokenizer_set_state(s, next), next, FALSE)
             /\ RefersFrame(s, reconsume_in_state(s, next), next, TRUE)
             /\ RefersFrame(s, reconsume_in_state(e, next), next, TRUE)
  BY <1>1, <1>2, RefersOps
<1>4. RefersFrame(s, tokenizer_add_parse_error(reconsume_in_state(s, s.return)), s.return, TRUE)
  BY <1>3, RefersOps
<1>5. ASSUME NEW next \in Refers
      PROVE  /\ Kept(Advanced(gumbo_tokenizer_set_state(s, next)))
             /\ Kept(Advanced(reconsume_in_state(s, next)))
             /\ Kept(Advanced(reconsume_in_state(e, next)))
  BY <1>3, ReferenceGoes
<1>6. ASSUME NEW next \in {s.return, "AMBIGUOUS_AMPERSAND"}
      PROVE  /\ Kept(Advanced(flush_code_points_consumed_as_character_reference(
                                reconsume_in_state(s, next))))
             /\ Kept(Advanced(flush_code_points_consumed_as_character_reference(
                                reconsume_in_state(e, next))))
  BY <1>3, FlushKept
<1>7. ASSUME NEW first, NEW second
      PROVE  /\ Kept(Advanced(flush_char_ref(reconsume_in_state(s, s.return), first, second)))
             /\ Kept(Advanced(flush_char_ref(
                  tokenizer_add_parse_error(reconsume_in_state(s, s.return)), first, second)))
  BY <1>3, <1>4, FlushCharRefKept
<1>8. QED BY <1>5, <1>6, <1>7 DEF e

\* The first digit of a numeric reference.
LEMMA NumberStartKept ==
  ASSUME NEW s, Ready(s), s.state \in Refers, NEW digits, NEW state \in Refers
  PROVE  Kept(Advanced(NumberStart(s, Current(s), digits, state)))
<1> DEFINE c == Current(s)
<1> HIDE DEF c
<1>1. /\ Kept(Advanced(reconsume_in_state(s, state)))
      /\ Kept(Advanced(flush_code_points_consumed_as_character_reference(
                         reconsume_in_state(tokenizer_add_parse_error(s), s.return))))
  BY RefersTerms
<1>2. Kept(Advanced(NumberStart(s, c, digits, state)))
  BY <1>1 DEF NumberStart
<1>3. QED BY <1>2 DEF c

\* The further digits of a numeric reference.
LEMMA NumberKept ==
  ASSUME NEW s, Ready(s), s.state \in Refers, NEW digits \in SUBSET HexDigits,
         NEW base \in {10, 16}
  PROVE  Kept(Advanced(Number(s, Current(s), digits, base)))
<1> DEFINE c == Current(s)
           x == [s EXCEPT !.code = AddDigits(@, base, DigitsOf(c))]
<1>1. ASSUME c \in digits PROVE Kept(Advanced(x))
  <2> DEFINE code == AddDigits(s.code, base, DigitsOf(c))
  <2>1. s.code \in Codes
    BY DEF Ready, Kept, Places, Codes
  <2>2. DigitsOf(c) \in Seq(Nat)
    BY <1>1, DigitsAre
  <2>3. code \in Codes
    BY <2>1, <2>2, AddDigitsIs
  <2> HIDE DEF c
  <2>4. x = [s EXCEPT !.code = code]
    OBVIOUS
  <2> HIDE DEF code, x
  <2>5. Ready(x) /\ x.state = s.state
    BY <2>3, <2>4, ReadyCode
  <2>6. RefersFrame(x, x, x.state, FALSE)
    BY <2>5, ReadyReference DEF RefersFrame, Refers
  <2>7. QED BY <2>5, <2>6, ReferenceGoes
<1> HIDE DEF c, x
<1>2. "NUMERIC_CHARACTER_REFERENCE_END" \in Refers
  BY DEF Refers, References
<1>3. /\ Kept(Advanced(gumbo_tokenizer_set_state(s, "NUMERIC_CHARACTER_REFERENCE_END")))
      /\ Kept(Advanced(reconsume_in_state(tokenizer_add_parse_error(s),
                                          "NUMERIC_CHARACTER_REFERENCE_END")))
  BY <1>2, RefersTerms
<1>4. Kept(Advanced(Number(s, c, digits, base)))
  BY <1>1, <1>3 DEF Number, x
<1>5. QED BY <1>4 DEF c

\* After an ampersand that begins no reference the rest of the word is text.
LEMMA AmbiguousKept ==
  ASSUME NEW s, Ready(s), s.state = "AMBIGUOUS_AMPERSAND"
  PROVE  Kept(Advanced(handle_ambiguous_ampersand_state(s, Current(s))))
<1> DEFINE c == Current(s)
           e == tokenizer_add_parse_error(s)
<1>1. s.state \in References
  BY DEF References
<1>2. RefersFrame(s, s, s.state, FALSE)
  BY <1>1, ReadyReference DEF RefersFrame
<1>3. RefersFrame(s, e, s.state, FALSE)
  BY <1>2, RefersOps
<1> HIDE DEF e
<1>4. /\ RefersFrame(s, reconsume_in_state(s, s.return), s.return, TRUE)
      /\ RefersFrame(s, reconsume_in_state(e, s.return), s.return, TRUE)
  BY <1>2, <1>3, RefersOps
<1>5. CASE s.return \in InValue
  <2>1. /\ Kept(Advanced(append_to_tag_buffer(s, <<c>>)))
        /\ Kept(Advanced(reconsume_in_state(s, s.return)))
        /\ Kept(Advanced(reconsume_in_state(e, s.return)))
    BY <1>1, <1>2, <1>4, <1>5, ValueAppends
  <2> HIDE DEF c
  <2>2. character_reference_part_of_attribute(s)
    BY <1>5 DEF character_reference_part_of_attribute, InValue
  <2>3. Kept(Advanced(handle_ambiguous_ampersand_state(s, c)))
    BY <2>1, <2>2 DEF handle_ambiguous_ampersand_state, e
  <2>4. QED BY <2>3 DEF c
<1>6. CASE InText(s)
  <2>1. s.return \in Plain /\ s.return \notin InValue /\ ~InTag(s)
    BY <1>1, <1>6, ReadyReference
  <2>2. TextState(s)
    BY <2>1 DEF TextState
  <2>3. Kept(Advanced(emit_char(s, c))) /\ Kept(Advanced(reconsume_in_state(s, s.return)))
    BY <2>1, <2>2, TextEnds
  <2>4. Kept(Advanced(reconsume_in_state(e, s.return)))
    <3> DEFINE x == reconsume_in_state(e, s.return)
    <3>1. Frame(s, x) /\ x.tag = s.tag /\ x.reconsume = TRUE /\ x.state \in Plain
      BY <1>4, <2>1 DEF RefersFrame
    <3> HIDE DEF x
    <3>2. Kept(Advanced(x))
      BY <2>2, <3>1, TextGoes
    <3>3. QED BY <3>2 DEF x
  <2> HIDE DEF c
  <2>5. ~character_reference_part_of_attribute(s)
    BY <2>1 DEF character_reference_part_of_attribute, InValue
  <2>6. Kept(Advanced(handle_ambiguous_ampersand_state(s, c)))
    BY <2>3, <2>4, <2>5 DEF handle_ambiguous_ampersand_state, e
  <2>7. QED BY <2>6 DEF c
<1>7. QED BY <1>1, <1>5, <1>6, ReadyReference

\* The states of character references.
LEMMA LexReferenceKept ==
  ASSUME NEW s, Ready(s), s.state \in References
  PROVE  Kept(Advanced(LexReference(s, Current(s))))
<1> DEFINE c == Current(s)
           r == LexReference(s, c)
<1>1. Refers = {"CHARACTER_REFERENCE", "NAMED_CHARACTER_REFERENCE",
                "NUMERIC_CHARACTER_REFERENCE", "HEXADECIMAL_CHARACTER_REFERENCE_START",
                "DECIMAL_CHARACTER_REFERENCE_START", "HEXADECIMAL_CHARACTER_REFERENCE",
                "DECIMAL_CHARACTER_REFERENCE", "NUMERIC_CHARACTER_REFERENCE_END"}
  BY DEF Refers, References
<1>2. CASE s.state = "AMBIGUOUS_AMPERSAND"
  <2>1. r = handle_ambiguous_ampersand_state(s, c)
    BY <1>2 DEF LexReference
  <2>2. QED BY <1>2, <2>1, AmbiguousKept
<1>3. CASE s.state = "CHARACTER_REFERENCE"
  <2>1. r = handle_character_reference_state(s, c)
    BY <1>3 DEF LexReference
  <2>2. /\ Kept(Advanced(reconsume_in_state(s, "NAMED_CHARACTER_REFERENCE")))
        /\ Kept(Advanced(gumbo_tokenizer_set_state(s, "NUMERIC_CHARACTER_REFERENCE")))
        /\ Kept(Advanced(flush_code_points_consumed_as_character_reference(
                           reconsume_in_state(s, s.return))))
    BY <1>1, <1>3, RefersTerms
  <2> HIDE DEF c, r
  <2>3. Kept(Advanced(handle_character_reference_state(s, c)))
    BY <2>2 DEF handle_character_reference_state
  <2>4. QED BY <2>1, <2>3 DEF c, r
<1>4. CASE s.state = "NAMED_CHARACTER_REFERENCE"
  <2>1. r = handle_named_character_reference_state(s, c)
    BY <1>4 DEF LexReference
  <2> DEFINE m == match_named_char_ref(Rest(s))
  <2>2. m = NotNamed \/ (m \in NamedReferences /\ Begins(m.name, Rest(s)))
    BY MatchIs
  <2> HIDE DEF c, r, m
  <2>3. m # NotNamed => Kept(Advanced(NamedReference(s, m)))
    BY <1>1, <1>4, <2>2, NamedReferenceKept
  <2>4. Kept(Advanced(flush_code_points_consumed_as_character_reference(
                        reconsume_in_state(s, "AMBIGUOUS_AMPERSAND"))))
    BY <1>1, <1>4, RefersTerms
  <2>5. Kept(Advanced(handle_named_character_reference_state(s, c)))
    BY <2>3, <2>4 DEF handle_named_character_reference_state, m
  <2>6. QED BY <2>1, <2>5 DEF c, r
<1>5. CASE s.state = "NUMERIC_CHARACTER_REFERENCE"
  <2>1. r = handle_numeric_character_reference_state(s, c)
    BY <1>5 DEF LexReference
  <2> DEFINE zero == [s EXCEPT !.code = 0]
  <2>2. Ready(zero) /\ zero.state = s.state
    <3>1. 0 \in Codes
      <4>1. MaxChar \in Nat
        BY DEF MaxChar
      <4>2. QED BY <4>1 DEF Codes
    <3>2. QED BY <3>1, ReadyCode
  <2> HIDE DEF c, r, zero
  <2>3. /\ Kept(Advanced(gumbo_tokenizer_set_state(zero,
                           "HEXADECIMAL_CHARACTER_REFERENCE_START")))
        /\ Kept(Advanced(reconsume_in_state(zero, "DECIMAL_CHARACTER_REFERENCE_START")))
    BY <1>1, <1>5, <2>2, RefersTerms
  <2>4. Kept(Advanced(handle_numeric_character_reference_state(s, c)))
    BY <2>3 DEF handle_numeric_character_reference_state, zero
  <2>5. QED BY <2>1, <2>4 DEF c, r
<1>6. CASE s.state = "HEXADECIMAL_CHARACTER_REFERENCE_START"
  <2>1. r = NumberStart(s, c, HexDigits, "HEXADECIMAL_CHARACTER_REFERENCE")
    BY <1>6 DEF LexReference, handle_hexadecimal_character_reference_start_state
  <2>2. QED BY <1>1, <1>6, <2>1, NumberStartKept
<1>7. CASE s.state = "DECIMAL_CHARACTER_REFERENCE_START"
  <2>1. r = NumberStart(s, c, Digits, "DECIMAL_CHARACTER_REFERENCE")
    BY <1>7 DEF LexReference, handle_decimal_character_reference_start_state
  <2>2. QED BY <1>1, <1>7, <2>1, NumberStartKept
<1>8. CASE s.state = "HEXADECIMAL_CHARACTER_REFERENCE"
  <2>1. r = Number(s, c, HexDigits, 16)
    BY <1>8 DEF LexReference, handle_hexadecimal_character_reference_state
  <2>2. QED BY <1>1, <1>8, <2>1, NumberKept
<1>9. CASE s.state = "DECIMAL_CHARACTER_REFERENCE"
  <2>1. r = Number(s, c, Digits, 10)
    BY <1>9 DEF LexReference, handle_decimal_character_reference_state
  <2>2. Digits \in SUBSET HexDigits
    BY DEF HexDigits
  <2>3. QED BY <1>1, <1>9, <2>1, <2>2, NumberKept
<1>10. CASE s.state = "NUMERIC_CHARACTER_REFERENCE_END"
  <2>1. r = handle_numeric_character_reference_end_state(s, c)
    BY <1>10 DEF LexReference
  <2> DEFINE first == CodePoint(Referenced(s.code))
             bad == IsBadReference(s.code)
  <2> HIDE DEF first, bad
  <2>2. /\ Kept(Advanced(flush_char_ref(reconsume_in_state(s, s.return), first, NoChar)))
        /\ Kept(Advanced(flush_char_ref(
             tokenizer_add_parse_error(reconsume_in_state(s, s.return)), first, NoChar)))
    BY <1>1, <1>10, RefersTerms
  <2> HIDE DEF c, r
  <2>3. Kept(Advanced(handle_numeric_character_reference_end_state(s, c)))
    <3>1. handle_numeric_character_reference_end_state(s, c) =
            flush_char_ref(IF bad THEN tokenizer_add_parse_error(reconsume_in_state(s, s.return))
                           ELSE reconsume_in_state(s, s.return), first, NoChar)
      BY DEF handle_numeric_character_reference_end_state, first, bad
    <3>2. CASE bad
      BY <2>2, <3>1, <3>2
    <3>3. CASE ~bad
      BY <2>2, <3>1, <3>3
    <3>4. QED BY <3>2, <3>3
  <2>4. QED BY <2>1, <2>3 DEF c, r
<1>11. s.state \in Refers \/ s.state = "AMBIGUOUS_AMPERSAND"
  BY DEF Refers
<1>12. QED BY <1>1, <1>2, <1>3, <1>4, <1>5, <1>6, <1>7, <1>8, <1>9, <1>10, <1>11

(* ----------------------------- The steps of gumbo_lex ---------------------- *)

\* a handler may be called
LEMMA LexingReady ==
  ASSUME Inv, NEW states, Lexing(states)
  PROVE  Ready(Lex(t)) /\ Lex(t).state \in states /\ Current(Lex(t)) = Current(t)
<1> DEFINE s == Lex(t)
<1>1. Kept(t) /\ Shape(t) /\ t.emitted = FALSE /\ t.buffered = NoChar /\ t.state \in states
  BY DEF Inv, Kept, Lexing
<1>2. /\ DOMAIN s = StateFields /\ s.resume = 0
      /\ s.pos = t.pos /\ s.mark = t.mark /\ s.start = t.start /\ s.code = t.code
      /\ s.state = t.state /\ s.return = t.return /\ s.reconsume = t.reconsume
      /\ s.buffered = t.buffered /\ s.tmp = t.tmp /\ s.tag = t.tag /\ s.doctype = t.doctype
      /\ s.out = t.out /\ s.emitted = t.emitted /\ s.failed = t.failed
  BY <1>1 DEF Lex, Shape, StateFields
<1> HIDE DEF s
<1>3. Shape(s) /\ Places(s)
  BY <1>1, <1>2 DEF Kept, Shape, Places
<1>4. Owns(s) /\ Between(s)
  BY <1>1, <1>2 DEF Kept, Owns, Between, InTag
<1>5. Clean(s) /\ Current(s) = Current(t)
  BY <1>1, <1>2 DEF Kept, Clean, ReadsValue, Current
<1>6. Stands(s)
  BY <1>1, <1>2 DEF Kept, Stands, InTag, MarkedAt
<1>7. Kept(s)
  BY <1>1, <1>2, <1>3, <1>4, <1>5, <1>6 DEF Kept
<1>8. QED BY <1>1, <1>2, <1>5, <1>7 DEF Ready, Inv, s

\* what Steady says
LEMMA SteadyIs ==
  ASSUME text \in Seq(Symbols), NEW s, Kept(s), Steady(s)
  PROVE  CanEmit(s) /\ TextState(s) /\ Closed(s) /\ Covered(s.start, s.pos, Dropped)
<1>1. s.state \notin Doctypes
  BY DEF Steady, Plain, Texts, Doctypes
<1>2. Closed(s)
  BY <1>1 DEF Kept, Owns, Steady, Closed
<1>3. Covered(s.start, s.pos, Dropped)
  BY CoveredNothing DEF Kept, Places, Steady
<1>4. QED BY <1>2, <1>3 DEF CanEmit, TextState, Kept, Steady, Returns

\* The text never changes: what is kept of a record is kept of the next state.
LEMMA KeptSame ==
  ASSUME NEW r, t' = r, text' = text
  PROVE  Kept(t)' <=> Kept(r)
<1>1. Shape(t)' <=> Shape(r)
  BY DEF Shape, Listed, Differ, Names, IsSeq
<1>2. Places(t)' <=> Places(r)
  BY DEF Places
<1>3. InTag(t)' <=> InTag(r)
  BY DEF InTag
<1>4. Owns(t)' <=> Owns(r)
  BY <1>3 DEF Owns
<1>5. Between(t)' <=> Between(r)
  BY <1>3 DEF Between, Ended, Steady
<1>6. Clean(t)' <=> Clean(r)
  BY DEF Clean, ReadsValue, Current
<1>7. \A start, p, state, tmp : Told(start, p, state, tmp)' <=> Told(start, p, state, tmp)
  BY DEF Told, NotAbrupt, ReadUpTo, BogusUpTo, BogusStart, IsComment, EndsAt, ShownFrom, SymbolAt
<1>8. Stands(t)' <=> Stands(r)
  BY <1>3, <1>7 DEF Stands, MarkedAt, Covered, Held
<1>9. \A token : Shown(CommentText(Markup(token)))' = Shown(CommentText(Markup(token)))
  BY DEF CommentText, Markup, CommentEnds, BogusEnds, IsAt
<1>10. \A token : Rightly(token)' <=> Rightly(token)
  <2>1. \A token : ReadOnce(token)' <=> ReadOnce(token)
    BY DEF ReadOnce, MadeOf, Begins
  <2>2. \A token : ReadAsReference(token)' <=> ReadAsReference(token)
    BY DEF ReadAsReference, MadeOf, Begins
  <2>3. QED BY <1>9, <2>1, <2>2 DEF Rightly
<1>11. History(t.out, t.start)' <=> History(r.out, r.start)
  <2>1. \A lo, hi, words : Covered(lo, hi, words)' <=> Covered(lo, hi, words)
    BY DEF Covered, Held
  <2>2. QED BY <1>10, <2>1 DEF History, IsSeq
<1>12. QED BY <1>1, <1>2, <1>4, <1>5, <1>6, <1>8, <1>11 DEF Kept

\* gumbo_lex emits the second character of a reference first.
LEMMA BufferedKept ==
  ASSUME Inv, BufferedCharacter
  PROVE  Inv'
<1> DEFINE x == [t EXCEPT !.reconsume = TRUE]
           c == t.buffered
           e == emit_char(x, c)
           r == [e EXCEPT !.reconsume = FALSE, !.buffered = NoChar]
<1>1. Kept(t) /\ text \in Seq(Symbols) /\ Steady(t)
  BY DEF Inv, Kept, Between, BufferedCharacter
<1>2. CanEmit(t) /\ TextState(t) /\ Closed(t)
  BY <1>1, SteadyIs
<1>3. /\ DOMAIN x = StateFields /\ x.reconsume = TRUE
      /\ x.pos = t.pos /\ x.mark = t.mark /\ x.resume = t.resume /\ x.start = t.start
      /\ x.state = t.state /\ x.return = t.return /\ x.code = t.code /\ x.tag = t.tag
      /\ x.doctype = t.doctype /\ x.out = t.out /\ x.failed = t.failed
  BY <1>2 DEF CanEmit, Shape, StateFields
<1> HIDE DEF x, c
<1>4. CanEmit(x) /\ TextState(x) /\ Closed(x) /\ Behind(x) = x.pos /\ x.start = x.pos
  BY <1>1, <1>2, <1>3 DEF CanEmit, Shape, Places, TextState, InTag, Closed, Behind, Steady
<1> DEFINE type == get_char_token_type(x.cdata, c)
<1>5. Emits(x, e, type, c) /\ e.tag = x.tag /\ e.doctype = x.doctype
      /\ type \notin {"START_TAG", "COMMENT"}
  BY <1>4, CharIs, CharTypes DEF CanEmit
<1> HIDE DEF e, type
<1>6. /\ Shape(r) /\ r.pos = e.pos /\ r.start = e.start /\ r.emitted = e.emitted
      /\ r.mark = e.mark /\ r.resume = e.resume /\ r.state = e.state /\ r.return = e.return
      /\ r.code = e.code /\ r.failed = e.failed /\ r.out = e.out /\ r.tag = e.tag
      /\ r.doctype = e.doctype /\ r.reconsume = FALSE
  BY <1>5 DEF Emits, Shape, StateFields
<1>7. t' = r /\ text' = text
  BY DEF BufferedCharacter, e, x, c
<1> HIDE DEF r
<1>8. Emits(x, r, type, c) /\ Closed(r)
  BY <1>4, <1>5, <1>6 DEF Emits, Closed
<1>9. Rightly(Token(type, c, x.start, Behind(x), x.pos))
  <2> DEFINE token == Token(type, c, x.start, Behind(x), x.pos)
  <2>1. token.from = x.pos /\ token.to = x.pos /\ token.at = x.pos /\ x.pos \in Nat
        /\ token.type \notin {"START_TAG", "COMMENT"}
    BY <1>4, <1>5 DEF Token, CanEmit, Places
  <2> HIDE DEF token
  <2>2. ReadOnce(token) /\ ReadAsReference(token)
    BY <2>1 DEF ReadOnce, ReadAsReference
  <2>3. QED BY <2>1, <2>2 DEF Rightly, token
<1>10. x.state \in AllStates
  BY <1>4, TextStates DEF TextState
<1>11. Kept(r)
  BY <1>1, <1>4, <1>6, <1>8, <1>9, <1>10, EmissionKept
<1>12. QED BY <1>1, <1>7, <1>11, KeptSame DEF Inv

\* gumbo_lex emits again from the mark up to where it resumes.
LEMMA FromMarkKept ==
  ASSUME Inv, FromMark
  PROVE  Inv'
<1> DEFINE c == Current(t)
           r == emit_char(t, c)
<1>1. Kept(t) /\ text \in Seq(Symbols) /\ Steady(t) /\ t.reconsume = FALSE
  BY DEF Inv, Kept, Between, FromMark
<1>2. CanEmit(t) /\ TextState(t) /\ Closed(t) /\ Covered(t.start, t.pos, Dropped)
  BY <1>1, SteadyIs
<1>3. Reads(t, c)
  BY DEF Reads
<1> HIDE DEF c
<1>4. Kept(r)
  BY <1>1, <1>2, <1>3, CharEmitted
<1>5. t' = r /\ text' = text
  <2>1. ~(t.resume = 0) /\ t.pos < t.resume /\ t' = maybe_emit_from_mark(t) /\ text' = text
    BY DEF FromMark
  <2>2. t.pos \in Nat /\ t.resume \in Nat
    BY <1>1 DEF Kept, Places
  <2>3. ~(t.pos >= t.resume)
    BY <2>1, <2>2
  <2>4. assert(t, ~t.reconsume) = t
    BY <1>1 DEF assert
  <2>5. maybe_emit_from_mark(t) = emit_char(t, c)
    BY <2>1, <2>3, <2>4 DEF maybe_emit_from_mark, c
  <2>6. QED BY <2>1, <2>5
<1> HIDE DEF r
<1>6. QED BY <1>1, <1>4, <1>5, KeptSame DEF Inv

\* Tree construction sets the state after a start tag and what it has read.
LEMMA ConstructKept ==
  ASSUME Inv, Construct
  PROVE  Inv'
<1>1. Kept(t) /\ text \in Seq(Symbols) /\ t.emitted /\ Steady(t)
  BY DEF Inv, Kept, Between, Construct, Done, Ended
<1>2. PICK state, foreign, content :
        /\ state \in {t.state} \cup Texts
        /\ t' = [t EXCEPT !.emitted = FALSE, !.state = state, !.foreign = foreign,
                          !.content = content]
        /\ text' = text
  <2> DEFINE token == t.out[Len(t.out)]
             tag   == token.type \in {"START_TAG", "END_TAG"}
             states == {t.state} \cup (IF token.type = "START_TAG"
                                       THEN {ContentState(token.value.name)} ELSE {})
  <2>1. states \subseteq {t.state} \cup Texts
    BY DEF ContentState, Texts
  <2>2. text' = text
    BY DEF Construct
  <2>3. \E state \in states : \E foreign :
          t' = [t EXCEPT !.emitted = FALSE, !.state = state, !.foreign = foreign,
                         !.content = IF token.type = "START_TAG"
                                     THEN [from |-> t.pos, state |-> state, name |-> t.last]
                                     ELSE @]
    BY DEF Construct
  <2> HIDE DEF states
  <2>4. QED BY <2>1, <2>2, <2>3
<1> DEFINE r == [t EXCEPT !.emitted = FALSE, !.state = state, !.foreign = foreign,
                          !.content = content]
<1>3. /\ DOMAIN r = StateFields /\ r.emitted = FALSE /\ r.state = state
      /\ r.pos = t.pos /\ r.mark = t.mark /\ r.resume = t.resume /\ r.start = t.start
      /\ r.return = t.return /\ r.reconsume = t.reconsume /\ r.buffered = t.buffered
      /\ r.code = t.code /\ r.tmp = t.tmp /\ r.tag = t.tag /\ r.doctype = t.doctype
      /\ r.out = t.out /\ r.failed = t.failed
  BY <1>1 DEF Kept, Shape, StateFields
<1>4. t' = r /\ text' = text
  BY <1>2
<1> HIDE DEF r
<1>5. CanEmit(t) /\ TextState(t) /\ Closed(t) /\ Covered(t.start, t.pos, Dropped)
  BY <1>1, SteadyIs
<1>6. Texts \subseteq Plain
  BY DEF Plain
<1>7. r.state \in Plain \cup {"AMBIGUOUS_AMPERSAND"} /\ r.state \in AllStates
  BY <1>1, <1>2, <1>3, <1>6, TextStates DEF Steady
<1>8. ~InTag(r)
  <2>1. CASE state = t.state
    BY <1>1, <1>3, <2>1 DEF Steady, InTag
  <2>2. CASE state \in Texts
    BY <1>3, <2>2 DEF InTag, Texts, BuildsTag, Attributes, References
  <2>3. QED BY <1>2, <2>1, <2>2
<1>9. Shape(r) /\ Places(r) /\ Steady(r)
  BY <1>1, <1>3, <1>7, <1>8 DEF Kept, Shape, Places, Steady
<1>10. r.state \notin Doctypes /\ r.state \notin Unused /\ r.state \notin MayBeText
       /\ r.state \notin Values /\ r.state # "AFTER_ATTR_NAME"
       /\ r.state \notin {"TAG_OPEN", "END_TAG_OPEN", "MARKUP_DECLARATION_OPEN",
                          "CDATA_SECTION_BRACKET", "CDATA_SECTION_END"}
  BY <1>7 DEF Plain, Texts, Doctypes, Unused, MayBeText, NamesEndTag, Values, InValue
<1>11. Owns(r) /\ Between(r)
  BY <1>3, <1>5, <1>8, <1>9, <1>10 DEF Owns, Between, Closed
<1>12. ~ReadsValue(r)
  BY <1>8, <1>10 DEF ReadsValue, Values, InTag
<1>13. Clean(r)
  BY <1>10, <1>12 DEF Clean
<1>14. /\ r.state \in References => r.state = "AMBIGUOUS_AMPERSAND"
       /\ r.state \notin InComment
  BY <1>7, NoComments DEF Plain, Texts, References
<1>15. Stands(r)
  BY <1>3, <1>5, <1>8, <1>9, <1>10, <1>14 DEF Stands, Steady
<1>16. Kept(r)
  BY <1>1, <1>3, <1>7, <1>9, <1>11, <1>13, <1>15 DEF Kept
<1>17. QED BY <1>1, <1>4, <1>16, KeptSame DEF Inv

\* The tokenizer starts in a state of text, with nothing read.
LEMMA InitKept == Init => Inv
<1>1. SUFFICES ASSUME Init PROVE Inv
  OBVIOUS
<1>2. PICK state \in Texts :
        t = [gumbo_tokenizer_state_init EXCEPT !.state = state, !.content.state = state]
  BY <1>1 DEF Init, InitWith
<1>3. /\ DOMAIN t = StateFields /\ t.pos = 1 /\ t.mark = 1 /\ t.resume = 0 /\ t.start = 1
      /\ t.state = state /\ t.return = "DATA" /\ t.reconsume = FALSE /\ t.buffered = NoChar
      /\ t.code = 0 /\ t.tag = NoTag /\ t.doctype = NoDoctype /\ t.out = <<>>
      /\ t.emitted = FALSE /\ t.failed = FALSE
  BY <1>2 DEF gumbo_tokenizer_state_init, StateFields
<1>4. text \in Seq(Symbols) /\ Len(text) \in Nat
  BY <1>1 DEF Init, InitWith
<1>5. Shape(t)
  BY <1>3, NoTagIs, NoDoctypeIs DEF Shape
<1>6. Places(t)
  <2>1. MaxChar \in Nat
    BY DEF MaxChar
  <2>2. QED BY <1>3, <1>4, <2>1 DEF Places
<1>7. /\ t.state \in Plain /\ t.state \in AllStates /\ t.state \notin Doctypes
      /\ t.state \notin Unused /\ t.state \notin MayBeText /\ t.state \notin References
      /\ t.state \notin Values /\ t.state # "AFTER_ATTR_NAME" /\ t.state \notin BuildsTag
      /\ t.state \notin {"TAG_OPEN", "END_TAG_OPEN", "MARKUP_DECLARATION_OPEN",
                         "CDATA_SECTION_BRACKET", "CDATA_SECTION_END", "AMBIGUOUS_AMPERSAND"}
  BY <1>3 DEF Plain, AllStates, Texts, Doctypes, Unused, MayBeText, NamesEndTag, References,
              Values, InValue, BuildsTag, Attributes
<1>8. ~InTag(t)
  BY <1>7 DEF InTag
<1>9. Owns(t) /\ Between(t)
  BY <1>3, <1>7, <1>8, NoTagIs, NoDoctypeIs DEF Owns, Between
<1>10. History(t.out, t.start)
  <2>1. <<>> \in Seq({}) /\ Len(<<>>) = 0 /\ DOMAIN <<>> = {}
    OBVIOUS
  <2>2. QED BY <1>3, <2>1 DEF History, IsSeq
<1>11. Clean(t)
  BY <1>7 DEF Clean, ReadsValue, Values
<1>12. Covered(t.start, t.pos, Dropped)
  BY <1>3, CoveredNothing
<1>13. Stands(t)
  <2>1. t.state \notin InComment
    BY <1>7, NoComments
  <2>2. QED BY <1>3, <1>7, <1>8, <1>12, <2>1 DEF Stands
<1>14. QED BY <1>3, <1>4, <1>5, <1>6, <1>7, <1>9, <1>10, <1>11, <1>13 DEF Inv, Kept

\* a step of a handler
LEMMA StepKept ==
  ASSUME Inv, NEW handled, Step(handled), Kept(Advanced(handled))
  PROVE  Inv'
<1> DEFINE r == Advanced(handled)
<1>1. t' = r /\ text' = text
  BY DEF Step
<1> HIDE DEF r
<1>2. Kept(r)
  BY DEF r
<1>3. QED BY <1>1, <1>2, KeptSame DEF Inv

\* Every step of gumbo_lex, and of its caller between two tokens, keeps the invariant.
LEMMA NextKept == Inv /\ [Next]_vars => Inv'
<1>1. SUFFICES ASSUME Inv, [Next]_vars PROVE Inv'
  OBVIOUS
<1> DEFINE s == Lex(t)
<1>2. CASE BufferedCharacter
  BY <1>1, <1>2, BufferedKept
<1>3. CASE FromMark
  BY <1>1, <1>3, FromMarkKept
<1>4. CASE Text
  <2>1. Lexing(Texts) /\ Step(LexText(s, Current(t)))
    BY <1>4 DEF Text
  <2>2. Ready(s) /\ s.state \in Texts /\ Current(s) = Current(t)
    BY <1>1, <2>1, LexingReady
  <2> HIDE DEF s
  <2>3. Kept(Advanced(LexText(s, Current(t))))
    BY <2>2, LexTextKept
  <2>4. QED BY <1>1, <2>1, <2>3, StepKept
<1>5. CASE EndTag
  <2>1. Lexing(EndTags) /\ Step(LexEndTag(s, Current(t)))
    BY <1>5 DEF EndTag
  <2>2. Ready(s) /\ s.state \in EndTags /\ Current(s) = Current(t)
    BY <1>1, <2>1, LexingReady
  <2> HIDE DEF s
  <2>3. Kept(Advanced(LexEndTag(s, Current(t))))
    BY <2>2, LexEndTagKept
  <2>4. QED BY <1>1, <2>1, <2>3, StepKept
<1>6. CASE Script
  <2>1. Lexing(Scripts) /\ Step(LexScript(s, Current(t)))
    BY <1>6 DEF Script
  <2>2. Ready(s) /\ s.state \in Scripts /\ Current(s) = Current(t)
    BY <1>1, <2>1, LexingReady
  <2> HIDE DEF s
  <2>3. Kept(Advanced(LexScript(s, Current(t))))
    BY <2>2, LexScriptKept
  <2>4. QED BY <1>1, <2>1, <2>3, StepKept
<1>7. CASE TagPart
  <2>1. Lexing(Tags) /\ Step(LexTag(s, Current(t)))
    BY <1>7 DEF TagPart
  <2>2. Ready(s) /\ s.state \in Tags /\ Current(s) = Current(t)
    BY <1>1, <2>1, LexingReady
  <2> HIDE DEF s
  <2>3. Kept(Advanced(LexTag(s, Current(t))))
    BY <2>2, LexTagKept
  <2>4. QED BY <1>1, <2>1, <2>3, StepKept
<1>8. CASE Comment
  <2>1. Lexing(Comments) /\ Step(LexComment(s, Current(t)))
    BY <1>8 DEF Comment
  <2>2. Ready(s) /\ s.state \in Comments /\ Current(s) = Current(t)
    BY <1>1, <2>1, LexingReady
  <2> HIDE DEF s
  <2>3. Kept(Advanced(LexComment(s, Current(t))))
    BY <2>2, LexCommentKept
  <2>4. QED BY <1>1, <2>1, <2>3, StepKept
<1>9. CASE Doctype
  <2>1. Lexing(Doctypes) /\ Step(LexDoctype(s, Current(t)))
    BY <1>9 DEF Doctype
  <2>2. Ready(s) /\ s.state \in Doctypes /\ Current(s) = Current(t)
    BY <1>1, <2>1, LexingReady
  <2> HIDE DEF s
  <2>3. Kept(Advanced(LexDoctype(s, Current(t))))
    BY <2>2, LexDoctypeKept
  <2>4. QED BY <1>1, <2>1, <2>3, StepKept
<1>10. CASE CData
  <2>1. Lexing(CDatas) /\ Step(LexCData(s, Current(t)))
    BY <1>10 DEF CData
  <2>2. Ready(s) /\ s.state \in CDatas /\ Current(s) = Current(t)
    BY <1>1, <2>1, LexingReady
  <2> HIDE DEF s
  <2>3. Kept(Advanced(LexCData(s, Current(t))))
    BY <2>2, LexCDataKept
  <2>4. QED BY <1>1, <2>1, <2>3, StepKept
<1>11. CASE Reference
  <2>1. Lexing(References) /\ Step(LexReference(s, Current(t)))
    BY <1>11 DEF Reference
  <2>2. Ready(s) /\ s.state \in References /\ Current(s) = Current(t)
    BY <1>1, <2>1, LexingReady
  <2> HIDE DEF s
  <2>3. Kept(Advanced(LexReference(s, Current(t))))
    BY <2>2, LexReferenceKept
  <2>4. QED BY <1>1, <2>1, <2>3, StepKept
<1>12. CASE Construct
  BY <1>1, <1>12, ConstructKept
<1>13. CASE UNCHANGED vars
  <2>1. t' = t /\ text' = text
    BY <1>13 DEF vars
  <2>2. QED BY <1>1, <2>1, KeptSame DEF Inv
<1>14. QED BY <1>1, <1>2, <1>3, <1>4, <1>5, <1>6, <1>7, <1>8, <1>9, <1>10, <1>11, <1>12, <1>13
       DEF Next

\* The inductive invariant holds of every text, in every state that tree
\* construction may start or put the tokenizer in.
THEOREM Invariant == Spec => []Inv
<1>1. QED BY InitKept, NextKept, PTL DEF Spec

\* The places lie in the text, in order, and the code in its bound (TypeOK).
THEOREM TypeCorrect == Spec => []TypeOK
<1>1. Inv => TypeOK
  BY DEF Inv, Kept, Places, AllStates, TypeOK
<1>2. QED BY <1>1, Invariant, PTL

\* No assertion of tokenizer.c fails, and after any token the tokenizer may
\* be destroyed, whatever the text (assert, gumbo_tokenizer_state_destroy).
THEOREM AssertionsAlwaysHold == Spec => []AssertionsHold
<1>1. Inv => AssertionsHold
  BY DEF Inv, Kept, Owns, AssertionsHold, gumbo_tokenizer_state_destroy
<1>2. QED BY <1>1, Invariant, PTL

\* The buffers of a tag and the strings of a doctype are allocated exactly
\* while one is read (start_new_tag, finish_tag, abandon_current_tag, emit_doctype).
THEOREM AlwaysOwnsWhatItBuilds == Spec => []OwnsWhatItBuilds
<1>1. Inv => OwnsWhatItBuilds
  BY DEF Inv, Kept, Owns, InTag, InValue, OwnsWhatItBuilds, character_reference_part_of_attribute
<1>2. QED BY <1>1, Invariant, PTL

\* What is text is emitted once and in order, whatever was tried first: the
\* tokens follow each other with only </> and CDATA brackets between them
\* (emit_from_mark, emit_char, finish_token).
THEOREM EveryCharacterOnceHolds == Spec => []EveryCharacterOnce
<1>1. Inv => EveryCharacterOnce
  BY DEF Inv, Kept, History, Rightly, EveryCharacterOnce
<1>2. QED BY <1>1, Invariant, PTL

\* Attributes of different names are as many as their names.
LEMMA DifferentNames ==
  ASSUME NEW attributes, Differ(attributes)
  PROVE  Cardinality(Names(attributes)) = Len(attributes)
<1> DEFINE n == Len(attributes)
           f == [i \in 1 .. n |-> attributes[i].name]
<1>1. n \in Nat /\ DOMAIN attributes = 1 .. n
  BY AppendSeq DEF Differ
<1>2. f \in Bijection(1 .. n, Names(attributes))
  <2>1. f \in [1 .. n -> Names(attributes)]
    BY <1>1 DEF Names
  <2>2. \A i, j \in 1 .. n : f[i] = f[j] => i = j
    BY <1>1 DEF Differ
  <2>3. \A name \in Names(attributes) : \E i \in 1 .. n : f[i] = name
    BY <1>1 DEF Names
  <2> HIDE DEF f, n
  <2>4. QED BY <2>1, <2>2, <2>3, Fun_IsBij
<1>3. QED BY <1>1, <1>2, FS_CountingElements DEF ExistsBijection

\* A start tag has no two attributes of one name, and no more than are allowed:
\* finish_attribute_name finds a duplicate in the list or in the hash map.
THEOREM AttributesAlwaysDiffer == Spec => []AttributesDiffer
<1>1. Inv => AttributesDiffer
  BY DifferentNames DEF Inv, Kept, History, Rightly, Differ, AttributesDiffer
<1>2. QED BY <1>1, Invariant, PTL

\* A comment has the text between its delimiters, whatever is read: nothing is
\* left in the temporary buffer of what was read before, and no dash is too
\* many or too few (handle_comment_*_state, handle_bogus_comment_state, emit_comment).
THEOREM CommentsAlwaysAgree == Spec => []CommentsAgree
<1>1. Inv => CommentsAgree
  BY DEF Inv, Kept, History, Rightly, CommentsAgree
<1>2. QED BY <1>1, Invariant, PTL
=============================================================================
