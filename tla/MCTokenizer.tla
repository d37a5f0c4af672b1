------------------------------ MODULE MCTokenizer ------------------------------
(* Short texts: every text over a few symbols after a beginning that leads into *)
(* one part of the tokenizer, and tags, references and doctypes that are        *)
(* written piece by piece, so that what must be read is known.                  *)
EXTENDS Tokenizer, SequencesExt

After(begin, symbols, n) == {begin \o s : s \in UNION {[1..k -> symbols] : k \in 0..n}}

Title   == <<"<", "title", ">">>
Style   == <<"<", "style", ">">>
Script_ == <<"<", "script", ">">>
Svg     == <<"<", "svg", ">">>
Doctype_ == <<"<", "!", "DOCTYPE">>

AnyText ==
  UNION { After(<<>>, {"<", "/", "!", ">", "a", "?", NUL}, 4),
          After(<<"<", "a", " ">>, {"a", "=", "\"", " ", "/", ">", "&"}, 3),
          After(<<"<", "a", " ", "b", "=">>, {"a", "'", "\"", "<", ">", "&", NUL}, 3),
          After(<<"<", "!", "-", "-">>, {"-", "!", ">", "<", "a"}, 4),
          After(Title, {"<", "/", "title", ">", "a", "&", NUL}, 2),
          After(Title \o <<"<">>, {"<", "/", "title", ">", "a", "&", NUL}, 3),
          After(Style \o <<"<", "/">>, {"<", "/", "style", " ", "A", NUL}, 3),
          After(Script_ \o <<"<">>, {"<", "/", "script", ">", "!", "-"}, 4),
          After(Script_ \o <<"<", "!", "-", "-">>, {"<", "/", "script", ">", "-"}, 4),
          After(Script_ \o <<"<", "!", "-", "-">>, {"<", " ", "script", "-", NUL}, 3),
          After(Script_ \o <<"<", "!", "-", "-", "<", "script", ">">>,
                {"<", "/", "script", "-", ">"}, 4),
          After(Script_ \o <<"<", "!", "-", "-", "<", "script", ">", "<", "/", "script", ">">>,
                {"<", "/", "script", ">", "-"}, 4),
          After(Svg \o <<"<", "!", "[CDATA[">>, {"]", ">", "a", "<", NUL}, 4),
          After(<<"<", "plaintext", ">">>, {"<", "/", "plaintext", ">", NUL}, 3),
          After(<<"<", "!">>, {"DOCTYPE", "[CDATA[", "-", ">"}, 2),
          After(Doctype_, {" ", "a", "PUBLIC", "\"", ">", NUL}, 3),
          After(Doctype_ \o <<" ", "a", " ", "SYSTEM">>, {" ", "a", "'", "\"", ">", NUL}, 3),
          After(Doctype_ \o <<" ", "a", " ", "PUBLIC", " ", "\"", "A">>, {" ", "a", "'", "\"", ">"}, 3),
          After(Doctype_ \o <<" ", "a", " ", "PUBLIC", "'", "A", "'", "\"">>, {"\"", "a", ">", NUL}, 3),
          After(<<"&", "#">>, {"x", "0", "9", "65", "128", "55296", "1114112", ";"}, 3),
          After(<<"&">>, {"amp", "not", "in", ";", "=", "a", "nGg", "<"}, 3) }

\* A piece is a sequence of symbols, and what must be made of it.
Piece(symbols, means) == [text |-> symbols, means |-> means]

Read(pieces) == FlattenSeq([i \in DOMAIN pieces |-> pieces[i].text])

Sequences(pieces, n) == UNION {[1..k -> pieces] : k \in 0..n}

Attribute(name, value) == [name |-> <<name>>, value |-> value]

\* Of two attributes with one name the first counts, and there is a limit.
Kept(attributes) ==
  LET keep == {i \in DOMAIN attributes :
                  \A j \in 1..(i - 1) : attributes[j].name # attributes[i].name}
      kept[i \in 0..Len(attributes)] ==
        IF i = 0 THEN <<>>
        ELSE IF i \in keep /\ Len(kept[i - 1]) < MaxAttributes
        THEN Append(kept[i - 1], attributes[i]) ELSE kept[i - 1]
  IN  kept[Len(attributes)]

AttributePieces ==
  { Piece(<<" ", "a">>, Attribute("a", <<>>)),
    Piece(<<" ", "A", " ", "=", " ", "b">>, Attribute("a", <<"b">>)),
    Piece(<<" ", "b", "=", "\"", "&", "not", "in", ";", "\"">>, Attribute("b", <<"U+2209">>)),
    Piece(<<" ", "b", "=", "'", "&", "not", "a", "'">>, Attribute("b", <<"&", "not", "a">>)),
    Piece(<<" ", "/", "x", "=", "&", "#", "65", ";", "&", "nGg", ";">>,
          Attribute("x", <<"&#65", "U+22D9", "U+338">>)),
    Piece(<<" ", "style", "=", "\"", "\"">>, Attribute("style", <<>>)) }

Tags_ == {[text   |-> <<"<", "b">> \o Read(s) \o <<" ", ">">>,
           tokens |-> <<[type |-> "START_TAG",
                         value |-> [name |-> <<"b">>, self_closing |-> FALSE,
                                    attributes |-> Kept([i \in DOMAIN s |-> s[i].means])]]>>]
            : s \in Sequences(AttributePieces, 4)}

Characters_(values) == [i \in DOMAIN values |->
                          [type |-> get_char_token_type(FALSE, values[i]), value |-> values[i]]]

ReferencePieces ==
  { Piece(<<"&", "amp", ";">>, <<"U+26">>), Piece(<<"&", "not">>, <<"U+AC">>),
    Piece(<<"&", "not", "in", ";">>, <<"U+2209">>), Piece(<<"&", "nGg", ";">>, <<"U+22D9", "U+338">>),
    Piece(<<"&", "#", "9", ";">>, <<"&#9">>), Piece(<<"&", "#", "128", ";">>, <<"&#8364">>),
    Piece(<<"&", "#", "x", "A", "0", ";">>, <<"&#160">>), Piece(<<"&", "#", "55296", ";">>, <<"&#65533">>),
    Piece(<<"&", "#", "11111111111", ";">>, <<"&#65533">>), Piece(<<"&", "#", "x">>, <<"&", "#", "x">>),
    Piece(<<"&", "a", ";">>, <<"&", "a", ";">>), Piece(<<" ">>, <<" ">>) }

References_ == {[text   |-> Read(s),
                 tokens |-> Characters_(FlattenSeq([i \in DOMAIN s |-> s[i].means]))]
                  : s \in Sequences(ReferencePieces, 2)}

Identifiers ==
  { Piece(<<>>, NoDoctype),
    Piece(<<" ", "SYSTEM", " ", "'", "a", "\"", "'">>,
          [NoDoctype EXCEPT !.system = <<"a", "\"">>, !.has_system = TRUE]),
    Piece(<<" ", "PUBLIC", " ", " ", "\"", "A", "'", "\"">>,
          [NoDoctype EXCEPT !.public = <<"A", "'">>, !.has_public = TRUE]),
    Piece(<<" ", "PUBLIC", "'", "'", " ", "\"", "b", " ", "\"">>,
          [NoDoctype EXCEPT !.system = <<"b", " ">>, !.has_public = TRUE, !.has_system = TRUE]) }

Doctypes_ == {[text   |-> Doctype_ \o <<" ", "A", "b">> \o p.text \o end \o <<"a">>,
               tokens |-> <<[type |-> "DOCTYPE",
                             value |-> [p.means EXCEPT !.owned = TRUE, !.name = <<"a", "b">>]]>>
                          \o Characters_(<<"a">>)]
                : p \in Identifiers, end \in {<<">">>, <<" ", ">">>}}

Written == Tags_ \cup References_ \cup Doctypes_

\* In a fragment of the contents of title no end tag is appropriate.
Fragments == After(<<"<", "/">>, {"title", ">", "!", "-", "a", NUL}, 2)

MCInit == \/ InitWith(AnyText \cup {w.text : w \in Written}, {"DATA"})
          \/ InitWith(Fragments, {"RCDATA", "RAWTEXT", "SCRIPT_DATA", "PLAINTEXT"})

MCSpec == MCInit /\ [][Next]_vars /\ WF_vars(Next)

Tokens == [i \in 1..(Len(t.out) - 1) |-> [type |-> t.out[i].type, value |-> t.out[i].value]]

\* A start tag has the attributes it was written with, of one name the first;
\* a reference stands for its character, in text and in a value; a doctype has
\* its name and identifiers: whatever was read before leaves nothing behind.  No
\* tag, of these or any other text, has two attributes of one name.
ReadsWhatWasWritten ==
  /\ Done => \A w \in Written : w.text = text => Tokens = w.tokens
  /\ AttributesDiffer
=============================================================================
