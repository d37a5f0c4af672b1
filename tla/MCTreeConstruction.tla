-------------------------- MODULE MCTreeConstruction --------------------------
EXTENDS Html5Binding

S(tag) == Token("start", tag, {}, FALSE)
Void(tag) == Token("start", tag, {}, TRUE)
E(tag) == Token("end", tag, {}, FALSE)
With(tag, attr) == Token("start", tag, {attr}, FALSE)
Char == Token("char", "", {}, FALSE)
Space == Token("ws", "", {}, FALSE)
Linefeed == Token("ws", "lf", {}, FALSE)
Null == Token("null", "", {}, FALSE)
Cdata == Token("cdata", "", {}, FALSE)
Comment == Token("comment", "", {}, FALSE)
Doctype == Token("doctype", "", {}, FALSE)

Suite(ctx, prefix, tokens, more) ==
  [ctx |-> ctx, prefix |-> prefix, tokens |-> tokens, length |-> Len(prefix) + more, noscript |-> FALSE,
   max_tree_depth |-> 400]
Document(prefix, tokens, more) == Suite(<<>>, prefix, tokens, more)

Shallow(depth, s) == [s EXCEPT !.max_tree_depth = depth]

Starts(tags) == {S(t) : t \in tags}
Ends(tags) == {E(t) : t \in tags}

CONSTANT Scale   \* tokens in any order after the prefix of a suite

MCSuites == {
  \* the skeleton of a document
  Document(<<>>, Starts({"html", "head", "body", "noscript", "title"}) \cup
    Ends({"html", "head", "body", "noscript", "title"}) \cup {Char, Space, Comment, Doctype}, Scale),
  Document(<<Doctype, S("head")>>, Starts({"script", "base", "template", "noscript", "style"}) \cup
    Ends({"template", "script", "noscript", "head"}) \cup {Char, Comment, Space, E("br")}, Scale),
  \* framesets, with text before them or not
  Document(<<S("p")>>, Starts({"b", "frameset", "frame", "noframes", "body", "form"}) \cup
    Ends({"frameset", "noframes", "html", "body"}) \cup {Char, Space}, Scale),
  \* misnested formatting
  Document(<<Doctype, S("body")>>, Starts({"a", "b", "p", "div"}) \cup
    Ends({"a", "b", "div"}) \cup {Char}, Scale + 1),
  Document(<<S("a"), S("b"), S("i"), S("u"), S("font")>>,
    Starts({"p", "a", "b", "address"}) \cup Ends({"a", "b", "i", "address"}), Scale),
  Document(<<S("nobr"), With("font", "color"), S("b"), S("b"), S("b")>>,
    Starts({"b", "nobr", "object", "p"}) \cup Ends({"b", "object", "font", "nobr", "p"}), Scale),
  \* tables and what they do not hold
  Document(<<S("table")>>, Starts({"tr", "td", "caption", "col", "b", "tbody"}) \cup
    Ends({"table", "td", "caption", "tr", "colgroup"}) \cup {Char, Space}, Scale),
  Document(<<S("a"), S("p"), S("table"), S("tr")>>, Starts({"a", "td", "select", "svg", "form", "table"}) \cup
    Ends({"a", "table", "form"}) \cup {Char, With("input", "hidden"), Null}, Scale),
  Document(<<S("table"), S("tr"), S("td")>>, Starts({"select", "option", "optgroup", "tr", "input", "object"}) \cup
    Ends({"select", "option", "optgroup", "td", "table", "object"}), Scale),
  \* templates
  Document(<<>>, Starts({"template", "td", "col", "b", "select", "tr", "table"}) \cup
    Ends({"template", "table"}) \cup {Char, Space}, Scale),
  \* foreign content
  Document(<<S("p")>>, Starts({"svg", "math", "desc", "mi", "p"}) \cup Ends({"svg", "p"}) \cup
    {Char, Cdata, Void("svg"), Void("title"), Null, With("annotation-xml", "encoding")}, Scale),
  \* lists, forms and blocks
  Document(<<S("form"), S("ol")>>, Starts({"li", "dd", "form", "h1", "button", "hr"}) \cup
    Ends({"li", "form", "ol", "h2", "button", "dd"}) \cup {Char}, Scale),
  Document(<<S("div")>>, Starts({"pre", "textarea", "ruby", "rt", "rtc", "plaintext", "xmp", "br", "iframe"}) \cup
    Ends({"pre", "textarea", "ruby", "br"}) \cup {Linefeed}, Scale - 1),
  \* the parse ends at a depth, in the middle of anything
  Shallow(5, Document(<<>>, Starts({"template", "table", "td", "form", "b", "p", "svg", "select"}) \cup
    Ends({"form", "table", "b"}) \cup {Char}, Scale)),
  Shallow(4, Document(<<Doctype>>, Starts({"pre", "title", "object", "a", "desc", "math", "frameset", "li"}) \cup
    Ends({"a", "title"}) \cup {Char, Space, Void("svg")}, Scale)),
  Shallow(2, Suite(<<"html", "template">>, <<>>, Starts({"tr", "td", "b", "template"}) \cup {Char, E("template")}, Scale)),
  \* fragments
  Suite(<<"html", "td">>, <<>>, Starts({"tr", "td", "b", "body"}) \cup Ends({"td", "html", "table"}) \cup {Char}, Scale),
  Suite(<<"html", "template">>, <<>>, Starts({"tr", "td", "b", "template"}) \cup Ends({"template", "tr"}) \cup {Char}, Scale),
  Suite(<<"html", "select">>, <<>>, Starts({"option", "input", "select", "hr"}) \cup Ends({"select", "option"}) \cup {Char}, Scale),
  Suite(<<"html", "form">>, <<S("div")>>, Starts({"form", "p"}) \cup Ends({"form", "div", "body"}) \cup {Char}, Scale),
  Suite(<<"html", "frameset">>, <<>>, Starts({"frame", "frameset"}) \cup Ends({"frameset", "html"}) \cup {Comment}, Scale),
  Suite(<<"html", "title">>, <<>>, {Char, Space}, Scale),
  Suite(<<"svg", "svg">>, <<>>, Starts({"p", "desc", "svg"}) \cup Ends({"p", "svg", "html"}) \cup {Char, Cdata}, Scale) }
=============================================================================
