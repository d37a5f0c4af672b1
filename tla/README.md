# A verification model of Nokogiri

Nokogiri gives Ruby programs XML and HTML documents. Its C extension binds
libxml2 (parsing, trees, XPath, XSLT, validation) to Ruby objects, and carries
its own HTML5 parser, a fork of Gumbo. What the extension adds to libxml2, and
what can therefore be wrong in this repository, is mostly four things: who owns
a C node when Ruby's collector and libxml2 both free memory; who receives an
error when the library's global state is swapped around every call; HTML5
parsing; and the translation of CSS selectors. This project models all four.

Contents: 1 inventory, 2 modules (memory, node sets, error handlers, HTML5 tree
construction, HTML5 tokenizer, CSS), 3 runs, 4 proofs, 5 where code and text
disagree, 6 plan, 7 not modelled.

## 1. Inventory

| Component | State it keeps | Operations | Talks to |
|---|---|---|---|
| Node and document memory (`ext/nokogiri/xml_document.c`, `xml_node.c`, `xml_attr.c`) | the tuple of a document (`unlinkedNodes`, `node_cache`), `node->_private`, `DATA_PTR` of a wrapper | wrap, navigate, new, dup (of nodes and documents), unlink, add_child, add_*_sibling, replace, `root=`, `[]=`, `value=`, `native_content=`, XInclude, mark, dealloc | libxml2's tree functions, Ruby's collector |
| Structured error handlers (`xml_syntax_error.c` and 21 callers) | libxml2's handler, one per thread | save and set, restore, reset, report | every parser, evaluator and validator; Ruby callbacks |
| Node sets (`xml_node_set.c`) | array of raw node pointers, `@document` | push, delete, union, minus, unlink, slices | nodes, XPath |
| Namespaces (`xml_namespace.c`, `relink_namespace`) | `nsDef` lists, pinned namespaces, copies found by XPath | wrap, free, relink on reparenting | nodes, node sets |
| Blank-text removal (`noko_xml_document_has_wrapped_blanks_p`) | reads `node_cache` | refuse to parse from a document | schemas, nodes |
| XPath (`xml_xpath_context.c`) | context, registered functions, `userData` | evaluate, call Ruby functions | error handlers, node sets |
| XSLT (`xslt_stylesheet.c`) | list of extension instances per transformation | parse, transform, call Ruby methods | XPath, documents |
| SAX and push parsers | parser context, SAX handler object | parse_with, native_write, callbacks | error handlers, Ruby |
| Reader (`xml_reader.c`) | cursor, `@errors` | read, expand, inner_xml | error handlers, IO |
| Validation (`xml_schema.c`, `xml_relax_ng.c`, `xml_dtd.c`) | compiled schema | parse, from_document, validate | error handlers, documents |
| HTML5 tree construction (`gumbo-parser/src/parser.c`) | the output tree, stack of open elements, active formatting elements, insertion mode, stack of template modes, buffered text | one handler per insertion mode | tokenizer |
| HTML5 tokenizer (`tokenizer.c`, `utf8.c`, `char_ref.c`) | state, temporary buffer, tag and doctype under construction, mark | one handler per state | tree construction switches its state |
| HTML5 binding (`ext/nokogiri/gumbo.c`) | - | build_tree, options, errors | HTML5 parser, libxml2 |
| CSS selectors (`lib/nokogiri/css`) | - | tokenize, parse, visit | XPath |
| CSS selector cache (`css.rb`, `selector_cache.rb`) | a hash that all threads share, guarded by a mutex | xpath_for, clear_cache | CSS selectors |
| Ruby API (`lib/nokogiri/xml`) | Builder's stack of parents, a fragment's children, ParseOptions | coerce, add_sibling, replace, builder insertion | nodes |
| Java implementation (`ext/java`), build files | - | a second implementation for JRuby | - |

The behaviours that are hard to test are the sequences of legal calls after
which a wrapper names freed memory (each step is harmless, the crash comes at a
later collection), the steps of libxml2 that free a node as a side effect
(merging texts), operations that fail half way (a cycle is noticed after the
tree was changed), operations nested through callbacks, token sequences that
send the HTML5 parser through rarely combined modes, and texts that look like
markup until their last character. There are no threads inside the extension: it
runs under Ruby's global lock, so what interleaves is the program's calls, the
callbacks and the collector; the selector cache is Ruby code, where threads do
interleave. `PROJECT.json` lists each hazard at its line.

What makes each component correct:

- memory: a wrapper that Ruby can reach points at allocated memory of a live
  document, every node is freed exactly once, and a node has one wrapper;
- node sets: the set operations of mathematics, no pointer to a freed node, and
  a copied namespace is freed once;
- error handlers: an operation receives the errors that libxml2 reports while it
  is the innermost one, other code's handler is not called and not lost, and no
  handler outlives the array it points at;
- HTML5: every token sequence ends with one tree that holds every node once, the
  lists of open and formatting elements agree with it, and nothing leaks; every
  text is read to its end, each character once;
- selectors: the XPath selects what the selector does, and the cache returns
  what the visitor passed would produce.

## 2. Modules

| Module | What it is |
|---|---|
| `NodeLifecycle` | documents, nodes, wrappers and the collector |
| `NodeSets` | node sets, copied namespaces and XPath callbacks, on the heap of `NodeLifecycle` |
| `ErrorReporting` | abstract: what an operation promises about errors |
| `ErrorHandlers` | the handler, the operations that swap it, and how they nest |
| `GumboTree` | the tree of a parse: making, placing, moving and freeing nodes, scopes |
| `GumboFormatting` | active formatting elements, adoption agency, foster parenting |
| `GumboModes`, `GumboTables` | one operator per insertion mode |
| `TreeConstruction` | the loop of `gumbo_parse_with_options` and `gumbo_destroy_output` |
| `Html5Binding` | `build_tree`: the libxml2 tree made of the result |
| `TokenizerState` | what the tokenizer keeps, how it emits, the mark |
| `TokenizerText`, `TokenizerMarkup` | the handlers of its states, references included |
| `Tokenizer` | `gumbo_lex`, the loop that calls it, and the properties |
| `XPathQueries` | XPath 1.0 for the expressions that the visitor writes |
| `CssSelectors` | syntax trees of selectors, and the visitor |
| `CssMatching` | reference: what CSS says a selector selects |
| `Translator` | abstract: `xpath_for` without a cache |
| `SelectorCache` | `xpath_for` with the cache that threads share |
| `NodeLifecycleHeap` | theorems: what a sound heap is, and that each C function keeps it sound, up to `reparent_node_with` |
| `NodeLifecycleProofs` | theorems: documents, `root=`, attributes, contents, the deallocation; then the inductive invariant, one lemma for each action, and what follows |
| `NodeLifecycleLeaks` | theorems: no node is lost |
| `NodeSetsProofs` | theorems: sets and namespaces, on top of the theorems of the heap |
| `TokenizerProofs` | theorems: one lemma for each group of states, and what follows for every text |
| `TokenizerContentProofs` | theorems: where the contents of title, style and script and CDATA sections end |
| `ErrorHandlersProofs`, `SelectorCacheProofs` | theorems |
| `MC...` | instances for TLC |

### NodeLifecycle

The state is one record `heap` (the C heap, and the pointers between C and
Ruby), the state of each document, the set `held` of objects the Ruby program
refers to, and the history variable `lost`. A C function is an operator from
heap to heap with its C name (`reparent_node_with`, `noko_xml_node_wrap`,
`noko_xml_document_pin_node`, ...); an action composes them in the order of the
handler, including the steps after the point of failure. libxml2's functions are
not in this repository: their operators (`xmlAddChild`, `xmlReplaceNode`,
`xmlDocCopyNode`, ...) are written from how the extension relies on them, and
marked external in the map. `SiblingsMerge` says whether
`xmlAddNextSibling`/`xmlAddPrevSibling` merge a text into a text pivot; this
depends on the version of libxml2, and both values are checked.

| Field | C |
|---|---|
| `heap.doc`, `parent`, `kids` | `node->doc`, `parent`, `children`/`next`/`prev` |
| `heap.priv` | `node->_private` |
| `heap.ptr` | `DATA_PTR` of the wrapper |
| `heap.pinned` | `tuple->unlinkedNodes` |
| `heap.cache` | `tuple->node_cache` |
| `heap.alive`, `fresh` | allocated, and never allocated yet |
| `held` | local variables and constants of the program |

`Collect` deallocates one document that marking from `held` does not reach.
An address is allocated at most once, so that a pointer to freed memory stays
visible as such. Contents, names and namespaces are abstracted away; the kinds
of node are those the code tells apart when it moves or frees a node. An
element has at most one attribute, which stands for the one that a program
writes. `Comment` stands for the childless kinds that do not merge, `Ref` for
entity references, which may be put below an attribute, `Frag` for the node of a
document fragment.

Reachability is written without recursion, as a least closed set: `Below` for
the tree (so that a cycle of parent pointers is a legal heap, as in the code,
where `raise_if_ancestor_of_self` finds it after the fact) and `Marked` for the
collector.

Three cases are left out because the code does not say what libxml2 does in
them: an attribute as the pivot of an insertion, an entity reference as a
parent, and any call below an existing cycle (the walk of
`raise_if_ancestor_of_self` would not end). A search (`Found`) is an XPath or
CSS query that matches one node; it is how programs reach a node without
wrapping the nodes on the way.

### NodeSets

The module adds to that heap the arrays of the sets, the copies that libxml2
makes of the namespaces an XPath finds, the Ruby objects that free these copies,
and one evaluation that has called a Ruby function and waits for its return. Of
the operations of `NodeLifecycle`, those that move nodes in a tree and between
documents go on beside the sets (`TreeNext`: `add_child`, `replace`, `unlink`,
forgetting, and the collector). The collector marks what the sets mark: the
wrapper of each member, and the set's document.

`Next` is restricted by `Homogeneous`: a set holds nodes of its own document
only. The run `mixed_sets` shows what happens without that (section 5).

What the operations do where it may surprise: `delete` and `-` compare copied
namespaces by address, `include?`, `push` and `|` by element and prefix, so
`SetAlgebra` speaks of namespaces by element and prefix and of differences for
nodes only. `-` takes one place of a node for each place the node has in the
second set, the first one left (`xpath_node_set_del`, once per member); a node
that is twice in the first set can survive it. `unlink` makes such a set: when a
node went to another document and back, and the set holds the original and the
copy, the wrappers of both point at the copy. `push` and `dup` copy a copied namespace without making a Ruby
object for it, so that copy is never freed (`copies.stray`). After a document
was collected, a namespace object the program still has keeps its prefix but its
element is gone; `Homogeneous` keeps it out of every set.
`SpecSets` is the specification of such a program, from any heap a parser
leaves; the runs start from the few of `MCInit`.
Two wrappers may stand for one node after it moved between documents; this
hazard has no property. Left out: document nodes as members, namespaces that a
document (and not a query) owns, and Ruby classes that override `unlink`.

### ErrorHandlers

Each of the 21 functions that swap the handler is a definition with its C name
(shortened by `_noko_xml_` where a name would start with an underscore), which
says what it installs, what it leaves behind, whether libxml2 can call Ruby
meanwhile, and whether an exception can pass through it. `Enter`, `Report`,
`Leave` and `Raise` nest calls of any of them.

### HTML5 tree construction

The state `p` is the parser and its output; a node is a record of its kind,
namespace, tag, parent, children and `index_within_parent`, and freed nodes are
kept, so that their use can be seen. `bad` collects the assertions of the C code
that failed. Each insertion mode and each algorithm is an operator with its C
name. `Handle` gives the current token to its mode; the loop comes back while
the mode asks for the token to be reprocessed. The token's own buffers have an
owner (`token`, `node` or `freed`), which is how lost and doubly freed buffers
are found.

Texts are "text", "whitespace" or "cdata" nodes without contents, attributes a
set of the few names the code asks about. A tag stands for the tags that every
mode treats alike; the tables of tag sets are the code's, restricted to the
representatives. Parse errors, source positions, `insertion_location` flags and
the quirks doctypes themselves are left out; `quirks` is what a doctype leads to.

A suite of `MCTreeConstruction` is a fragment context or none, a prefix of
tokens, a set of tokens that may follow in any order, and how many: misnested
formatting with the adoption agency past its limit of three inner turns, tables and
foster parenting, templates in tables, foreign content with its integration
points, framesets, forms, lists, raw text, low depth limits, and seven fragment contexts. Between
them they fire every insertion mode.

`NothingLost` is a property of steps: what was in the tree is in it afterwards,
or freed. Termination is stated as a bound on turns (`TurnsBounded`), which is
stronger than liveness under fairness and needs none: the parse loop has no
scheduler.

`max_tree_depth` is an option of a suite. It is checked when a token is drawn and
counts open elements (`parser.c:4793`): the token that exceeds it is handled
whole, a form end tag takes the form off the stack and leaves its content open,
and so the tree may be deeper than the limit. The parse then goes on as at the
end of the file, in whatever mode it is; three suites have a low limit, and the
same properties hold there: the tree is whole and everything is freed. Two kinds of input are outside the
suites, because on them the properties do not hold of the code as it is
written; they are remarks and not findings, since no text in the repository
claims otherwise: a `frameset` start tag after a comment that follows the
body, where the index that `parser.c:2906` relies on is stale, and a `nobr`
inside a `nobr` whose reconstruction leads back through an `a`
(`parser.c:3205`).

The model was compared with the compiled parser on about 15,000 random token
sequences over the tags of the suites, by the tree each produces, and on 4,500
more with depth limits from 1 to 8; there was no difference outside those two
inputs.

`Html5Binding` adds what Nokogiri does with the result: `build_tree` walks the
Gumbo tree without a stack, by `parent` and `index_within_parent`, and climbs
the libxml2 tree in step. It depends on the agreement that `TreeAgrees` states.
Texts that `xmlAddChild` joins become one node. Attributes, line numbers,
errors, options and `parse_cleanup` after an exception are left out.

### HTML5 tokenizer

A text is a sequence of symbols. A symbol is a character, or a word that the
tokenizer compares as a whole (`script`, `[CDATA[`, `DOCTYPE`, the names of
eight references, the numerals that lie on each side of the limits of code
points). The eight references stand for the generated table of `char_ref.c`:
with and without semicolon, a prefix of another one, and two characters in one.

Each state is an operator with the name of its handler. `t.pos` is the
iterator, `t.mark` its mark, `t.start` the start of the token, `t.resume` the
place up to which marked text is emitted again. The buffers of a tag and the
strings of a doctype are owned or not, and `failed` records a violated assertion
or a buffer that is used or freed when it is not there. What tree construction
does to the tokenizer between two tokens (its state after a start tag of a raw
text element, whether the current node is foreign) is done by `Construct`, which
takes every choice the tag allows.

`MCTokenizer` gives it every text of a few symbols after a beginning for each
part of the syntax, and texts put together of pieces of known meaning
(`ReadsWhatWasWritten`). No word follows `&#x`, because the first letters of a
word could be digits of the number. After `</>`, which is dropped, the next
token's original text begins at the dropped tag; `EveryCharacterOnce` allows
this. Decoding errors, positions in lines and columns and error messages are
left out (errors are counted: a decoding error is counted again after
`utf8iterator_reset`, which the code does too). The code takes U+001F for no
control (`utf8.h:80` compares with `<`), and so does the model.

Fairness is `WF_vars(Next)`: `gumbo_parse_with_options` calls `gumbo_lex` until
it has the end of the file, so the tokenizer always goes on.

The model was compared with the compiled tokenizer on about 15,000 random texts
over these symbols; the only differences were words after `&#x`.

### CSS selectors and their cache

`CssSelectors` is the visitor on the syntax trees that `parser.y` builds. What
it writes is kept as XPath would read it: a predicate is a disjunction of
conjunctions, and joining two texts with `" and "` joins the last conjunction of
one with the first of the other, as the visitor's string concatenation does.
`XPathQueries` evaluates it (positions in predicates, axes, `or` and `and`,
`css_class`, which is a C function of `xml_xpath_context.c`). `CssMatching` says
from the outside what is selected, element by element, after Selectors level 3;
where the library means something of its own (`:nth-of-type` counts the siblings
that the conditions before it leave; `first` and `last` are positions) it
follows `test/css/test_css_integration.rb`.

`SelectsWhatMatches` compares the two for about 840 selectors: in flat lists of
up to five elements for everything that counts, two siblings with attributes for
conditions, trees of four elements for combinators, `:has()` and `:not()`, trees
of three elements in two namespaces for names and prefixes, with the context
prefixes `//`, `.//` and `./` and the doctypes that change the translation.

Selectors on which the visitor departs from Selectors 3, and which are therefore
left out of the suites: `|=` beside another condition (the finding `dash_match`);
`an+b` with an a of 0, or with a negative a and a b of 0; an of-type condition
after a sibling combinator or between two other conditions; `:not(a.x)`, which
the visitor reduces to the name; `:has(a, b)`, which visits only the first;
`:has(|b)`, of which it makes `.b`, no XPath; the
attribute operators with an empty string; `:empty` on elements with comments. Not
modelled: the tokenizer and the grammar, escapes and quotes, custom
pseudo-classes that become functions, `text()` and attribute steps.

`SelectorCache` is `xpath_for` and `clear_cache` by any number of threads. A call
reads under the mutex, translates without it and writes under it again; `Hit`,
`Miss`, `Parse`, `ParseRaises`, `Store` and `clear_cache` are the steps between
taking and releasing the mutex, and `Interrupt` is an exception that another
thread or a timeout raises in the call at any point, on which `synchronize`
releases the mutex. It implements `Translator`, where there is no cache
(`AnswersAsUncached`).

The key of an entry is the selector and `XPathVisitor#config`. `ConfigDecides`
assumes that visitors with one config translate alike. The code does not enforce
this: a subclass with methods of its own has the config of its parent, and shares
its entries. The string arrays returned are the cached objects themselves, and
the hash of namespaces in the key can be changed by its owner; neither is in the
model.

Fairness. A thread that is not waiting goes on (weak fairness of each step). The
mutex is taken under strong fairness, since a thread may find it taken again and
again; Ruby's Mutex wakes its waiters in the order they came, so that none is
passed over for ever. Calls and interrupts are not fair: nobody has to make them.

## 3. Runs

| Run | Module, configuration | Shows |
|---|---|---|
| `contents` | `MCContents` | all operations of one document on `<r>text<e/>blank</r>` and on `<r a="text&ref;"/>`: 5 nodes, 4 wrappers, 2 objects held |
| `moves` | `MCMoves` | insertions and replacements beside, below and in place of nodes of `<r>text<e/>blank</r>` and of `<!--c--><r/>`, with a libxml2 that merges siblings, with fragments and new elements, 4 objects held; the program goes on after calls that raise |
| `documents` | `MCDocuments` | two documents, the second created by the program: 4 nodes, 2 wrappers, 3 objects held |
| `any_set` | `MCContents`, `MCAnySet.cfg` | violation, see 5 |
| `node_sets` | `MCNodeSets` | two sets and two copied namespaces, in one document that does not change, in one where a text moves, and across two documents |
| `mixed_sets` | `MCNodeSets`, `MCMixed.cfg` | violation, see 5 |
| `error_handlers`, `restoring` | `MCErrorHandlers` | three calls, of any kinds, nested in any way |
| `html_tree` | `MCTreeConstruction` | about 539,000 states over 23 suites of token sequences, and the libxml2 tree of each result |
| `tokenizer` | `MCTokenizer` | about 355,000 states over 21 families of short texts and three of texts with known meaning |
| `selectors` | `MCSelectors` | about 840 selectors on their documents, and two threads that share the cache |
| `dash_match` | `MCSelectors`, `MCDash.cfg` | violation, see 5 |

Properties of `NodeLifecycle`:

- `NoDanglingWrapper`: every wrapper that marking reaches points at allocated
  memory of a live document;
- `WrapReturnsLiveObject`: `_private` of the nodes of a reachable document names
  a wrapper that is reachable too, so that `noko_xml_node_wrap` never returns a
  collected object;
- `DeallocFreesOnce`: `dealloc` walks nodes that are still allocated, and a
  pinned attribute, which it frees with what is below it, is not in the tree as
  well and has no pinned text below it. A pinned entity reference below a pinned
  attribute is not excluded: whether it is read after it was freed depends on
  the order of the table, which is a set here;
- `NothingLeaks`: every node will be freed with its document, except what a call
  that raised left behind (`lost`);
- `TextWrapperAgrees`: a text in a tree and its wrapper name each other, and the
  wrapper is in the cache that is searched for wrapped blanks.

Of `NodeSets`: `MembersAlive` (what a set or a waiting evaluation points at is
not freed), `NamespacesFreedOnce` (copied namespaces are freed once, never while
the program has them), `SetAlgebra` (`|`, `&` and, for nodes of which
the first set holds none twice, `-` are those of sets; with a node twice `-` still
takes nothing that is not in the second set).

Of `ErrorHandlers`: `ForeignIsNeverCalled`, `HandlerIsUnderWay`, and
`ReportingSpec`, which says that operations that restore the handler implement
`ErrorReporting`.

Of tree construction: `AssertionsHold` (of the C code), `TreeAgrees` (parents,
children and indices), `ReferencesLive` (no list holds a freed node, the stack
no element twice), `FormattingAgrees` (Noah's ark, markers, template modes),
`ResultShape` (one root; head, then body or frameset), `AllFreed` (tokens while
it runs, nodes at the end), `TurnsBounded`, `NothingLost`, and `BindingAgrees`
(the libxml2 tree is the same tree, in order, with texts joined and prefixes
declared).

Of the tokenizer: `AssertionsHold`, `OwnsWhatItBuilds` (a tag's buffers exist
exactly while a tag is read), `EveryCharacterOnce` (tokens follow each other
without gap or overlap), `CommentsAgree` (a comment has the text between its
delimiters), `ContentIsText` (raw text ends at its end tag and nowhere else,
CDATA at `]]>`), `ReadsWhatWasWritten`, and the liveness property `ReadsToTheEnd`.

Of selectors: `CacheAgrees`, `AnswersAsUncached`, `CallsReturn` (liveness), and
`SelectsWhatMatches`.

Bounds. Every hazard met so far in memory needs at most one document per role,
one node per role (pivot, argument, neighbour, parent, copy) and one wrapper per
node that Ruby saw; the runs have these and one to spare. `MaxHeld` limits the
references a program holds at once, not the wrappers that exist: a wrapper in a
`node_cache` stays without being held. In `contents`, `documents` and
`node_sets` the program ends at the first call that raises after it changed the
tree (`NoneLost`); `moves` goes on. `FewWrapped` lets the program of the text
tree wrap three nodes. In `node_sets` a set has at most two members
(`ShortSets`), the program of two documents holds two objects more than the
others, so that a node goes to the other document and back while a set holds it
(`FewObjects`), and an evaluation calls a function in one document and with one
result (`FewCalls`). Three nested calls are enough for each handler property,
since a frame interacts with its neighbours only; the theorems remove that
bound. `Scale` is the number of free tokens of an HTML suite: four after a prefix
that sets up the interesting state (five for formatting). The texts of the
tokenizer have up to four free symbols after their beginning, one more than the
longest sequence a state looks back on; `MaxAttributes` is 3 so that the limit
is met, and `LookupMinSize` 1 so that the lookup table of attributes is built for
the second one. For selectors, five siblings are two periods of every series but
one; two threads are what the read and the write of a third can be confused
with.

The memory, handler and set runs stop when addresses or wrappers run out, or
because a Ruby program may stop at any time, the HTML runs when the input ends,
and a thread whose program is empty never calls; deadlock is not checked there.

Symmetry. Wrappers, sets, and nodes that are not in the initial tree, are
interchangeable: no definition tells them apart except by `CHOOSE` among objects
that are not yet in use, which are all alike, so that choosing another one gives
a permuted state. Initial nodes and documents are not in the symmetry set. The
runs with liveness use none.

Fairness. Only the tokenizer and the selector cache assume any, see their
sections. A Ruby program is not obliged to make a call, and the collector is not
obliged to run.

Each property has a mutant in `PROJECT.json`, a plausible bug of the code that
breaks it, and five of them have more, for each of their parts; the mutated
operators stand beside the definition they replace.

## 4. Proofs

Every theorem is about the specification for all values of its constants; the
runs show the same properties on instances.

### NodeLifecycle

For any nodes, documents, wrappers and kinds of new nodes, any well-formed
initial trees, and both values of `SiblingsMerge`:

- `TypeOKHolds`, `WrappersPointAtNodes` (`NoDanglingWrapper`), `WrapReturnsLive`
  (`WrapReturnsLiveObject`), `FreedOnce` (`DeallocFreesOnce`) and `TextsAgree`
  (`TextWrapperAgrees`) in `NodeLifecycleProofs`;
- `NoLeak` (`NothingLeaks`) in `NodeLifecycleLeaks`.

The first five follow from one invariant, `IInv` (theorem `Inductive`), which
was an invariant of the runs before it was proved. None of the properties is
inductive by itself: a wrapper stays good because the C code never frees a node
that some wrapper points at, which depends on who points at what everywhere in
the heap. `IInv` says that

- the heap is `Sound`: nodes are fresh or allocated, not both (`Allocated`);
  parents and children agree in both directions (`Upward`, `Downward`), though
  they may form a cycle; no wrapper points at what was never allocated
  (`Pointing`); a node's wrapper is in the cache of its document, which is what
  keeps it marked (`Cached`); a wrapper points at a node that does not point
  back only if this is a detached text (`Forgotten`), so that a node in a tree
  without a wrapper can be freed by a merge; what is pinned is allocated, its
  document's own, and free of what `dealloc_node_i2` would free twice (`Pins`);
  a text in a tree and its wrapper agree (`Agrees`); a document that is not born
  has nothing (`NotBorn`);
- what marking reaches from `held` is `Usable`: live documents, wrappers of
  allocated nodes, and with each what it marks;
- `dstate`, `held` and `lost` keep their types.

`Below` and `Marked` are least closed sets, so that a proof about them shows a
set to be closed (`BelowIsLeast`, `MarkedIsLeast`) and needs no induction. A
step of C code that takes nothing from a wrapper is a `Keeps` step, and keeps
every usable set usable; moving a node to another document, which takes the
wrapper along, is the step that is not, and `MovedSoundly` says what it does
instead. In the middle of a function the heap is sound up to one node that has
forgotten its wrapper but is still linked (the third argument of `Sound`).

`NothingLeaks` needs a second invariant. `Kept(heap, lost)` (theorem
`NothingIsLost`) says that every node hangs on a node without a parent, on a
document or on one of `lost`, and that a node without a parent is pinned or
lost. Each C function is then described by the nodes it moves (`Shifts`, and
`Moves` for those that link a node): what stays where it was goes on hanging
where it hung, and what is moved was unlinked and pinned, or is linked below a
node that is not below it. A cycle is what can break this, which is why the
calls that raise after they made one put the nodes involved into `lost`.

Assumptions: `MergeIsBoolean`, `NullIsNoObject`, `DistinctSorts` (nodes,
documents and wrappers are different values) and `NewKindsAreKinds`. The
theorems are about `Spec`, whose `Node#[]=` is restricted by `OneWrappedChild`;
without that restriction they are false, which is what the run `any_set` shows.

### NodeSets

`NodeSetsProofs` proves, for any nodes, documents, wrappers, sets and copies, of
every program of `SpecSets`:

- `SetsTypeOKHolds` (`SetsTypeOK`), `MembersAreAlive` (`MembersAlive`),
  `NamespacesAreFreedOnce` (`NamespacesFreedOnce`) and `SetAlgebraHolds`
  (`SetAlgebra`);
- `SetsSpareTheTree`: the four memory properties of `NodeLifecycle` also hold
  of programs that use sets, whose `unlink`, wrapping and evaluations change the
  same heap. (Of the operations on nodes, `SpecSets` has those of `TreeNext`.)

All follow from `SInv` (theorem `InductiveSets`), whose parts TLC checked as
invariants of the instance of `node_sets` before they were proved:

- `HeapInv`: the heap is sound, and what can be marked from `held` and from the
  documents of the sets (`SetDocs`) is usable. The collector starts from the
  wrappers of the members as well; the proof does not need them, because a
  member's document marks its wrapper (`Cached`);
- `PointedInTree`: the nodes in an array are allocated. A member has no
  reference count. It stays because `reparent_node_with` inserts a duplicate of
  a text, so that what libxml2 frees when it merges texts is this duplicate,
  which no array names yet, and never a node that was there before the call;
- `Homogeneous`: a member's document is the set's own, which the set marks.
  With `PointedInTree` this is `MembersAlive` for nodes;
- `Located`: the element at which a namespace was found goes only with its
  document;
- `CopiesSound`: a copy in a set has a Ruby object, or was made by `push` or
  `dup`; a copy that an evaluation waits with has neither, and is in no set, so
  that nothing frees it meanwhile; what is allocated is in one of these three.

`NamespacesFreedOnce` fails to be inductive without the second part: the end of
an evaluation frees the copies it waited with, and that these are not a set's
is known only from `CopiesSound`. The lemmas under the actions are of three
kinds: what `Among`, `minus` and the copying functions of libxml2 return
(`Gathered`, `Adds`, `Remains`), that an operation on the tree frees and moves none of the nodes
pointed at (`Stays`), and that wrapping a whole set leaves every member a
usable wrapper (`Made`), on which `unlink` relies when it reads the pointer of
each wrapper again. `Among` and `minus` are recursive functions over the
positions of an array; what they return is proved by induction over those positions as a
well-founded order (`CountingUp`), which needs no theorem with an operator
parameter.

The assumptions are those of `NodeLifecycle` and `CopiesAreNoObjects`,
`NullIsNoRecord` (values of different sorts differ) and `FiniteMemory` (there
are finitely many addresses, so that an array can list what a search finds).
`Homogeneous'` as a restriction of the steps is the one restriction of
the program; without it `MembersAlive` is false (run `mixed_sets`).
`NothingLeaks` is not claimed of `SpecSets`.

### ErrorHandlers

`ErrorHandlersProofs` proves for any number of calls, nested to any depth:

- `TypeCorrect`: the type invariant. It is inductive with the conjunct that the
  calls on the stack were made.
- `ForeignNeverCalled`: no operation reports errors to the handler of other
  code, even when exceptions unwind operations. `ForeignIsNeverCalled` is not
  inductive: a return could bring the foreign handler back. `ForeignInv` adds
  that only the outermost frame can have saved it.
- `HandlerUnderWay`: without exceptions, the handler never belongs to an
  operation that has returned. `UnderWayInv` adds that what a frame saved
  belongs to a frame below it which collects its errors in an array.
- `RestoringReports`: a program of operations that restore the handler implements
  `ErrorReporting`. `NestedInv` says that the handler in place is the innermost
  operation's and that each frame saved the handler of the frame below it; every
  step then maps to a step of the abstract specification or to a stutter.

The assumption is `HandlersDiffer`: the null handler, the foreign handler and
the arrays are different values. The provers use the fields of the operations
(`KindOfOperation`), and no theorem depends on which of them exist beyond that.

### SelectorCache

`SelectorCacheProofs` proves for any threads, selectors, visitors and programs,
and for any translation:

- `TypeCorrect`, the type invariant;
- `SpecCacheAgrees`: the cache holds nothing but the translations of its keys,
  and a key has one entry;
- `AnswersAsWithoutCache`: `SelectorCache` implements `Translator`. A hit, a
  store and a parse error map to an answer, a call and an interrupt to theirs,
  and everything else to a stutter.

`CacheAgrees` alone is not inductive: a store writes what its thread translated
some steps before. `IInv` adds that a thread has at most one question
(`AskedOne`), that what it is about to write is the translation of that question
(`ValueAgrees`), that entries agree with every visitor of that config and not
only those some program uses (`EntriesAgree`), that keys are unique (`OneEntry`)
and that the thread at the mutex is the one that locked it (`MutexHeld`). The
assumptions are `ProgramAssumption` (typing), `NullAssumption`, and
`ConfigDecides`, without which the theorem is false (see 2).

### HTML5 tokenizer

`TokenizerProofs` proves of `Spec`, whose texts are all the finite sequences of
the symbols and whose first state is any that reads text:

- `TypeCorrect` (`TypeOK`), `AssertionsAlwaysHold` (`AssertionsHold`),
  `AlwaysOwnsWhatItBuilds` (`OwnsWhatItBuilds`) and `EveryCharacterOnceHolds`
  (`EveryCharacterOnce`);
- `CommentsAlwaysAgree` (`CommentsAgree`): the twelve states of a comment, which
  look at one character at a time, find the end that `CommentText` finds by
  looking at the whole text, and give the token what is before it;
- `AttributesAlwaysDiffer`: `AttributesDiffer`, which the run checks as a part of
  `ReadsWhatWasWritten`. It holds whether a duplicate is looked for in the list
  or, from `LookupMinSize` attributes on, in the hash map.

All follow from `Inv` (theorem `Invariant`), which TLC checked on the instance
of the run `tokenizer` before it was proved (with `DOMAIN q = 1 .. Len(q)` for
`IsSeq`, whose quantifier is unbounded). The properties are about what was
emitted and what is allocated, and neither is inductive alone: that nothing is
emitted twice when the tokenizer goes back to its mark depends on what every
state on the way there has left undone. `Kept`, of which `Inv` is an instance,
says of a record of the tokenizer that

- `Shape`, `Places`: it has its fields (the tokens have no common type, so that
  the proof takes it field by field), and start, mark and place to resume are in
  the text, the start not behind the iterator; the attributes of a tag differ,
  and the hash map, if there is one, has exactly their names;
- `Owns`: the buffers of a tag and the strings of a doctype are owned in the
  states that build one, and while a reference in an attribute is read, and
  nowhere else;
- `Between`: after a token, and while the second character of a reference or
  characters from the mark wait, nothing is read that was not emitted (`Steady`);
- `Clean`: a handler finds the temporary buffer empty where it assumes so, and
  an attribute (or one that is dropped) where it gives a value to one;
- `Stands`: what the state says of the text behind the iterator. In a state of
  text everything since the start was dropped; after a `<` that may turn out to
  be text, and in a reference, the mark is at that `<` or `&` and only dropped
  text is before it; in a tag the start is at its `<`; in a comment, `Told`
  (below);
- `History`: every token emitted is about one character or one reference where
  it is one of text, tokens follow each other with only `</>` and CDATA brackets
  between them, and the same is true from the last one to the start.

Each handler is described by what it leaves alone (`Frame`) and by what it may
do to the tag (`TagFrame`), the temporary buffer (`PartFrame`) or a reference
(`RefersFrame`); lemmas say the same of the operations it is made of. A step
then keeps `Inv` for one of four reasons: it emits nothing (`QuietKept`), it
emits what it stands at (`CharEmitted`), it ends what it built
(`MarkupEmitted`), or it goes back (`MarkEmitted`, `BackKept`); there is a lemma
for each group of states, and one for each disjunct of `Next`. The text that was
dropped is described by positions (`Covered`), which can be joined and extended,
and only the theorem turns this into `MadeOf`.

Comments need more: what is in the temporary buffer. `Told` says of a comment
that is being read (`ReadUpTo`) that the buffer has the text from behind `<!--`
up to some place, that the comment does not end at any place before
(`EndsAt`), and that the place is behind by as many characters of `--!` as the
state has seen and not yet appended (`Pending`): they go to the buffer when
the next character shows that the comment goes on, and nowhere when it ends.
`BogusUpTo` says the same of a bogus comment, which ends at the first `>`. The
lemmas of the part on comments show how each of these grows by one character
and what the token has when the comment ends; one lemma for each state applies
them to its handler.

`TokenizerContentProofs` proves `ContentAlwaysIsText` (`ContentIsText`) on top
of `Inv`. The property compares where the states of RCDATA, RAWTEXT, scripts and
CDATA sections stop reading text with where the text says that they end: for a
script with `InEscaped` and `InDouble`, which look at all that is behind and not
at a state. `ContentInv`, checked with TLC before, has two parts:

- `Contents`: since a start tag switched the tokenizer to contents, either they
  are read and did not end before (`Within`), or their end tag is read
  (`InEndTag`), or they have ended (`Over`). After a `<` this is said up to the
  mark, and the buffer of the tag has the letters since then (`Marks_`), so that
  going back to the mark loses nothing. `Escapes` says for each state of a
  script whether its text is escaped once, twice or not, how many dashes are
  behind, and that no `<!--`, `<script` or `</script` has ended where the state
  does not know of it: this is what makes the state and the text agree;
- `Sections`: what was read of a CDATA section has no `]]>` before the place
  that the state stands for.

A handler either leaves the contents alone (`Calm`), emits one character, emits
from the mark or ends a tag, and a lemma for each says what becomes of
`ContentInv`; lemmas on `InEscaped` and `InDouble` say how one more character
changes them, and one lemma for each state of a script applies them.

The only assumption on a constant is `LimitsAssumption`. The references are the
eight of the model.

### Only model-checked

Of the tokenizer, `ReadsWhatWasWritten` (but for `AttributesDiffer`): it compares
with the pieces from which the instance wrote the text. Those of tree construction and the binding, whose operators are recursive;
`SelectsWhatMatches`, for the same reason; `ReadsToTheEnd` and `CallsReturn`,
because the prover has no rule for fairness.

## 5. Where code and text disagree

- `any_set`: `Node#[]=` (`xml_node.c:1259`) unlinks the wrapped children of the
  attribute it overwrites, but reads `next` from the child it has just unlinked
  and so stops after the first one. libxml2 then frees the second. The comment
  above it says that unlinking them first avoids this; `Attr#value=`
  (`xml_attr.c:19-32`) does. `Next` therefore restricts `[]=` to attributes with
  at most one wrapped child, and `NextAnySet` does not.
- `mixed_sets`: a set that was given a node of another document
  (`test_node_set.rb:1029`) marks that node's wrapper and its own document. When
  the node moves on to a third document, its wrapper goes with the copy, and
  nothing marks the document of the original any more.
- `NodeSet#-` is "a copy of this NodeSet, removing each item that also appears in
  `node_set`" (`xml_node_set.c:274`), but removes a node once for each time the
  second set has it (`xml_node_set.c:292`). With `c` the copy that a node `e` of the
  set `[e]` became on its way to another document and back, `push` makes `[e, c]`,
  `unlink` makes `[c, c]`, and `[c, c] - [c]` is `[c]`. The instance of `node_sets`
  reaches these sets: `SetAlgebra` without its condition `Injective(s)` is false
  there.
- `dash_match`: `[lang|=x]` becomes `A or B` without parentheses
  (`xpath_visitor.rb:200`), which changes its meaning beside another condition.

Remarks, where no text says what should happen: `add_child` and the methods that
add a sibling refuse a second root element (`document.rb:439`, `node.rb:434`,
`451`), `replace` does not, and `root=` then pins the first of the two only
(`SetRoot` records the other in `lost`). A node that moved to another document is
a copy that took over the wrapper; the original, if it still has children that
Ruby holds, answers `parent` with that wrapper, which is a node of the other
document. A parse of a string inside `IO#read` of an outer parse resets the
handler, and the outer document's `errors` misses what comes later (this is why
`restoring` is about the operations that restore it).

## 6. Plan

In this order:

1. Proofs: `NothingLeaks` for programs that use sets.
2. `NodeSets`: the other operations of `NodeLifecycle` beside the sets. Those
   that replace a content free its unwrapped nodes, and an evaluation that waits
   may have found some.
   `NodeLifecycle`: pinned nodes as a sequence, so that `dealloc_node_i2` visits
   them in the order of the table; `in_context` when the parse fails; relinking
   of namespaces (`relink_namespace`).
3. `BlankStripping` (`Schema.from_document`), XSLT extension instances, the
   cursor of `Reader`, chunks of the push parsers, the stack of `Builder`.
4. `Html5Binding`: attributes, the reading of a fragment's context, cleanup
   after an exception; the UTF-8 decoder against the definition of UTF-8.

## 7. Not modelled

The Java implementation (its memory is the JVM's), serialisation (libxml2's),
static tables and their containers, build files; the reasons are in
`PROJECT.json`. The map names a part of the implementation's lines only: nearly
half of them (22,225 of 47,196) are the generated table of named references in
`char_ref.c`, which eight entries stand for, and most of the rest of what is not
named is the hash map and lookup tables of Gumbo, the messages of its errors, and
the accessors of the extension, which neither move nor free anything.
