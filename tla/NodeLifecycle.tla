---------------------------- MODULE NodeLifecycle ----------------------------
(***************************************************************************)
(* Memory ownership between Ruby and libxml2 (ext/nokogiri/xml_document.c, *)
(* xml_node.c, xml_attr.c, xml_text.c).                                    *)
(*                                                                         *)
(* A C node (xmlNode) lives until it is freed by libxml2 or until its      *)
(* document is deallocated.  A Ruby wrapper holds a raw pointer to a node  *)
(* (DATA_PTR), the node holds a raw pointer back (_private), and neither   *)
(* keeps the other alive: what does is the document, whose tuple holds     *)
(*   - node_cache, the wrappers kept alive with the document, and          *)
(*   - unlinkedNodes, the nodes ("pinned") that are no longer in the tree  *)
(*     but must be freed with the document.                                *)
(* The garbage collector deallocates a document that no reachable object   *)
(* marks.                                                                  *)
(*                                                                         *)
(* The heap is one record and every C function of the extension is an      *)
(* operator from heap to heap, so that an action composes the calls in the *)
(* order in which the handler makes them.  Contents, names and namespaces  *)
(* are abstracted away: a node is an element, a text, a blank text, an     *)
(* entity reference, a comment (which stands for every other childless     *)
(* node), a document fragment or the one attribute name that is written.   *)
(***************************************************************************)
EXTENDS Naturals, Sequences, FiniteSets

CONSTANTS Node,      \* addresses of C nodes, each allocated at most once
          Doc,       \* documents: the C struct and its Ruby object
          Wrapper,   \* Ruby objects of class XML::Node
          NULL,
          NewKinds,  \* the kinds of node the program creates with .new
          SiblingsMerge  \* does this libxml2 merge a text put beside a text?

ASSUME MergeIsBoolean == SiblingsMerge \in BOOLEAN

ASSUME NullIsNoObject == NULL \notin Node \cup Doc \cup Wrapper
ASSUME DistinctSorts  == /\ Node \cap Doc = {}
                         /\ Node \cap Wrapper = {}
                         /\ Doc \cap Wrapper = {}

Elem  == "elem"
Text  == "text"
Blank == "blank"     \* a text of white space only: xmlIsBlankNode
Ref   == "ref"
Comment == "comment"
Frag  == "frag"
Attr  == "attr"
Kind  == {Elem, Text, Blank, Ref, Comment, Frag, Attr}

ASSUME NewKindsAreKinds == NewKinds \subseteq Kind

VARIABLES heap,      \* the C heap and the pointers between C and Ruby
          dstate,    \* is the xmlDoc of a document allocated?
          held,      \* the objects a Ruby local, global or constant refers to
          lost       \* history: nodes that a call left behind when it raised

vars == <<heap, dstate, held, lost>>

Heap == [ fresh  : SUBSET Node,                       \* not yet allocated
          alive  : SUBSET Node,                       \* allocated, not freed
          kind   : [Node -> Kind],
          doc    : [Node -> Doc],                     \* node->doc
          parent : [Node -> Node \cup Doc \cup {NULL}],
          kids   : [Node \cup Doc -> Seq(Node)],      \* children, in order
          priv   : [Node -> Wrapper \cup {NULL}],     \* node->_private
          ptr    : [Wrapper -> Node \cup {NULL}],     \* DATA_PTR(wrapper)
          pinned : [Doc -> SUBSET Node],              \* tuple->unlinkedNodes
          cache  : [Doc -> SUBSET Wrapper] ]          \* tuple->node_cache

TypeOK == /\ heap \in Heap
          /\ dstate \in [Doc -> {"unborn", "live", "freed"}]
          /\ held \subseteq Doc \cup Wrapper
          /\ lost \subseteq Node

-----------------------------------------------------------------------------
(* The shape of the tree.                                                  *)

IsText(h, n) == h.kind[n] \in {Text, Blank}

Members(s) == {s[i] : i \in DOMAIN s}

\* the first place of x in s
Position(s, x) == CHOOSE i \in DOMAIN s : s[i] = x /\ \A j \in 1 .. i - 1 : s[j] # x

\* s without the first x
Without(s, x) ==
  IF x \in Members(s)
    THEN [i \in 1 .. Len(s) - 1 |-> IF i < Position(s, x) THEN s[i] ELSE s[i + 1]]
    ELSE s

\* s with x put at position i
PutAt(s, i, x) ==
  [j \in 1 .. Len(s) + 1 |-> IF j < i THEN s[j] ELSE IF j = i THEN x ELSE s[j - 1]]

\* node->next and node->prev of a node that has a parent
NextSibling(h, n) == LET s == h.kids[h.parent[n]]
                         i == Position(s, n)
                     IN  IF i < Len(s) THEN s[i + 1] ELSE NULL
PrevSibling(h, n) == LET s == h.kids[h.parent[n]]
                         i == Position(s, n)
                     IN  IF i > 1 THEN s[i - 1] ELSE NULL

\* the nodes R with their descendants and attributes: the least set that holds
\* R and the children of its members, also when parent pointers form a cycle
Below(h, R) ==
  LET closed == {S \in SUBSET (h.alive \ R) :
                   \A c \in h.alive : h.parent[c] \in R \cup S => c \in R \cup S}
  IN  R \cup {n \in h.alive : \A S \in closed : n \in S}

Subtree(h, n) == Below(h, {n})

\* is n above itself?
IsAncestorOfSelf(h, n) == h.parent[n] \in Subtree(h, n)

\* the nodes from which the walk up the tree ends
Rooted(h) == Below(h, {n \in h.alive : h.parent[n] \notin Node})

\* the nodes of document d
Content(h, d) == Below(h, {n \in h.alive : h.parent[n] = d})

\* the attribute node of element n, or NULL
Prop(h, n) == IF \E a \in h.alive : h.kind[a] = Attr /\ h.parent[a] = n
                THEN CHOOSE a \in h.alive : h.kind[a] = Attr /\ h.parent[a] = n
                ELSE NULL

\* xmlDocGetRootElement: the first element of the document
RootElement(h, d) ==
  LET s == h.kids[d]
      elements == {i \in DOMAIN s : h.kind[s[i]] = Elem}
  IN  IF elements = {} THEN NULL ELSE s[CHOOSE i \in elements : \A j \in elements : i <= j]

DocOf(h, p) == IF p \in Doc THEN p ELSE h.doc[p]

-----------------------------------------------------------------------------
(* libxml2, as the extension uses it.                                      *)

\* the address of the next node
malloc(h) == CHOOSE n \in h.fresh : TRUE

\* a new node: detached, without a wrapper
xmlNewNode(h, n, k, d) ==
  [h EXCEPT !.fresh = @ \ {n}, !.alive = @ \cup {n}, !.kind[n] = k,
            !.doc[n] = d, !.parent[n] = NULL, !.kids[n] = <<>>, !.priv[n] = NULL]

xmlUnlinkNode(h, n) ==
  LET p == h.parent[n]
  IN  IF p = NULL THEN h
      ELSE [h EXCEPT !.parent[n] = NULL, !.kids[p] = Without(@, n)]

\* free of the nodes S
xmlFree(h, S) == [h EXCEPT !.alive = @ \ S]

\* The nodes S and what is below them, copied to fresh addresses: a copy has no
\* wrapper, and no parent if the parent of its original is not copied.
Injective(f) == \A x, y \in DOMAIN f : f[x] = f[y] => x = y
RoomFor(h, S) == \E f \in [S -> h.fresh] : Injective(f)
CopyMap(h, S) == CHOOSE f \in [S -> h.fresh] : Injective(f)

CopyBy(h, f, d) ==
  LET S == DOMAIN f
      new == {f[x] : x \in S}
      src(n) == CHOOSE x \in S : f[x] = n
      parentOf(x) == IF h.parent[x] \in S THEN f[h.parent[x]] ELSE NULL
  IN  [h EXCEPT
         !.fresh  = @ \ new,
         !.alive  = @ \cup new,
         !.kind   = [n \in Node |-> IF n \in new THEN h.kind[src(n)] ELSE @[n]],
         !.doc    = [n \in Node |-> IF n \in new THEN d ELSE @[n]],
         !.parent = [n \in Node |-> IF n \in new THEN parentOf(src(n)) ELSE @[n]],
         !.priv   = [n \in Node |-> IF n \in new THEN NULL ELSE @[n]],
         !.kids   = [p \in Node \cup Doc |->
                       IF p \in new THEN [i \in DOMAIN @[src(p)] |-> f[@[src(p)][i]]] ELSE @[p]]]

\* a copy of n and what is below it: on a cycle it would have no end
CanCopy(h, n) == ~IsAncestorOfSelf(h, n) /\ RoomFor(h, Subtree(h, n))
xmlDocCopyNode(h, n, d) == CopyBy(h, CopyMap(h, Subtree(h, n)), d)
CopyOf(h, n) == CopyMap(h, Subtree(h, n))[n]

\* the content of document d copied into the empty document e
CopyContent(h, d, e, f) ==
  LET roots == {f[x] : x \in {y \in DOMAIN f : h.parent[y] = d}}
  IN  [CopyBy(h, f, e) EXCEPT
         !.parent = [n \in Node |-> IF n \in roots THEN e ELSE @[n]],
         !.kids[e] = [i \in DOMAIN h.kids[d] |-> f[h.kids[d][i]]]]

xmlCopyDoc(h, d, e) == CopyContent(h, d, e, CopyMap(h, Content(h, d)))

\* put the detached node n into the children of p at position i
Link(h, p, i, n) == [h EXCEPT !.parent[n] = p, !.kids[p] = PutAt(@, i, n)]

\* xmlTextMerge: the content of right goes into left and right is freed
xmlTextMerge(h, left, right) ==
  LET k == IF h.kind[left] = Blank /\ h.kind[right] = Blank THEN Blank ELSE Text
  IN  xmlFree([xmlUnlinkNode(h, right) EXCEPT !.kind[left] = k], {right})

(* The functions that link a node give the heap and the node that is now   *)
(* in the tree: the one linked, the text it was merged into, or NULL when  *)
(* they refuse.                                                            *)

xmlAddChild(h, p, n) ==
  LET s == h.kids[p]
  IN  IF p = n THEN [h |-> h, n |-> NULL]
      ELSE IF IsText(h, n) /\ Len(s) > 0 /\ IsText(h, s[Len(s)])
        THEN [h |-> xmlTextMerge(h, s[Len(s)], n), n |-> s[Len(s)]]
        ELSE [h |-> Link(h, p, Len(s) + 1, n), n |-> n]

\* xmlAddNextSibling (offset 1) and xmlAddPrevSibling (offset 0)
xmlAddSibling(h, pivot, n, offset) ==
  LET p == h.parent[pivot]
  IN  IF pivot = n THEN [h |-> h, n |-> NULL]
      ELSE IF SiblingsMerge /\ IsText(h, n) /\ IsText(h, pivot)
        THEN [h |-> xmlTextMerge(h, pivot, n), n |-> pivot]
      ELSE IF p = NULL THEN [h |-> h, n |-> n]
        ELSE [h |-> Link(h, p, Position(h.kids[p], pivot) + offset, n), n |-> n]

xmlReplaceNode(h, pivot, n) ==
  LET p == h.parent[pivot]
      i == Position(h.kids[p], pivot)
  IN  IF p = NULL THEN [h |-> h, n |-> NULL]
      ELSE [h |-> Link(xmlUnlinkNode(h, pivot), p, i, n), n |-> n]

\* the detached element n takes the place of the root element, if there is one
xmlDocSetRootElement(h, d, n) ==
  LET old == RootElement(h, d)
  IN  IF old = NULL THEN Link(h, d, Len(h.kids[d]) + 1, n) ELSE xmlReplaceNode(h, old, n).h

-----------------------------------------------------------------------------
(* The extension.                                                          *)

\* mutant: pins what is above the node
PinParent(h, n) == [h EXCEPT !.pinned[h.doc[n]] = @ \cup {h.parent[n]}]

noko_xml_document_pin_node(h, n) == [h EXCEPT !.pinned[h.doc[n]] = @ \cup {n}]

UnlinkAndPin(h, n) == noko_xml_document_pin_node(xmlUnlinkNode(h, n), n)

\* the Ruby object that the next TypedData_Wrap_Struct returns
Unborn(h) == {w \in Wrapper : h.ptr[w] = NULL}
NewWrapper(h) == CHOOSE w \in Unborn(h) : TRUE

\* mutant: the wrapper is not pushed onto node_cache
BindUncached(h, w, n) == [h EXCEPT !.ptr[w] = n, !.priv[n] = w]

\* _xml_node_data_ptr_set, and the push onto the document's node_cache
Bind(h, w, n) == [h EXCEPT !.ptr[w] = n, !.priv[n] = w, !.cache[h.doc[n]] = @ \cup {w}]

noko_xml_node_wrap(h, n) == IF h.priv[n] # NULL THEN h ELSE Bind(h, NewWrapper(h), n)

\* noko_xml_node_wrap needs a Ruby object
CanWrap(h, n) == h.priv[n] # NULL \/ Unborn(h) # {}

\* which parents may have which children: the switch of reparent_node_with.  It
\* also lets an entity reference be a parent; the model does not, as what
\* libxml2 frees below one cannot be told from the code.
MayContain(h, p, n) ==
  \/ p \in Doc /\ h.kind[n] # Attr
  \/ p \in Node /\ h.kind[p] \in {Elem, Frag} /\ h.kind[n] # Attr
  \/ p \in Node /\ h.kind[p] = Attr /\ h.kind[n] \in {Text, Blank, Ref}

\* mutant: a text is linked itself
TextNotDuplicated(h, pivot, n) == h.doc[n] # DocOf(h, pivot)

\* a text, and a node of another document, is reparented as a duplicate
NeedsDup(h, pivot, n) == h.doc[n] # DocOf(h, pivot) \/ IsText(h, n)

\* the text after pivot, or NULL
TextAfter(h, pivot) ==
  LET nxt == IF h.parent[pivot] = NULL THEN NULL ELSE NextSibling(h, pivot)
  IN  IF nxt # NULL /\ IsText(h, nxt) THEN nxt ELSE NULL

\* the text that n is merged into once it is in the tree: the one before it,
\* or n itself
TextBefore(h, n) ==
  LET prv == PrevSibling(h, n)
  IN  IF IsText(h, n) /\ prv # NULL /\ IsText(h, prv) THEN prv ELSE n

\* n is merged into left, and then so is a copy of a text of kind k
MergeInto(h, left, n, k) ==
  LET h1 == IF left # n THEN xmlTextMerge(h, left, n) ELSE h
  IN  [h |-> IF k = Text THEN [h1 EXCEPT !.kind[left] = Text] ELSE h1, n |-> left]

\* the merges that follow the replacement r
Settle(r, n, k) == IF r.n = NULL THEN r ELSE MergeInto(r.h, TextBefore(r.h, n), n, k)

\* mutant: the text after pivot is merged, and freed, as it is
ReplaceMergesNext(h, pivot, n) ==
  LET nxt == TextAfter(h, pivot)
      merge(r) == IF r.n = NULL THEN r ELSE [r EXCEPT !.h = xmlTextMerge(r.h, n, nxt)]
  IN  IF IsText(h, n) /\ nxt # NULL THEN merge(xmlReplaceNode(h, pivot, n))
      ELSE xmlReplaceNode(h, pivot, n)

\* Before a text replaces pivot, a text after pivot is taken out of the tree
\* and pinned; the copy of it that is put in its place is merged, and freed,
\* as soon as the replacement is in the tree.
xmlReplaceNodeWrapper(h, pivot, n) ==
  LET nxt == TextAfter(h, pivot)
  IN  IF IsText(h, n) /\ nxt # NULL
        THEN Settle(xmlReplaceNode(UnlinkAndPin(h, nxt), pivot, n), n, h.kind[nxt])
        ELSE Settle(xmlReplaceNode(h, pivot, n), n, Blank)

\* mutant: the original is not pinned
DuplicateUnpinned(h, pivot, n) ==
  xmlDocCopyNode(IF IsText(h, n) THEN [h EXCEPT !.priv[n] = NULL] ELSE h, n, DocOf(h, pivot))

\* the duplicate, in the pivot's document, that is reparented in place of n;
\* a text that is duplicated forgets its wrapper
Duplicate(h, pivot, n) ==
  LET h1 == IF IsText(h, n) THEN [h EXCEPT !.priv[n] = NULL] ELSE h
  IN  xmlDocCopyNode(noko_xml_document_pin_node(h1, n), n, DocOf(h, pivot))

\* the function of libxml2 that the caller passed
prf(h, pivot, n, how) ==
  CASE how = "child"   -> xmlAddChild(h, pivot, n)
    [] how = "next"    -> xmlAddSibling(h, pivot, n, 1)
    [] how = "prev"    -> xmlAddSibling(h, pivot, n, 0)
    [] how = "replace" -> xmlReplaceNodeWrapper(h, pivot, n)

\* the wrapper w of the argument points at the node that is now in the tree
Rewrap(w, r) ==
  IF r.n = NULL THEN r
  ELSE [h |-> noko_xml_node_wrap([r.h EXCEPT !.ptr[w] = r.n], r.n), n |-> r.n]

reparent_node_with(h, pivot, w, how) ==
  LET orig == h.ptr[w]
      dup  == NeedsDup(h, pivot, orig)
      n    == IF dup THEN CopyOf(h, orig) ELSE orig
      h1   == xmlUnlinkNode(IF dup THEN Duplicate(h, pivot, orig) ELSE h, orig)
  IN  Rewrap(w, prf(h1, pivot, n, how))

-----------------------------------------------------------------------------
(* Garbage collection: mark, _xml_node_mark and the dealloc of a document.  *)

Objects == Doc \cup Wrapper

\* mutants: a wrapper marks nothing; a document marks nothing
MarksOfDocuments(h, S) == UNION {h.cache[d] : d \in S \cap Doc}
MarksOfWrappers(h, S) == {h.doc[h.ptr[w]] : w \in {v \in S \cap Wrapper : h.ptr[v] # NULL}}

\* what the objects S mark: a wrapper marks the document of its node, a
\* document marks the wrappers in its node_cache
Marks(h, S) == {h.doc[h.ptr[w]] : w \in {v \in S \cap Wrapper : h.ptr[v] # NULL}}
               \cup UNION {h.cache[d] : d \in S \cap Doc}

Marked(h, roots) ==
  LET closed == {S \in SUBSET (Objects \ roots) : Marks(h, roots \cup S) \subseteq roots \cup S}
  IN  roots \cup {o \in Objects : \A S \in closed : o \in S}

\* dealloc: pinned attributes are freed, other pinned nodes without a parent
\* are put back into the document, and xmlFreeDoc frees what is in the tree
FreedWith(h, d) ==
  Below(h, {n \in h.alive : h.parent[n] = d \/ (h.parent[n] = NULL /\ n \in h.pinned[d])})

dealloc(h, d) ==
  [xmlFree(h, FreedWith(h, d)) EXCEPT !.pinned[d] = {}, !.cache[d] = {}]

-----------------------------------------------------------------------------
(* The operations of the Ruby API.                                         *)

HeldWrappers == held \cap Wrapper
HeldDocs     == held \cap Doc

\* a pivot: a document, or the node of a wrapper
Pivots == HeldDocs \cup {heap.ptr[w] : w \in HeldWrappers}

\* wrap node n of heap h, and return the wrapper to Ruby
Return(h, n) == /\ CanWrap(h, n)
                /\ heap' = noko_xml_node_wrap(h, n)
                /\ held' = held \cup {noko_xml_node_wrap(h, n).priv[n]}

\* document, parent, child, next_sibling, previous_sibling, attribute, root: what
\* is one pointer away
Neighbours(h, p) ==
  LET up == IF p \in Node THEN {h.parent[p], h.doc[p]} ELSE {}
      sib == IF p \in Node /\ h.parent[p] # NULL /\ h.kind[p] # Attr
               THEN {NextSibling(h, p), PrevSibling(h, p)} ELSE {}
      att == IF p \in Node THEN {Prop(h, p)} ELSE {}
  IN  (up \cup sib \cup att \cup Members(h.kids[p])) \ {NULL}

\* a search of document p that finds one node
Found(h, p) == IF p \in Doc THEN Content(h, p) ELSE {}

Navigate ==
  \E p \in Pivots : \E m \in Neighbours(heap, p) \cup Found(heap, p) :
    /\ \/ m \in Node /\ Return(heap, m)
       \/ m \in Doc /\ held' = held \cup {m} /\ heap' = heap
    /\ UNCHANGED <<dstate, lost>>

\* XML::Node.new, Text.new, EntityReference.new, DocumentFragment.new, Attr.new
NewNode ==
  \E d \in HeldDocs, k \in NewKinds :
    /\ heap.fresh # {}
    /\ LET n == malloc(heap)
       IN  Return(noko_xml_document_pin_node(xmlNewNode(heap, n, k, d), n), n)
    /\ UNCHANGED <<dstate, lost>>

unlink_node ==
  \E w \in HeldWrappers :
    /\ heap' = UnlinkAndPin(heap, heap.ptr[w])
    /\ UNCHANGED <<dstate, held, lost>>

\* the copy c in heap h gets a wrapper and is pinned
Copied(h, c) ==
  /\ Unborn(heap) # {}
  /\ heap' = noko_xml_document_pin_node(Bind(h, NewWrapper(heap), c), c)
  /\ held' = held \cup {NewWrapper(heap)}

\* Node#dup(level, new_parent_doc): a shallow copy has no children, but for an
\* attribute, whose children are its value
initialize_copy_with_args ==
  \E w \in HeldWrappers, d \in HeldDocs :
    LET n == heap.ptr[w]
    IN  /\ \/ CanCopy(heap, n) /\ Copied(xmlDocCopyNode(heap, n, d), CopyOf(heap, n))
           \/ /\ heap.kind[n] # Attr
              /\ heap.fresh # {}
              /\ Copied(xmlNewNode(heap, malloc(heap), heap.kind[n], d), malloc(heap))
        /\ UNCHANGED <<dstate, lost>>

(* What the callers in node.rb and document.rb check before they reparent. *)

\* Node#coerce: an attribute is not an argument; of a fragment the children are
Coercible(h, n) == h.kind[n] \notin {Attr, Frag}

\* Document#add_child: a document takes no second root, but for comments
ChildAllowed(h, p, n) == p \in Doc => RootElement(h, p) = NULL \/ h.kind[n] = Comment

\* Node#add_next_sibling: the siblings of a root are comments.  An attribute is
\* no pivot in the model: what libxml2 makes of a node beside an attribute
\* cannot be told from the code.
SiblingAllowed(h, pivot, n) ==
  /\ pivot \in Node /\ h.kind[pivot] # Attr /\ h.parent[pivot] # NULL
  /\ h.parent[pivot] \in Doc => h.kind[n] = Comment

\* Node#replace: a text is replaced through a dummy element beside it
ReplaceAllowed(h, pivot) ==
  pivot \in Node /\ h.kind[pivot] # Attr /\ h.parent[pivot] # NULL /\ ~IsText(h, pivot)

CallerAllows(h, pivot, n, how) ==
  /\ Coercible(h, n)
  /\ how = "child" => ChildAllowed(h, pivot, n)
  /\ how \in {"next", "prev"} => SiblingAllowed(h, pivot, n)
  /\ how = "replace" => ReplaceAllowed(h, pivot)

\* mutant: the node that is replaced is not pinned
ReplacedUnpinned(pivot, n, how, r) ==
  LET fine == r.n # NULL /\ ~IsAncestorOfSelf(r.h, r.n)
  IN  \/ /\ ~fine
         /\ heap' = r.h
         /\ lost' = lost \cup ({pivot, n, r.n} \cap r.h.alive)
         /\ UNCHANGED <<dstate, held>>
      \/ /\ fine /\ r.n \in Rooted(r.h)
         /\ heap' = r.h
         /\ held' = held \cup {r.h.priv[r.n]}
         /\ UNCHANGED <<dstate, lost>>

\* The call ends with the heap r.h and the node r.n, or raises because there is
\* no node or because it is now above itself.
Reparented(pivot, n, how, r) ==
  LET fine == r.n # NULL /\ ~IsAncestorOfSelf(r.h, r.n)
  IN  \/ /\ ~fine
         /\ heap' = r.h
         /\ lost' = lost \cup ({pivot, n, r.n} \cap r.h.alive)
         /\ UNCHANGED <<dstate, held>>
      \/ /\ fine /\ r.n \in Rooted(r.h)
         /\ heap' = IF how = "replace" THEN noko_xml_document_pin_node(r.h, pivot) ELSE r.h
         /\ held' = held \cup {r.h.priv[r.n]}
         /\ lost' = IF pivot = n THEN lost \cup ({pivot, r.n} \cap r.h.alive) ELSE lost
         /\ UNCHANGED dstate

\* add_child, add_next_sibling, add_previous_sibling and replace.  The test
\* for a cycle comes after the tree has been changed: a call that raises has
\* moved the node.  Below an older cycle the test never ends, so no step
\* models such a call.
Reparent(how) ==
  \E pivot \in Pivots, w \in HeldWrappers :
    LET n == heap.ptr[w]
        parent == IF how = "child" THEN pivot ELSE heap.parent[pivot]
    IN  /\ CallerAllows(heap, pivot, n, how)
        /\ MayContain(heap, parent, n)
        /\ NeedsDup(heap, pivot, n) => CanCopy(heap, n) /\ Unborn(heap) # {}
        /\ Reparented(pivot, n, how, reparent_node_with(heap, pivot, w, how))

add_child            == Reparent("child")
add_next_sibling     == Reparent("next")
add_previous_sibling == Reparent("prev")
replace              == Reparent("replace")

\* Document#root=(nil), and Document#root=(node): a node of another document
\* is copied, and the wrapper passed in stays with the original
DropRoot(h, d) == LET r == RootElement(h, d) IN IF r = NULL THEN h ELSE UnlinkAndPin(h, r)

\* the new root, detached and in document d
NewRoot(h, d, n) ==
  IF h.doc[n] # d THEN [h |-> xmlDocCopyNode(h, n, d), n |-> CopyOf(h, n)]
  ELSE [h |-> xmlUnlinkNode(h, n), n |-> n]

\* a second root element, if the document has one, is replaced and left behind
SetRoot(d, r) ==
  /\ heap' = xmlDocSetRootElement(r.h, d, r.n)
  /\ lost' = lost \cup ({RootElement(r.h, d)} \ {NULL})

root_set ==
  \E d \in HeldDocs :
    /\ \/ heap' = DropRoot(heap, d) /\ lost' = lost
       \/ \E w \in HeldWrappers :
            LET n == heap.ptr[w]
            IN  /\ heap.kind[n] = Elem
                /\ heap.doc[n] # d => CanCopy(heap, n)
                /\ SetRoot(d, NewRoot(DropRoot(heap, d), d, n))
    /\ UNCHANGED <<dstate, held>>

-----------------------------------------------------------------------------
(* Setting the value of an attribute or the content of a node.             *)

\* mutant: the children freed are pinned too
ClearPinned(h, p, keep) ==
  LET all == Members(h.kids[p])
  IN  [h EXCEPT !.alive = @ \ (all \ keep), !.kids[p] = <<>>,
                !.parent = [n \in Node |-> IF n \in all THEN NULL ELSE @[n]],
                !.pinned[h.doc[p]] = @ \cup all]

\* the children of p leave the tree: keep is pinned, the others are freed
ClearChildren(h, p, keep) ==
  LET all == Members(h.kids[p])
  IN  [h EXCEPT !.alive = @ \ (all \ keep),
                !.parent = [n \in Node |-> IF n \in all THEN NULL ELSE @[n]],
                !.kids[p] = <<>>,
                !.pinned[h.doc[p]] = @ \cup keep]

\* the one text child that libxml2 gives p for its new value
SetText(h, p) ==
  Link(xmlNewNode(h, malloc(h), Text, h.doc[p]), p, 1, malloc(h))

\* mutant: the loop goes on from the child it has unlinked
UpToFirstWrapped(h, p) ==
  LET s == h.kids[p]
      wrapped == {i \in DOMAIN s : h.priv[s[i]] # NULL}
  IN  {s[i] : i \in {j \in wrapped : \A k \in wrapped : j <= k}}

WrappedChildren(h, p) == {c \in Members(h.kids[p]) : h.priv[c] # NULL}

\* Attr#value=
noko_xml_attr_set_value ==
  \E w \in HeldWrappers :
    LET a == heap.ptr[w]
        h == ClearChildren(heap, a, WrappedChildren(heap, a))
    IN  /\ heap.kind[a] = Attr
        /\ \/ heap' = h
           \/ heap.fresh # {} /\ heap' = SetText(h, a)
        /\ UNCHANGED <<dstate, held, lost>>

\* Node#[]= keeps, of the children of an existing attribute, the ones that its
\* loop unlinks: after the first of them cur->next is NULL and the loop ends
FirstWrappedChild(h, a) ==
  LET s == h.kids[a]
      wrapped == {i \in DOMAIN s : h.priv[s[i]] # NULL}
  IN  {s[i] : i \in {j \in wrapped : \A k \in wrapped : j <= k}}

SetProp(h, n) ==
  LET a == Prop(h, n)
      b == malloc(h)
  IN  IF a # NULL THEN SetText(ClearChildren(h, a, FirstWrappedChild(h, a)), a)
      ELSE SetText([xmlNewNode(h, b, Attr, h.doc[n]) EXCEPT !.parent[b] = n], b)

set(w) ==
  LET n == heap.ptr[w]
  IN  /\ w \in HeldWrappers
      /\ heap.kind[n] = Elem
      /\ heap.fresh # {}
      /\ Prop(heap, n) = NULL => heap.fresh # {malloc(heap)}
      /\ heap' = SetProp(heap, n)
      /\ UNCHANGED <<dstate, held, lost>>

\* Node#native_content=: every child is unlinked and pinned
set_native_content ==
  \E w \in HeldWrappers :
    LET n == heap.ptr[w]
        h == ClearChildren(heap, n, Members(heap.kids[n]))
    IN  /\ \/ heap.kind[n] \in {Elem, Attr} /\ heap' = h
           \/ heap.kind[n] \in {Elem, Attr} /\ heap.fresh # {} /\ heap' = SetText(h, n)
           \/ IsText(heap, n) /\ \E k \in {Text, Blank} : heap' = [heap EXCEPT !.kind[n] = k]
        /\ UNCHANGED <<dstate, held, lost>>

\* Node#do_xinclude: an unwrapped copy takes the place of the <xi:include>
\* node.  libxml2 replaces the copy by what it includes, here one element, and
\* frees it; or it reports an error, and the copy stays.
safe_process_xinclude ==
  \E w \in HeldWrappers :
    LET n == heap.ptr[w]
        p == heap.parent[n]
        i == Position(heap.kids[p], n)
        m == malloc(heap)
    IN  /\ heap.kind[n] = Elem
        /\ p # NULL
        /\ \/ /\ heap.fresh # {}
              /\ heap' = Link(xmlNewNode(UnlinkAndPin(heap, n), m, Elem, heap.doc[n]), p, i, m)
           \/ /\ CanCopy(heap, n)
              /\ heap' = Link(xmlDocCopyNode(UnlinkAndPin(heap, n), n, heap.doc[n]),
                              p, i, CopyOf(heap, n))
        /\ UNCHANGED <<dstate, held, lost>>

-----------------------------------------------------------------------------
(* Documents, references and the collector.                                *)

\* Document.new
NewDocument ==
  \E d \in Doc :
    /\ dstate[d] = "unborn"
    /\ dstate' = [dstate EXCEPT ![d] = "live"]
    /\ held' = held \cup {d}
    /\ UNCHANGED <<heap, lost>>

\* Document#dup(level): a deep copy has a copy of every node, none with a wrapper
DupDocument ==
  \E d \in HeldDocs, e \in Doc :
    /\ dstate[e] = "unborn"
    /\ \/ heap' = heap
       \/ RoomFor(heap, Content(heap, d)) /\ heap' = xmlCopyDoc(heap, d, e)
    /\ dstate' = [dstate EXCEPT ![e] = "live"]
    /\ held' = held \cup {e}
    /\ UNCHANGED lost

\* the program forgets an object
Forget ==
  \E o \in held :
    /\ held' = held \ {o}
    /\ UNCHANGED <<heap, dstate, lost>>

\* a document that the marking does not reach is deallocated
Collect(roots) ==
  \E d \in {c \in Doc : dstate[c] = "live"} \ Marked(heap, roots) :
    /\ heap' = dealloc(heap, d)
    /\ dstate' = [dstate EXCEPT ![d] = "freed"]
    /\ UNCHANGED <<held, lost>>

-----------------------------------------------------------------------------
\* Every operation but Node#[]=
CoreNext == \/ Navigate
            \/ NewNode
            \/ unlink_node
            \/ initialize_copy_with_args
            \/ add_child
            \/ add_next_sibling
            \/ add_previous_sibling
            \/ replace
            \/ root_set
            \/ noko_xml_attr_set_value
            \/ set_native_content
            \/ safe_process_xinclude
            \/ NewDocument
            \/ DupDocument
            \/ Forget
            \/ Collect(held)

\* the attribute that Node#[]= is about to write has at most one child with a
\* wrapper
OneWrappedChild(w) == LET a == Prop(heap, heap.ptr[w])
                      IN  a # NULL => \A b, c \in WrappedChildren(heap, a) : b = c

Next == CoreNext \/ \E w \in HeldWrappers : OneWrappedChild(w) /\ set(w)

\* the same with no restriction on Node#[]=
NextAnySet == CoreNext \/ \E w \in HeldWrappers : set(w)

\* What the parser hands to Ruby: well-formed trees and no wrapper yet.
Parsed(h) ==
  /\ h.fresh \cap h.alive = {}
  /\ h.priv = [n \in Node |-> NULL]
  /\ h.ptr = [w \in Wrapper |-> NULL]
  /\ h.pinned = [d \in Doc |-> {}]
  /\ h.cache = [d \in Doc |-> {}]
  /\ \A n \in Node : h.parent[n] # NULL <=> n \in h.alive
  /\ \A n \in h.alive : DocOf(h, h.parent[n]) = h.doc[n] /\ h.parent[n] \in h.alive \cup Doc
  /\ \A n \in h.alive : n \in Content(h, h.doc[n])
  /\ \A n \in h.alive :
       \/ MayContain(h, h.parent[n], n)
       \/ h.kind[n] = Attr /\ h.parent[n] \in Node /\ h.kind[h.parent[n]] = Elem
  /\ \A p \in Node \cup Doc :
       /\ Injective(h.kids[p])
       /\ Members(h.kids[p]) = {n \in h.alive : h.parent[n] = p /\ h.kind[n] # Attr}

Init == /\ heap \in Heap
        /\ Parsed(heap)
        /\ dstate \in [Doc -> {"unborn", "live"}]
        /\ \A n \in heap.alive : dstate[heap.doc[n]] = "live"
        /\ held = {d \in Doc : dstate[d] = "live"}
        /\ lost = {}

Spec       == Init /\ [][Next]_vars
SpecAnySet == Init /\ [][NextAnySet]_vars

-----------------------------------------------------------------------------
(* Properties.                                                             *)

\* A wrapper that Ruby can still reach points at an allocated node of an
\* allocated document: no method call and no marking reads freed memory.
NoDanglingWrapper ==
  \A w \in Marked(heap, held) \cap Wrapper :
    /\ heap.ptr[w] \in heap.alive
    /\ dstate[heap.doc[heap.ptr[w]]] = "live"

\* noko_xml_node_wrap returns node->_private as it finds it: for the nodes of
\* a document that Ruby can reach it is a wrapper that was not collected.
WrapReturnsLiveObject ==
  LET reached == Marked(heap, held)
  IN  \A n \in heap.alive :
        heap.doc[n] \in reached /\ heap.priv[n] # NULL => heap.priv[n] \in reached

\* When a document is deallocated every node in unlinkedNodes is still
\* allocated, and a pinned attribute, which dealloc_node_i2 frees with what is
\* below it, is not in the tree that xmlFreeDoc frees and has no pinned text
\* below it, which dealloc_node_i2 would read again.
DeallocFreesOnce ==
  \A d \in Doc : \A n \in heap.pinned[d] :
    /\ n \in heap.alive
    /\ heap.doc[n] = d
    /\ heap.kind[n] = Attr =>
         /\ heap.parent[n] = NULL
         /\ \A t \in heap.pinned[d] \cap Members(heap.kids[n]) : heap.kind[t] = Ref

\* Every node will be freed with its document: it is in the tree or below a
\* pinned node, unless a call that raised left it behind.
NothingLeaks ==
  heap.alive \subseteq Below(heap, lost \cap heap.alive) \cup UNION {FreedWith(heap, d) : d \in Doc}

\* A text in a tree and the wrapper its _private names point at each other;
\* the wrapper is in the cache that is searched for wrapped blank texts.
TextWrapperAgrees ==
  \A n \in heap.alive :
    IsText(heap, n) /\ heap.parent[n] # NULL /\ dstate[heap.doc[n]] = "live"
      => /\ heap.priv[n] # NULL => /\ heap.ptr[heap.priv[n]] = n
                                  /\ heap.priv[n] \in heap.cache[heap.doc[n]]
         /\ heap.priv[n] = NULL => \A w \in Wrapper : heap.ptr[w] # n
=============================================================================
