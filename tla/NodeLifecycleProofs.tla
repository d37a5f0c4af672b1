------------------------ MODULE NodeLifecycleProofs -------------------------
(* The safety of NodeLifecycle, for every set of nodes, documents and wrappers. *)
(* First the operations of the extension that NodeLifecycleHeap leaves: unlinking *)
(* and pinning, values and attributes, do_xinclude, root=, and the birth, the   *)
(* copy and the deallocation of a document keep the heap sound.  Then           *)
(* IInv is inductive: one lemma for each action shows that it is preserved, and *)
(* the theorems at the end say what follows for the program.                    *)
EXTENDS NodeLifecycleHeap

-----------------------------------------------------------------------------
(* Unlinking a node of the program and setting a value.                    *)

\* UnlinkAndPin: the node leaves the tree and is pinned.
LEMMA UnlinkAndPinSound ==
  ASSUME NEW h, NEW D, Sound(h, D, NULL), NEW n \in h.alive, D[h.doc[n]] # "freed",
         NEW g, g = UnlinkAndPin(h, n)
  PROVE  /\ Sound(g, D, NULL)
         /\ Keeps(h, g)
         /\ g.fresh = h.fresh /\ g.alive = h.alive /\ g.kind = h.kind /\ g.doc = h.doc
         /\ g.priv = h.priv
         /\ g.parent = [h.parent EXCEPT ![n] = NULL]
         /\ \A p \in Node \cup Doc : p # h.parent[n] => g.kids[p] = h.kids[p]
         /\ h.parent[n] # NULL => g.kids[h.parent[n]] = Without(h.kids[h.parent[n]], n)
<1> DEFINE k == xmlUnlinkNode(h, n)
<1>1. /\ Sound(k, D, NULL)
      /\ Keeps(h, k)
      /\ k.fresh = h.fresh /\ k.alive = h.alive /\ k.kind = h.kind /\ k.doc = h.doc
      /\ k.priv = h.priv /\ k.pinned = h.pinned
      /\ k.parent = [h.parent EXCEPT ![n] = NULL]
      /\ \A p \in Node \cup Doc : p # h.parent[n] => k.kids[p] = h.kids[p]
      /\ h.parent[n] # NULL => k.kids[h.parent[n]] = Without(h.kids[h.parent[n]], n)
  BY UnlinkSound
<1>2. g = noko_xml_document_pin_node(k, n)
  BY DEF UnlinkAndPin
<1> HIDE DEF k
<1>3. n \in k.alive /\ k.parent[n] = NULL
  <2>1. n \in Node /\ h.parent \in [Node -> Node \cup Doc \cup {NULL}]
    BY DEF Sound, Heap
  <2>2. QED BY <1>1, <2>1
<1>4. /\ Sound(g, D, NULL)
      /\ Keeps(k, g)
      /\ g.fresh = k.fresh /\ g.alive = k.alive /\ g.kind = k.kind /\ g.doc = k.doc
      /\ g.priv = k.priv /\ g.parent = k.parent /\ g.kids = k.kids
      /\ g.pinned = [k.pinned EXCEPT ![k.doc[n]] = @ \cup {n}]
      /\ n \in g.pinned[k.doc[n]]
  <2>1. n # NULL /\ k.parent[n] # NULL => k.kind[n] # Attr /\ ~IsText(k, n) /\ k.priv[n] # NULL
    BY <1>3
  <2>2. n \in k.alive /\ Sound(k, D, NULL)
    BY <1>1, <1>3
  <2>3. QED BY <1>2, <2>1, <2>2, PinSound
<1>5. Keeps(h, g)
  BY <1>1, <1>4, KeepsComposes
<1>6. QED BY <1>1, <1>4, <1>5

\* A node of a tree that names no wrapper has none, and is not pinned.
LEMMA UnwrappedIsSpare ==
  ASSUME NEW h, NEW D, Sound(h, D, NULL), NEW n \in h.alive, h.parent[n] # NULL, h.priv[n] = NULL
  PROVE  Spare(h, n)
<1>1. n \in Node /\ n # NULL
  BY NullIsNoObject DEF Sound, Heap
<1>2. Pins(h, NULL) /\ Forgotten(h, NULL)
  BY DEF Sound
<1>3. \A d \in Doc : n \notin h.pinned[d]
  BY <1>1, <1>2 DEF Pins
<1>4. \A w \in Wrapper : h.ptr[w] # n
  BY <1>1, <1>2 DEF Forgotten
<1>5. QED BY <1>3, <1>4 DEF Spare

\* The children of a node leave the tree: those that may be freed are.
LEMMA ClearSound ==
  ASSUME NEW h, NEW D, Sound(h, D, NULL), NEW p \in h.alive, h.kind[p] \in {Elem, Attr},
         D[h.doc[p]] # "freed", NEW keep \in SUBSET Members(h.kids[p]),
         \A n \in Members(h.kids[p]) \ keep : h.kind[n] \in {Text, Blank, Ref} /\ Spare(h, n),
         NEW g, g = ClearChildren(h, p, keep)
  PROVE  /\ Sound(g, D, NULL)
         /\ Keeps(h, g)
         /\ g.fresh = h.fresh /\ g.kind = h.kind /\ g.doc = h.doc /\ g.priv = h.priv
         /\ p \in g.alive
<1> DEFINE all == Members(h.kids[p])
           gone == all \ keep
<1>1. h \in Heap /\ p \in Node
  BY DEF Sound, Heap
<1>2. InTree(h, D, p) /\ DocOf(h, p) = h.doc[p]
  BY <1>1, DistinctSorts DEF InTree, DocOf
<1>3. \A n \in all : /\ n \in Node /\ n \in h.alive /\ h.parent[n] = p /\ h.kind[n] # Attr
                     /\ h.doc[n] = h.doc[p]
  BY <1>1, <1>2, ChildOf
<1>4. \A n \in Node : n \in h.alive /\ h.parent[n] = p /\ h.kind[n] # Attr => n \in all
  BY <1>1, <1>2 DEF Sound, Downward
<1>5. \A n \in gone : h.kind[n] \in {Text, Blank, Ref} /\ Spare(h, n)
  OBVIOUS
<1>6. /\ g.fresh = h.fresh /\ g.alive = h.alive \ gone /\ g.kind = h.kind /\ g.doc = h.doc
      /\ g.parent = [n \in Node |-> IF n \in all THEN NULL ELSE h.parent[n]]
      /\ g.kids = [h.kids EXCEPT ![p] = <<>>] /\ g.priv = h.priv /\ g.ptr = h.ptr
      /\ g.pinned = [h.pinned EXCEPT ![h.doc[p]] = @ \cup keep] /\ g.cache = h.cache
  BY <1>1 DEF Heap, ClearChildren
<1>7. keep \subseteq all /\ gone \subseteq all /\ gone \cap keep = {} /\ all \subseteq gone \cup keep
  OBVIOUS
<1> HIDE DEF all, gone
<1>8. g \in Heap
  <2>1. <<>> \in Seq(Node)
    OBVIOUS
  <2>2. g.parent \in [Node -> Node \cup Doc \cup {NULL}]
    BY <1>1, <1>6 DEF Heap
  <2>3. g.kids \in [Node \cup Doc -> Seq(Node)]
    BY <1>1, <1>6, <2>1 DEF Heap
  <2>4. keep \subseteq Node
    BY <1>3, <1>7
  <2>5. g.pinned \in [Doc -> SUBSET Node]
    BY <1>1, <1>6, <2>4 DEF Heap
  <2>6. g = [h EXCEPT !.alive = g.alive, !.parent = g.parent, !.kids = g.kids, !.pinned = g.pinned]
    BY <1>1, <1>6 DEF Heap, ClearChildren
  <2>7. g.alive \subseteq Node
    BY <1>1, <1>6 DEF Heap
  <2>8. QED BY <1>1, <2>2, <2>3, <2>5, <2>6, <2>7 DEF Heap
<1>9. \A m \in g.alive : /\ m \in h.alive /\ m \in Node /\ m \notin gone
                         /\ g.parent[m] = IF m \in all THEN NULL ELSE h.parent[m]
  BY <1>1, <1>6 DEF Heap
<1>10. p \notin gone
  BY <1>5 DEF Elem, Attr, Text, Blank, Ref
<1>11. \A m \in g.alive : g.parent[m] # NULL => g.parent[m] = h.parent[m] /\ m \notin all
  BY <1>9
<1>12. Upward(g)
  <2>1. \A m \in h.alive : h.parent[m] \in Node => h.parent[m] \notin gone
    BY <1>5 DEF Sound, Upward, Elem, Frag, Attr, Text, Blank, Ref
  <2>2. Upward(h)
    BY DEF Sound
  <2>3. ASSUME NEW m \in g.alive, g.parent[m] \in Node \cup Doc
        PROVE  m \in h.alive /\ g.parent[m] = h.parent[m]
    <3>1. g.parent[m] # NULL
      BY <2>3, NullIsNoObject
    <3>2. QED BY <1>9, <1>11, <3>1
  <2>4. QED BY <1>6, <2>1, <2>2, <2>3, SMTT(30) DEF Upward
<1>13. Downward(g, D)
  <2>1. SUFFICES ASSUME NEW q \in Node \cup Doc, InTree(g, D, q)
                 PROVE  /\ Injective(g.kids[q])
                        /\ \A m \in Node : m \in Members(g.kids[q])
                             <=> m \in g.alive /\ g.parent[m] = q /\ g.kind[m] # Attr
    BY DEF Downward
  <2>2. CASE q = p
    <3>1. g.kids[q] = <<>>
      BY <1>1, <1>6, <2>2 DEF Heap
    <3>2. Injective(<<>>) /\ Members(<<>>) = {}
      BY DEF Injective, Members
    <3>3. \A m \in g.alive : g.parent[m] = p => g.kind[m] = Attr
      BY <1>1, <1>4, <1>6, <1>9, <1>11, NullIsNoObject
    <3>4. QED BY <2>2, <3>1, <3>2, <3>3
  <2>3. CASE q # p
    <3>1. g.kids[q] = h.kids[q] /\ InTree(h, D, q)
      BY <1>1, <1>6, <2>1, <2>3 DEF Heap, InTree
    <3>2. \A m \in Node : m \in g.alive /\ g.parent[m] = q <=> m \in h.alive /\ h.parent[m] = q
      BY <1>1, <1>3, <1>6, <1>7, <1>9, <2>3, NullIsNoObject
    <3>3. QED BY <1>6, <3>1, <3>2 DEF Sound, Downward
  <2>4. QED BY <2>2, <2>3
<1>14. Allocated(g) /\ Pointing(g)
  BY <1>6, <1>9 DEF Sound, Allocated, Pointing
<1>15. Cached(g, D)
  BY <1>6, <1>9 DEF Sound, Cached
<1>16. NotBorn(g, D)
  BY <1>6, <1>9 DEF Sound, NotBorn
<1>17. Forgotten(g, NULL)
  BY <1>6, <1>9 DEF Sound, Forgotten, IsText
<1>18. Pins(g, NULL)
  <2>1. ASSUME NEW d \in Doc, NEW m \in h.pinned[d]
        PROVE  /\ m \in h.alive /\ h.doc[m] = d /\ m \notin gone
               /\ m # NULL /\ h.parent[m] # NULL => /\ h.kind[m] # Attr /\ ~IsText(h, m)
                                                 /\ h.priv[m] # NULL
    BY <1>5 DEF Sound, Pins, Spare
  <2>2. SUFFICES ASSUME NEW d \in Doc, NEW m \in g.pinned[d]
                 PROVE  /\ m \in g.alive /\ g.doc[m] = d
                        /\ m # NULL /\ g.parent[m] # NULL => /\ g.kind[m] # Attr /\ ~IsText(g, m)
                                                          /\ g.priv[m] # NULL
    BY DEF Pins
  <2>3. CASE m \in h.pinned[d]
    <3>1. m \in g.alive
      BY <1>6, <2>1, <2>3
    <3>2. QED BY <1>6, <1>9, <1>11, <2>1, <2>3, <3>1 DEF IsText
  <2>4. CASE m \notin h.pinned[d]
    <3>1. m \in keep /\ d = h.doc[p]
      BY <1>1, <1>6, <2>4 DEF Heap
    <3>2. m \in all /\ m \in g.alive
      BY <1>3, <1>6, <1>7, <3>1
    <3>3. QED BY <1>3, <1>6, <1>9, <3>1, <3>2
  <2>5. QED BY <2>3, <2>4
<1>19. Agrees(g)
  BY <1>6, <1>9, <1>11 DEF Sound, Agrees, IsText
<1>20. Keeps(h, g)
  <2>1. \A d \in Doc : h.pinned[d] \subseteq g.pinned[d]
    BY <1>1, <1>6 DEF Heap
  <2>2. \A w \in Wrapper : h.ptr[w] \in h.alive => h.ptr[w] \in g.alive
    BY <1>5, <1>6 DEF Spare
  <2>3. QED BY <1>6, <2>1, <2>2 DEF Keeps, SameNode
<1>21. p \in g.alive
  BY <1>6, <1>10
<1>22. QED
  BY <1>6, <1>8, <1>12, <1>13, <1>14, <1>15, <1>16, <1>17, <1>18, <1>19, <1>20, <1>21 DEF Sound

\* SetText: p gets one text child.
LEMMA SetTextSound ==
  ASSUME NEW h, NEW D, Sound(h, D, NULL), NEW p \in h.alive, h.kind[p] \in {Elem, Attr},
         D[h.doc[p]] = "live", h.fresh # {}, NEW g, g = SetText(h, p)
  PROVE  Sound(g, D, NULL) /\ Keeps(h, g)
<1> DEFINE n == malloc(h)
           k == xmlNewNode(h, n, Text, h.doc[p])
<1>1. h \in Heap /\ p \in Node /\ h.doc[p] \in Doc /\ Text \in Kind
  BY DEF Sound, Heap, Kind
<1>2. n \in h.fresh /\ n \in Node /\ n \notin h.alive
  BY MallocIsFresh
<1>3. g = Link(k, p, 1, n)
  BY DEF SetText
<1> HIDE DEF n
<1>4. /\ Sound(k, D, NULL)
      /\ Keeps(h, k)
      /\ n \in Node /\ n \in k.alive /\ Spare(k, n)
      /\ k.fresh = h.fresh \ {n} /\ k.pinned = h.pinned
      /\ k.parent[n] = NULL /\ k.kind[n] = Text /\ k.doc[n] = h.doc[p] /\ k.kids[n] = <<>>
      /\ \A m \in h.alive : /\ m \in k.alive /\ SameNode(h, k, m)
                            /\ k.doc[m] = h.doc[m] /\ k.parent[m] = h.parent[m]
      /\ \A q \in Node \cup Doc : q # n => k.kids[q] = h.kids[q]
  BY <1>1, <1>2, NewNodeSound
<1> HIDE DEF k
<1>5. k.kind[p] \in {Elem, Attr} /\ InTree(k, D, p) /\ DocOf(k, p) = k.doc[n]
  BY <1>1, <1>4, DistinctSorts DEF SameNode, InTree, DocOf
<1>6. MayContain(k, p, n)
  BY <1>1, <1>4, <1>5 DEF MayContain, Text, Attr
<1>7. Linkable(k, n)
  BY <1>4 DEF Linkable
<1>8. 1 \in 1 .. Len(k.kids[p]) + 1
  <2>1. k.kids[p] \in Seq(Node)
    BY <1>1, <1>4 DEF Sound, Heap
  <2>2. QED BY <2>1, MembersOfSeq
<1>9. /\ Sound(g, D, NULL)
      /\ Keeps(k, g)
      /\ g.fresh = k.fresh /\ g.alive = k.alive /\ g.kind = k.kind /\ g.doc = k.doc
      /\ g.priv = k.priv /\ g.pinned = k.pinned
      /\ g.parent = [k.parent EXCEPT ![n] = p]
  <2>1. Sound(k, D, NULL) /\ n \in k.alive /\ k.parent[n] = NULL /\ p \in Node \cup Doc
    BY <1>1, <1>4
  <2>2. QED BY <2>1, <1>3, <1>5, <1>6, <1>7, <1>8, LinkSound
<1>10. QED BY <1>4, <1>9, KeepsComposes

\* A new attribute is attached to its element.
LEMMA AttachSound ==
  ASSUME NEW h, NEW D, Sound(h, D, NULL), NEW a \in h.alive, h.kind[a] = Attr, Spare(h, a),
         NEW n \in h.alive, h.kind[n] = Elem, h.doc[n] = h.doc[a],
         NEW g, g = [h EXCEPT !.parent[a] = n]
  PROVE  /\ Sound(g, D, NULL)
         /\ Keeps(h, g)
         /\ g.fresh = h.fresh /\ g.alive = h.alive /\ g.kind = h.kind /\ g.doc = h.doc
<1>1. h \in Heap /\ a \in Node /\ n \in Node /\ \A m \in h.alive : m \in Node
  BY DEF Sound, Heap
<1>2. /\ g.fresh = h.fresh /\ g.alive = h.alive /\ g.kind = h.kind /\ g.doc = h.doc
      /\ g.parent = [h.parent EXCEPT ![a] = n]
      /\ g.kids = h.kids /\ g.priv = h.priv /\ g.ptr = h.ptr
      /\ g.pinned = h.pinned /\ g.cache = h.cache
      /\ g \in Heap
  BY <1>1 DEF Heap
<1>3. g.parent[a] = n /\ \A m \in Node : m # a => g.parent[m] = h.parent[m]
  BY <1>1, <1>2 DEF Heap
<1>4. Upward(g)
  BY <1>1, <1>2, <1>3, DistinctSorts DEF Sound, Upward, Elem, Attr
<1>5. Downward(g, D)
  <2>1. \A q \in Node \cup Doc, m \in Node :
          m \in g.alive /\ g.parent[m] = q /\ g.kind[m] # Attr
            <=> m \in h.alive /\ h.parent[m] = q /\ h.kind[m] # Attr
    BY <1>2, <1>3
  <2>2. \A q \in Node \cup Doc : InTree(g, D, q) => InTree(h, D, q)
    BY <1>2 DEF InTree
  <2>3. Downward(h, D)
    BY DEF Sound
  <2>4. QED BY <1>2, <2>1, <2>2, <2>3, Z3 DEF Downward
<1>6. Allocated(g) /\ Pointing(g) /\ Cached(g, D) /\ NotBorn(g, D)
  BY <1>2 DEF Sound, Allocated, Pointing, Cached, NotBorn
<1>7. Forgotten(g, NULL)
  BY <1>1, <1>2, <1>3 DEF Sound, Forgotten, Spare, IsText
<1>8. Pins(g, NULL)
  <2>1. Pins(h, NULL) /\ \A d \in Doc : a \notin h.pinned[d]
    BY DEF Sound, Spare
  <2>2. QED BY <1>1, <1>2, <1>3, <2>1 DEF Pins, IsText
<1>9. Agrees(g)
  BY <1>1, <1>2, <1>3 DEF Sound, Agrees, IsText, Text, Blank, Attr
<1>10. Keeps(h, g)
  BY <1>2, KeepsNothing
<1>11. QED
  BY <1>2, <1>4, <1>5, <1>6, <1>7, <1>8, <1>9, <1>10 DEF Sound

\* Prop gives an attribute of its element.
LEMMA PropOfElement ==
  ASSUME NEW h, NEW n \in Node, NEW a, a = Prop(h, n), a # NULL
  PROVE  a \in h.alive /\ h.kind[a] = Attr /\ h.parent[a] = n
BY DEF Prop

\* The children of an attribute are texts and references; those without a
\* wrapper may be freed.
LEMMA AttrChildren ==
  ASSUME NEW h, NEW D, Sound(h, D, NULL), NEW a \in h.alive, h.kind[a] = Attr,
         NEW n \in Members(h.kids[a])
  PROVE  h.kind[n] \in {Text, Blank, Ref} /\ (h.priv[n] = NULL => Spare(h, n))
<1>1. a \in Node /\ a # NULL
  BY NullIsNoObject DEF Sound, Heap
<1>2. InTree(h, D, a)
  BY DEF InTree
<1>3. n \in h.alive /\ h.parent[n] = a
  BY <1>1, <1>2, ChildOf
<1>4. QED
  BY <1>1, <1>3, UnwrappedIsSpare DEF Sound, Upward

\* When at most one child has a wrapper, the first one that has is all of them.
LEMMA FirstIsOnly ==
  ASSUME NEW h, NEW D, Sound(h, D, NULL), NEW a \in h.alive,
         \A b, c \in WrappedChildren(h, a) : b = c
  PROVE  FirstWrappedChild(h, a) = WrappedChildren(h, a)
<1> DEFINE s == h.kids[a]
           wrapped == {i \in DOMAIN s : h.priv[s[i]] # NULL}
<1>1. a \in Node /\ s \in Seq(Node) /\ InTree(h, D, a)
  BY DEF Sound, Heap, InTree
<1>2. Injective(s) /\ DOMAIN s = 1 .. Len(s) /\ Len(s) \in Nat
  BY <1>1, MembersOfSeq DEF Sound, Downward
<1>3. \A i \in wrapped : s[i] \in WrappedChildren(h, a)
  BY DEF WrappedChildren, Members
<1>4. \A i, j \in wrapped : i = j
  BY <1>2, <1>3 DEF Injective
<1>5. {j \in wrapped : \A k \in wrapped : j <= k} = wrapped
  <2>1. ASSUME NEW j \in wrapped, NEW k \in wrapped PROVE j <= k
    <3>1. j = k
      BY <1>4
    <3>2. j \in Nat
      BY <1>2
    <3>3. QED BY <3>1, <3>2
  <2>2. QED BY <2>1
<1>6. {s[i] : i \in wrapped} = WrappedChildren(h, a)
  BY DEF WrappedChildren, Members
<1>7. QED BY <1>5, <1>6 DEF FirstWrappedChild

\* SetProp: Node#[]= when at most one child of the attribute has a wrapper.
LEMMA SetPropSound ==
  ASSUME NEW h, NEW D, Sound(h, D, NULL), NEW n \in h.alive, h.kind[n] = Elem,
         D[h.doc[n]] = "live", h.fresh # {}, Prop(h, n) = NULL => h.fresh # {malloc(h)},
         Prop(h, n) # NULL => \A b, c \in WrappedChildren(h, Prop(h, n)) : b = c,
         NEW g, g = SetProp(h, n)
  PROVE  Sound(g, D, NULL) /\ Keeps(h, g)
<1> DEFINE a == Prop(h, n)
           b == malloc(h)
<1>1. h \in Heap /\ n \in Node /\ h.doc[n] \in Doc /\ Attr \in Kind
  BY DEF Sound, Heap, Kind
<1>2. CASE a # NULL
  <2> DEFINE keep == WrappedChildren(h, a)
             k == ClearChildren(h, a, keep)
  <2>1. a \in h.alive /\ h.kind[a] = Attr /\ h.parent[a] = n
    BY <1>1, <1>2, PropOfElement
  <2>2. D[h.doc[a]] = "live"
    BY <1>1, <2>1 DEF Sound, Upward
  <2>3. FirstWrappedChild(h, a) = keep
    BY <1>2, <2>1, FirstIsOnly
  <2>4. g = SetText(k, a)
    BY <1>2, <2>3 DEF SetProp
  <2> HIDE DEF a
  <2>5. keep \subseteq Members(h.kids[a])
    BY DEF WrappedChildren
  <2>6. \A c \in Members(h.kids[a]) \ keep : h.kind[c] \in {Text, Blank, Ref} /\ Spare(h, c)
    BY <2>1, AttrChildren DEF WrappedChildren
  <2> HIDE DEF keep
  <2>7. /\ Sound(k, D, NULL)
        /\ Keeps(h, k)
        /\ k.fresh = h.fresh /\ k.kind = h.kind /\ k.doc = h.doc /\ k.priv = h.priv
        /\ a \in k.alive
    BY <2>1, <2>2, <2>5, <2>6, ClearSound
  <2> HIDE DEF k
  <2>8. Sound(g, D, NULL) /\ Keeps(k, g)
    BY <2>1, <2>2, <2>4, <2>7, SetTextSound
  <2>9. QED BY <2>7, <2>8, KeepsComposes
<1>3. CASE a = NULL
  <2> DEFINE k == xmlNewNode(h, b, Attr, h.doc[n])
             l == [k EXCEPT !.parent[b] = n]
  <2>1. b \in h.fresh
    BY MallocIsFresh
  <2>2. g = SetText(l, b) /\ h.fresh # {b}
    BY <1>3 DEF SetProp
  <2> HIDE DEF a, b
  <2>3. /\ Sound(k, D, NULL)
        /\ Keeps(h, k)
        /\ b \in Node /\ b \in k.alive /\ Spare(k, b)
        /\ k.fresh = h.fresh \ {b} /\ k.pinned = h.pinned
        /\ k.parent[b] = NULL /\ k.kind[b] = Attr /\ k.doc[b] = h.doc[n] /\ k.kids[b] = <<>>
        /\ \A m \in h.alive : /\ m \in k.alive /\ SameNode(h, k, m)
                              /\ k.doc[m] = h.doc[m] /\ k.parent[m] = h.parent[m]
        /\ \A q \in Node \cup Doc : q # b => k.kids[q] = h.kids[q]
    BY <1>1, <2>1, NewNodeSound
  <2> HIDE DEF k
  <2>4. n \in k.alive /\ k.kind[n] = Elem /\ k.doc[n] = k.doc[b]
    BY <2>3 DEF SameNode
  <2>5. /\ Sound(l, D, NULL)
        /\ Keeps(k, l)
        /\ l.fresh = k.fresh /\ l.alive = k.alive /\ l.kind = k.kind /\ l.doc = k.doc
    BY <2>3, <2>4, AttachSound
  <2> HIDE DEF l
  <2>6. l.fresh # {}
    BY <2>1, <2>2, <2>3, <2>5
  <2>7. Sound(g, D, NULL) /\ Keeps(l, g)
    BY <2>2, <2>3, <2>5, <2>6, SetTextSound
  <2>8. Keeps(h, l)
    BY <2>3, <2>5, KeepsComposes
  <2>9. QED BY <2>7, <2>8, KeepsComposes
<1>4. QED BY <1>2, <1>3

-----------------------------------------------------------------------------
(* Node#do_xinclude and Document#root=.                                    *)

\* A copy of n does not depend on whether n, or a node below a document, is in
\* the tree.
LEMMA SubtreeDependsOn ==
  ASSUME NEW h, NEW g, NEW n \in Node, h.alive \subseteq Node,
         g.fresh = h.fresh, g.alive = h.alive,
         \A m \in h.alive : \/ m = n
                            \/ g.parent[m] = h.parent[m]
                            \/ g.parent[m] \notin Node /\ h.parent[m] \notin Node,
         g.parent[n] = h.parent[n] \/ g.parent[n] \notin Node
  PROVE  /\ CanCopy(h, n) => CanCopy(g, n)
         /\ CopyOf(g, n) = CopyOf(h, n)
<1>1. Subtree(g, n) = Subtree(h, n)
  <2>1. \A S \in SUBSET (h.alive \ {n}) :
          (\A c \in g.alive : g.parent[c] \in {n} \cup S => c \in {n} \cup S)
            <=> (\A c \in h.alive : h.parent[c] \in {n} \cup S => c \in {n} \cup S)
    OBVIOUS
  <2>2. {S \in SUBSET (g.alive \ {n}) :
            \A c \in g.alive : g.parent[c] \in {n} \cup S => c \in {n} \cup S}
        = {S \in SUBSET (h.alive \ {n}) :
            \A c \in h.alive : h.parent[c] \in {n} \cup S => c \in {n} \cup S}
    BY <2>1
  <2>3. QED BY <2>2 DEF Subtree, Below
<1>2. Subtree(h, n) \subseteq Node
  BY BelowIsLeast DEF Subtree
<1>3. IsAncestorOfSelf(g, n) => IsAncestorOfSelf(h, n)
  BY <1>1, <1>2 DEF IsAncestorOfSelf
<1>4. \A S : (RoomFor(g, S) <=> RoomFor(h, S)) /\ CopyMap(g, S) = CopyMap(h, S)
  BY SMTT(30) DEF RoomFor, CopyMap
<1>5. QED BY <1>1, <1>3, <1>4 DEF CanCopy, CopyOf

\* Where the <xi:include> node n was, a new node is linked.
LEMMA TakePlaceSound ==
  ASSUME NEW h, NEW D, Sound(h, D, NULL), NEW n \in h.alive, h.kind[n] = Elem,
         D[h.doc[n]] = "live", NEW p, p = h.parent[n], p # NULL,
         NEW i, i = Position(h.kids[p], n),
         NEW k, Sound(k, D, NULL), Keeps(UnlinkAndPin(h, n), k),
         \A m \in h.alive : m \in k.alive /\ k.kind[m] = h.kind[m] /\ k.doc[m] = h.doc[m],
         k.kids[p] = UnlinkAndPin(h, n).kids[p],
         NEW m \in k.alive, k.kind[m] = Elem, k.doc[m] = h.doc[n], k.parent[m] = NULL, Spare(k, m),
         NEW g, g = Link(k, p, i, m)
  PROVE  Sound(g, D, NULL) /\ Keeps(h, g)
<1> DEFINE u == UnlinkAndPin(h, n)
<1>1. D[h.doc[n]] # "freed" /\ h \in Heap /\ n \in Node
  BY DEF Sound, Heap
<1>2. /\ p \in Node \cup Doc
      /\ InTree(h, D, p)
      /\ DocOf(h, p) = h.doc[n]
      /\ h.kids[p] \in Seq(Node) /\ Injective(h.kids[p])
      /\ n \in Members(h.kids[p])
  BY <1>1, ParentOf DEF Elem, Attr
<1>3. Keeps(h, u) /\ u.kids[p] = Without(h.kids[p], n)
  <2>1. /\ Sound(u, D, NULL)
        /\ Keeps(h, u)
        /\ u.fresh = h.fresh /\ u.alive = h.alive /\ u.kind = h.kind /\ u.doc = h.doc
        /\ u.priv = h.priv
        /\ u.parent = [h.parent EXCEPT ![n] = NULL]
        /\ \A q \in Node \cup Doc : q # h.parent[n] => u.kids[q] = h.kids[q]
        /\ h.parent[n] # NULL => u.kids[h.parent[n]] = Without(h.kids[h.parent[n]], n)
    BY <1>1, UnlinkAndPinSound
  <2> HIDE DEF u
  <2>2. QED BY <2>1
<1>4. Keeps(u, k)
  OBVIOUS
<1>5. i \in 1 .. Len(k.kids[p]) + 1
  <2>1. i \in 1 .. Len(h.kids[p]) /\ Len(h.kids[p]) \in Nat
    BY <1>2, PositionOfMember, MembersOfSeq
  <2>2. Len(Without(h.kids[p], n)) = Len(h.kids[p]) - 1
    <3> DEFINE s == h.kids[p]
    <3>1. s \in Seq(Node) /\ Injective(s) /\ n \in Node /\ n \in Members(s)
      BY <1>1, <1>2
    <3> HIDE DEF s
    <3>2. /\ Without(s, n) \in Seq(Node)
          /\ Injective(Without(s, n))
          /\ Members(Without(s, n)) = Members(s) \ {n}
          /\ n \in Members(s) => Len(Without(s, n)) = Len(s) - 1
      BY <3>1, WithoutMember
    <3>3. QED BY <3>1, <3>2 DEF s
  <2>3. Len(k.kids[p]) + 1 = Len(h.kids[p])
    BY <1>3, <2>1, <2>2
  <2>4. QED BY <2>1, <2>3
<1> HIDE DEF u
<1>6. InTree(k, D, p) /\ DocOf(k, p) = k.doc[m]
  BY <1>2, DistinctSorts DEF InTree, DocOf
<1>7. MayContain(k, p, m)
  <2>1. p \in Node => h.kind[p] \in {Elem, Frag}
    BY <1>1 DEF Sound, Upward, Elem, Text, Blank, Ref, Attr
  <2>2. p \in Node => p \in h.alive
    BY <1>1 DEF Sound, Upward
  <2>3. QED BY <1>2, <2>1, <2>2 DEF MayContain, Elem, Attr
<1>8. Linkable(k, m)
  BY SMTT(30) DEF Linkable
<1>9. /\ Sound(g, D, NULL)
      /\ Keeps(k, g)
      /\ g.fresh = k.fresh /\ g.alive = k.alive /\ g.kind = k.kind /\ g.doc = k.doc
      /\ g.priv = k.priv /\ g.pinned = k.pinned
      /\ g.parent = [k.parent EXCEPT ![m] = p]
  BY <1>2, <1>5, <1>6, <1>7, <1>8, LinkSound, SMTT(30)
<1>10. Keeps(h, k)
  BY <1>3, <1>4, KeepsComposes
<1>11. QED BY <1>9, <1>10, KeepsComposes

\* A non-empty set of numbers has a least one.
LEMMA LeastNumber ==
  ASSUME NEW T, T \subseteq Nat, T # {}
  PROVE  \E i \in T : \A j \in T : i <= j
<1> DEFINE R == OpToRel(<, Nat)
<1>1. IsWellFoundedOn(R, Nat)
  BY NatLessThanWellFounded, Zenon
<1>2. R = {ss \in Nat \X Nat : ss[1] < ss[2]}
  BY DEF OpToRel
<1> HIDE DEF R
<1>3. PICK i \in T : \A j \in T : ~ (<<j, i>> \in R)
  BY <1>1, WFMin
<1>4. \A j \in T : j < i => <<j, i>> \in R
  BY <1>2
<1>5. ASSUME NEW j \in T PROVE i <= j
  <2>1. i \in Nat /\ j \in Nat /\ ~(j < i)
    BY <1>3, <1>4
  <2>2. QED BY <2>1
<1>6. QED BY <1>5

\* The root element is an element that has the document as its parent.
LEMMA RootIsElement ==
  ASSUME NEW h, NEW D, Sound(h, D, NULL), NEW d \in Doc, D[d] # "freed",
         NEW r, r = RootElement(h, d), r # NULL
  PROVE  r \in Node /\ r \in h.alive /\ h.kind[r] = Elem /\ h.parent[r] = d /\ h.doc[r] = d
<1> DEFINE s == h.kids[d]
           elements == {i \in DOMAIN s : h.kind[s[i]] = Elem}
<1>1. s \in Seq(Node) /\ InTree(h, D, d) /\ DocOf(h, d) = d
  BY DistinctSorts DEF Sound, Heap, InTree, DocOf
<1>2. elements # {} /\ r = s[CHOOSE i \in elements : \A j \in elements : i <= j]
  BY DEF RootElement
<1>3. elements \subseteq Nat
  BY <1>1, MembersOfSeq
<1> HIDE DEF elements
<1>4. \E i \in elements : \A j \in elements : i <= j
  BY <1>2, <1>3, LeastNumber
<1>5. PICK i \in elements : r = s[i]
  BY <1>2, <1>4
<1>6. r \in Members(s) /\ h.kind[r] = Elem
  BY <1>5 DEF elements, Members
<1>7. QED BY <1>1, <1>6, ChildOf

\* Document#root=(nil).
LEMMA DropRootSound ==
  ASSUME NEW h, NEW D, Sound(h, D, NULL), NEW d \in Doc, D[d] = "live",
         NEW g, g = DropRoot(h, d)
  PROVE  /\ Sound(g, D, NULL)
         /\ Keeps(h, g)
         /\ g.fresh = h.fresh /\ g.alive = h.alive /\ g.kind = h.kind /\ g.doc = h.doc
         /\ g.priv = h.priv
         /\ \A m \in h.alive : \/ g.parent[m] = h.parent[m]
                               \/ h.doc[m] = d /\ h.parent[m] = d /\ g.parent[m] = NULL
<1> DEFINE r == RootElement(h, d)
<1>1. CASE r = NULL
  <2>1. g = h
    BY <1>1 DEF DropRoot
  <2>2. QED BY <2>1, KeepsNothing
<1>2. CASE r # NULL
  <2>1. g = UnlinkAndPin(h, r)
    BY <1>2 DEF DropRoot
  <2>2. r \in Node /\ r \in h.alive /\ h.kind[r] = Elem /\ h.parent[r] = d /\ h.doc[r] = d
    BY <1>2, RootIsElement
  <2>3. h.parent \in [Node -> Node \cup Doc \cup {NULL}] /\ \A m \in h.alive : m \in Node
    BY DEF Sound, Heap
  <2> HIDE DEF r
  <2>4. /\ Sound(g, D, NULL)
        /\ Keeps(h, g)
        /\ g.fresh = h.fresh /\ g.alive = h.alive /\ g.kind = h.kind /\ g.doc = h.doc
        /\ g.priv = h.priv
        /\ g.parent = [h.parent EXCEPT ![r] = NULL]
        /\ \A p \in Node \cup Doc : p # h.parent[r] => g.kids[p] = h.kids[p]
        /\ h.parent[r] # NULL => g.kids[h.parent[r]] = Without(h.kids[h.parent[r]], r)
    BY <2>1, <2>2, UnlinkAndPinSound
  <2>5. QED BY <2>2, <2>3, <2>4
<1>3. QED BY <1>1, <1>2

\* The new root is made in the heap in which the old one has left the tree: the
\* copy of a node of another document is the same there.
LEMMA DropRootCanCopy ==
  ASSUME NEW h, NEW D, Sound(h, D, NULL), NEW d \in Doc, D[d] = "live",
         NEW n \in h.alive, h.doc[n] # d, CanCopy(h, n)
  PROVE  CanCopy(DropRoot(h, d), n)
<1> DEFINE k == DropRoot(h, d)
<1>1. n \in Node /\ h.alive \subseteq Node
  BY DEF Sound, Heap
<1>2. /\ k.fresh = h.fresh /\ k.alive = h.alive
      /\ \A m \in h.alive : \/ k.parent[m] = h.parent[m]
                            \/ h.doc[m] = d /\ h.parent[m] = d /\ k.parent[m] = NULL
  BY DropRootSound
<1> HIDE DEF k
<1>3. \A m \in h.alive : \/ m = n
                         \/ k.parent[m] = h.parent[m]
                         \/ k.parent[m] \notin Node /\ h.parent[m] \notin Node
  BY <1>2, DistinctSorts, NullIsNoObject
<1>4. k.parent[n] = h.parent[n]
  BY <1>2
<1>5. QED BY <1>1, <1>2, <1>3, <1>4, SubtreeDependsOn DEF k

\* The new root, a node of the document or the copy of another, is detached.
LEMMA NewRootSound ==
  ASSUME NEW k, NEW D, Sound(k, D, NULL), NEW d \in Doc, D[d] = "live",
         NEW n \in k.alive, k.kind[n] = Elem, D[k.doc[n]] = "live", k.priv[n] # NULL,
         k.doc[n] # d => CanCopy(k, n),
         NEW r, r = NewRoot(k, d, n)
  PROVE  /\ Sound(r.h, D, NULL) /\ Keeps(k, r.h)
         /\ r.n \in r.h.alive /\ r.h.parent[r.n] = NULL /\ r.h.kind[r.n] = Elem
         /\ r.h.doc[r.n] = d /\ Linkable(r.h, r.n)
<1>0. n \in Node
  BY DEF Sound, Heap
<1>1. CASE k.doc[n] # d
  <2> DEFINE q == xmlDocCopyNode(k, n, d)
             c == CopyOf(k, n)
  <2>1. r.h = q /\ r.n = c
    BY <1>1 DEF NewRoot
  <2>2. CanCopy(k, n)
    BY <1>1
  <2>3. /\ Sound(q, D, NULL)
        /\ Keeps(k, q)
        /\ c \in q.alive /\ c \notin k.alive /\ q.doc[c] = d /\ q.parent[c] = NULL
        /\ q.kind[c] = k.kind[n]
        /\ Spare(q, c)
        /\ \A m \in k.alive : /\ m \in q.alive
                              /\ q.kind[m] = k.kind[m] /\ q.doc[m] = k.doc[m]
                              /\ q.parent[m] = k.parent[m] /\ q.priv[m] = k.priv[m]
        /\ q.fresh \subseteq k.fresh
        /\ \A p \in Node \cup Doc : p \notin k.fresh => q.kids[p] = k.kids[p]
    BY <2>2, CopyNodeSound
  <2> HIDE DEF q, c
  <2>4. QED BY <2>1, <2>3 DEF Linkable
<1>2. CASE k.doc[n] = d
  <2> DEFINE q == xmlUnlinkNode(k, n)
  <2>1. r.h = q /\ r.n = n
    BY <1>2 DEF NewRoot
  <2>2. D[k.doc[n]] # "freed" /\ n \in k.alive
    OBVIOUS
  <2>3. /\ Sound(q, D, NULL)
        /\ Keeps(k, q)
        /\ q.fresh = k.fresh /\ q.alive = k.alive /\ q.kind = k.kind /\ q.doc = k.doc
        /\ q.priv = k.priv /\ q.pinned = k.pinned
        /\ q.parent = [k.parent EXCEPT ![n] = NULL]
        /\ \A p \in Node \cup Doc : p # k.parent[n] => q.kids[p] = k.kids[p]
        /\ k.parent[n] # NULL => q.kids[k.parent[n]] = Without(k.kids[k.parent[n]], n)
    BY <2>2, UnlinkSound, Z3
  <2> HIDE DEF q
  <2>4. q.parent[n] = NULL
    <3>1. k.parent \in [Node -> Node \cup Doc \cup {NULL}]
      BY DEF Sound, Heap
    <3>2. QED BY <1>0, <2>3, <3>1
  <2>5. Linkable(q, n)
    BY <2>3 DEF Linkable, IsText, Elem, Text, Blank
  <2>6. QED BY <1>2, <2>1, <2>3, <2>4, <2>5
<1>3. QED BY <1>1, <1>2

\* Document#root=(node): the node, or its copy, is the new root element.
LEMMA SetRootSound ==
  ASSUME NEW h, NEW D, Sound(h, D, NULL), NEW d \in Doc, D[d] = "live",
         NEW n \in h.alive, h.kind[n] = Elem, D[h.doc[n]] = "live", h.priv[n] # NULL,
         h.doc[n] # d => CanCopy(h, n),
         NEW r, r = NewRoot(DropRoot(h, d), d, n),
         NEW g, g = xmlDocSetRootElement(r.h, d, r.n)
  PROVE  Sound(g, D, NULL) /\ Keeps(h, g) /\ RootElement(r.h, d) \in Node \cup {NULL}
<1> DEFINE k == DropRoot(h, d)
<1>1. h \in Heap /\ n \in Node /\ h.alive \subseteq Node
  BY DEF Sound, Heap
<1>2. /\ Sound(k, D, NULL)
      /\ Keeps(h, k)
      /\ k.fresh = h.fresh /\ k.alive = h.alive /\ k.kind = h.kind /\ k.doc = h.doc
      /\ k.priv = h.priv
      /\ \A m \in h.alive : \/ k.parent[m] = h.parent[m]
                            \/ h.doc[m] = d /\ h.parent[m] = d /\ k.parent[m] = NULL
  BY DropRootSound
<1>3. r = NewRoot(k, d, n)
  OBVIOUS
<1> HIDE DEF k
<1>4. /\ Sound(r.h, D, NULL) /\ Keeps(k, r.h)
      /\ r.n \in r.h.alive /\ r.h.parent[r.n] = NULL /\ r.h.kind[r.n] = Elem
      /\ r.h.doc[r.n] = d /\ Linkable(r.h, r.n)
  <2>1. k.doc[n] # d => CanCopy(k, n)
    BY <1>2, DropRootCanCopy DEF k
  <2>2. QED BY <1>2, <1>3, <2>1, NewRootSound
<1> DEFINE q == r.h
           c == r.n
           old == RootElement(q, d)
<1>5. g = xmlDocSetRootElement(q, d, c) /\ Sound(q, D, NULL) /\ Keeps(k, q) /\ Ready(q, D, c)
      /\ q.kind[c] = Elem /\ q.doc[c] = d
  BY <1>4 DEF Ready
<1>6. Keeps(h, q)
  BY <1>2, <1>5, KeepsComposes
<1>7. MayContain(q, d, c) /\ InTree(q, D, d) /\ DocOf(q, d) = q.doc[c]
  BY <1>5 DEF MayContain, InTree, DocOf, Elem, Attr
<1> HIDE DEF q, c
<1>8. CASE old = NULL
  <2>1. g = Link(q, d, Len(q.kids[d]) + 1, c)
    BY <1>5, <1>8 DEF xmlDocSetRootElement
  <2>2. Len(q.kids[d]) \in Nat
    BY <1>5, MembersOfSeq DEF Sound, Heap
  <2> DEFINE i == Len(q.kids[d]) + 1
  <2>3. i \in 1 .. Len(q.kids[d]) + 1
    BY <2>2
  <2> HIDE DEF i
  <2>4. Placed(q, D, c, [h |-> Link(q, d, i, c), n |-> c])
    BY <1>5, <1>7, <2>3, LinkPlaced
  <2>5. Sound(g, D, NULL) /\ Keeps(q, g)
    BY <2>1, <2>4 DEF Placed, i
  <2>6. QED BY <1>6, <1>8, <2>5, KeepsComposes DEF q
<1>9. CASE old # NULL
  <2>1. g = xmlReplaceNode(q, old, c).h
    BY <1>5, <1>9 DEF xmlDocSetRootElement
  <2>2. /\ old \in Node /\ old \in q.alive /\ q.kind[old] = Elem /\ q.parent[old] = d
        /\ q.doc[old] = d
    BY <1>5, <1>9, RootIsElement
  <2>3. old \in Node \cup {NULL}
    BY <2>2
  <2> HIDE DEF old
  <2>4. Placed(q, D, c, xmlReplaceNode(q, old, c))
    BY <1>5, <1>7, <2>2, ReplaceNodePlaced DEF Elem, Attr
  <2>5. Sound(g, D, NULL) /\ Keeps(q, g)
    BY <2>1, <2>4 DEF Placed
  <2>6. QED BY <1>6, <2>3, <2>5, KeepsComposes DEF q, old
<1>10. QED BY <1>8, <1>9

-----------------------------------------------------------------------------
(* Documents.                                                              *)

DState == [Doc -> {"unborn", "live", "freed"}]

\* A document that is allocated has no node yet, and may be used.
LEMMA BirthSound ==
  ASSUME NEW h, NEW D \in DState, Sound(h, D, NULL), NEW G, Usable(h, D, G),
         NEW e \in Doc, D[e] = "unborn", NEW E, E = [D EXCEPT ![e] = "live"]
  PROVE  /\ E \in DState /\ Sound(h, E, NULL) /\ Usable(h, E, G \cup {e})
         /\ \A n \in h.alive : h.doc[n] # e
<1>1. /\ E[e] = "live" /\ E \in DState
      /\ \A d \in Doc : d # e => E[d] = D[d]
  BY DEF DState
<1>2. h \in Heap /\ \A n \in h.alive : h.doc[n] \in Doc
  BY DEF Sound, Heap
<1>3. NotBorn(h, E) /\ h.cache[e] = {} /\ \A n \in h.alive : h.doc[n] # e
  BY <1>1 DEF Sound, NotBorn
<1>4. Cached(h, E)
  BY <1>1, <1>2 DEF Sound, Cached
<1>5. Downward(h, E)
  <2>1. \A p : InTree(h, E, p) => InTree(h, D, p)
    BY <1>1 DEF InTree
  <2>2. Downward(h, D)
    BY DEF Sound
  <2>3. QED BY <2>1, <2>2 DEF Downward
<1>6. Sound(h, E, NULL)
  BY <1>3, <1>4, <1>5 DEF Sound
<1>7. Usable(h, E, G \cup {e})
  BY <1>1, <1>3, DistinctSorts DEF Usable, Objects
<1>8. QED BY <1>1, <1>3, <1>6, <1>7

\* The copy of the content of a document is the content of the new one.
LEMMA CopyDocSound ==
  ASSUME NEW h, NEW D, Sound(h, D, NULL), NEW d \in Doc, D[d] = "live",
         NEW e \in Doc, D[e] = "live", \A n \in h.alive : h.doc[n] # e,
         RoomFor(h, Content(h, d)), NEW g, g = xmlCopyDoc(h, d, e)
  PROVE  Sound(g, D, NULL) /\ Keeps(h, g)
<1> DEFINE S == Content(h, d)
           f == CopyMap(h, S)
           k == CopyBy(h, f, e)
           roots == {f[y] : y \in {z \in DOMAIN f : h.parent[z] = d}}
<1>1. /\ h \in Heap /\ h.alive \subseteq Node /\ h.fresh \subseteq Node
      /\ h.kids[d] \in Seq(Node)
  BY DEF Sound, Heap
<1>2. /\ S \in SUBSET h.alive
      /\ \A c \in h.alive : h.parent[c] \in S => c \in S
      /\ \A c \in h.alive : h.parent[c] = d => c \in S
  BY BelowIsLeast DEF Content
<1>3. g = [k EXCEPT !.parent = [n \in Node |-> IF n \in roots THEN e ELSE k.parent[n]],
                    !.kids[e] = [i \in DOMAIN h.kids[d] |-> f[h.kids[d][i]]]]
  BY DEF xmlCopyDoc, CopyContent
<1>4. f \in [S -> h.fresh] /\ Injective(f) /\ DOMAIN f = S
  <2>1. \E q \in [S -> h.fresh] : Injective(q)
    BY DEF RoomFor
  <2>2. f \in [S -> h.fresh] /\ Injective(f)
    <3> HIDE DEF S
    <3> QED BY <2>1 DEF CopyMap
  <2>3. QED BY <2>2
<1> HIDE DEF S, f
<1>5. Copies(h, k, f, e)
  BY <1>2, <1>4, CopyFields
<1>6. Sound(k, D, NULL) /\ Keeps(h, k) /\ \A y \in S : Spare(k, f[y])
  BY <1>2, <1>4, <1>5, CopySound
<1> HIDE DEF k
<1>7. \A y \in S : /\ y \in h.alive /\ f[y] \in Node /\ f[y] \in k.alive
                   /\ k.kind[f[y]] = h.kind[y] /\ k.doc[f[y]] = e /\ k.priv[f[y]] = NULL
                   /\ k.parent[f[y]] = IF h.parent[y] \in S THEN f[h.parent[y]] ELSE NULL
  BY <1>2, <1>4, <1>5 DEF Copies
<1>8. \A m \in roots : \E y \in S : m = f[y] /\ h.parent[y] = d
  BY <1>4
<1>9. \A y \in S : h.parent[y] = d => f[y] \in roots
  BY <1>4
<1>10. \A m \in roots : /\ m \in Node /\ m \in k.alive /\ k.doc[m] = e /\ k.parent[m] = NULL
                        /\ Spare(k, m)
  <2>1. d \notin S
    BY <1>1, <1>2, DistinctSorts
  <2>2. QED BY <1>6, <1>7, <1>8, <2>1
<1> DEFINE t == [i \in DOMAIN h.kids[d] |-> f[h.kids[d][i]]]
<1>11. Injective(h.kids[d]) /\ \A n \in Node : n \in Members(h.kids[d])
                                  <=> n \in h.alive /\ h.parent[n] = d /\ h.kind[n] # Attr
  BY DEF Sound, Downward, InTree
<1>12. \A y \in Members(h.kids[d]) : y \in S /\ y \in Node /\ h.parent[y] = d /\ h.kind[y] # Attr
  <2>1. Members(h.kids[d]) \subseteq Node
    BY <1>1, MembersOfSeq
  <2>2. QED BY <1>2, <1>11, <2>1
<1>13. /\ t \in Seq(Node) /\ Members(t) = {f[y] : y \in Members(h.kids[d])}
       /\ Injective(t)
  <2> DEFINE s == h.kids[d]
  <2>1. s \in Seq(Node) /\ Injective(s) /\ \A y \in Members(s) : f[y] \in Node
    BY <1>1, <1>7, <1>11, <1>12
  <2>2. \A y, z \in Members(s) : f[y] = f[z] => y = z
    BY <1>4, <1>12 DEF Injective
  <2> HIDE DEF s
  <2>3. /\ [i \in DOMAIN s |-> f[s[i]]] \in Seq(Node)
        /\ Members([i \in DOMAIN s |-> f[s[i]]]) = {f[y] : y \in Members(s)}
        /\ (Injective(s) /\ \A y, z \in Members(s) : f[y] = f[z] => y = z)
              => Injective([i \in DOMAIN s |-> f[s[i]]])
    BY <2>1, MappedSeq, Z3
  <2>4. QED BY <2>1, <2>2, <2>3 DEF s
<1> HIDE DEF t, roots
<1>14. k \in Heap /\ k.alive \subseteq Node
  BY <1>6 DEF Sound, Heap
<1>15. /\ g.fresh = k.fresh /\ g.alive = k.alive /\ g.kind = k.kind /\ g.doc = k.doc
       /\ g.parent = [n \in Node |-> IF n \in roots THEN e ELSE k.parent[n]]
       /\ g.kids = [k.kids EXCEPT ![e] = t]
       /\ g.priv = k.priv /\ g.ptr = k.ptr /\ g.pinned = k.pinned /\ g.cache = k.cache
       /\ g \in Heap
  <2>1. g = [k EXCEPT !.parent = [n \in Node |-> IF n \in roots THEN e ELSE k.parent[n]],
                      !.kids[e] = t]
    BY <1>3 DEF t, roots
  <2>2. [n \in Node |-> IF n \in roots THEN e ELSE k.parent[n]]
           \in [Node -> Node \cup Doc \cup {NULL}]
    BY <1>14 DEF Heap
  <2>3. [k.kids EXCEPT ![e] = t] \in [Node \cup Doc -> Seq(Node)]
    BY <1>13, <1>14 DEF Heap
  <2> DEFINE parent == [n \in Node |-> IF n \in roots THEN e ELSE k.parent[n]]
             kids == [k.kids EXCEPT ![e] = t]
  <2>4. g = [k EXCEPT !.parent = parent, !.kids = kids]
    BY <2>1
  <2>5. parent \in [Node -> Node \cup Doc \cup {NULL}] /\ kids \in [Node \cup Doc -> Seq(Node)]
    BY <2>2, <2>3
  <2> HIDE DEF parent, kids
  <2>6. /\ g.fresh = k.fresh /\ g.alive = k.alive /\ g.kind = k.kind /\ g.doc = k.doc
        /\ g.parent = parent /\ g.kids = kids
        /\ g.priv = k.priv /\ g.ptr = k.ptr /\ g.pinned = k.pinned /\ g.cache = k.cache
        /\ g \in Heap
    BY <1>14, <2>4, <2>5 DEF Heap
  <2>7. QED BY <2>6 DEF parent, kids
<1>16. \A m \in k.alive : /\ m \in Node
                          /\ g.parent[m] = IF m \in roots THEN e ELSE k.parent[m]
  BY <1>14, <1>15
<1>17. Upward(g)
  <2>1. Upward(k)
    BY <1>6 DEF Sound
  <2>2. ASSUME NEW m \in k.alive
        PROVE  \/ g.parent[m] = k.parent[m]
               \/ g.parent[m] = e /\ g.parent[m] \notin Node /\ k.doc[m] = e
    BY <1>10, <1>16, DistinctSorts
  <2>3. QED BY <1>15, <2>1, <2>2 DEF Upward
<1>18. \A m \in k.alive : k.parent[m] # e
  <2>1. ASSUME NEW m \in k.alive, k.parent[m] = e PROVE FALSE
    <3>1. m \in h.alive \/ \E y \in S : m = f[y]
      BY <1>4, <1>5 DEF Copies
    <3>2. CASE m \in h.alive
      <4>1. k.doc[m] = e
        BY <1>6, <2>1 DEF Sound, Upward
      <4>2. m \in Node \ h.fresh
        BY <1>1, <3>2 DEF Sound, Allocated
      <4>3. QED BY <1>5, <3>2, <4>1, <4>2 DEF Copies
    <3>3. CASE \E y \in S : m = f[y]
      <4>1. PICK y \in S : m = f[y]
        BY <3>3
      <4>2. k.parent[m] \in Node \cup {NULL}
        BY <1>7, <4>1
      <4>3. QED BY <2>1, <4>2, DistinctSorts, NullIsNoObject
    <3>4. QED BY <3>1, <3>2, <3>3
  <2>2. QED BY <2>1
<1>19. Downward(g, D)
  <2>1. SUFFICES ASSUME NEW q \in Node \cup Doc, InTree(g, D, q)
                 PROVE  /\ Injective(g.kids[q])
                        /\ \A m \in Node : m \in Members(g.kids[q])
                             <=> m \in g.alive /\ g.parent[m] = q /\ g.kind[m] # Attr
    BY DEF Downward
  <2>2. CASE q = e
    <3>1. g.kids[q] = t
      BY <1>14, <1>15, <2>2 DEF Heap
    <3>2. ASSUME NEW m \in Members(t)
          PROVE  m \in g.alive /\ g.parent[m] = e /\ g.kind[m] # Attr
      <4>1. PICK y \in Members(h.kids[d]) : m = f[y]
        BY <1>13
      <4>2. y \in S /\ h.parent[y] = d /\ h.kind[y] # Attr
        BY <1>12
      <4>3. m \in roots /\ m \in k.alive /\ k.kind[m] # Attr
        BY <1>7, <1>9, <4>1, <4>2
      <4>4. QED BY <1>15, <1>16, <4>3
    <3>3. ASSUME NEW m \in g.alive, g.parent[m] = e, g.kind[m] # Attr
          PROVE  m \in Members(t)
      <4>1. m \in roots
        BY <1>15, <1>16, <1>18, <3>3
      <4>2. PICK y \in S : m = f[y] /\ h.parent[y] = d
        BY <1>8, <4>1
      <4>3. y \in Members(h.kids[d])
        BY <1>1, <1>7, <1>11, <1>15, <3>3, <4>2
      <4>4. QED BY <1>13, <4>2, <4>3
    <3>4. QED BY <1>13, <2>2, <3>1, <3>2, <3>3
  <2>3. CASE q # e
    <3>1. g.kids[q] = k.kids[q] /\ InTree(k, D, q)
      BY <1>14, <1>15, <2>1, <2>3 DEF Heap, InTree
    <3>2. \A m \in k.alive : g.parent[m] = q <=> k.parent[m] = q
      BY <1>10, <1>16, <2>3, NullIsNoObject
    <3>3. Downward(k, D)
      BY <1>6 DEF Sound
    <3>4. /\ Injective(k.kids[q])
          /\ \A m \in Node : m \in Members(k.kids[q])
                               <=> m \in k.alive /\ k.parent[m] = q /\ k.kind[m] # Attr
      BY <3>1, <3>3 DEF Downward
    <3>5. QED BY <1>15, <3>1, <3>2, <3>4
  <2>4. QED BY <2>2, <2>3
<1>20. Allocated(g) /\ Pointing(g) /\ Cached(g, D) /\ NotBorn(g, D)
  BY <1>6, <1>15 DEF Sound, Allocated, Pointing, Cached, NotBorn
<1>21. Forgotten(g, NULL)
  BY <1>6, <1>10, <1>15, <1>16 DEF Sound, Forgotten, Spare, IsText
<1>22. Pins(g, NULL)
  <2>1. Pins(k, NULL) /\ \A c \in Doc : \A n \in k.pinned[c] : n \notin roots
    BY <1>6, <1>10 DEF Sound, Spare
  <2>2. QED BY <1>15, <1>16, <2>1 DEF Pins, IsText
<1>23. Agrees(g)
  BY <1>6, <1>10, <1>15, <1>16 DEF Sound, Agrees, Spare, IsText
<1>24. Keeps(k, g)
  BY <1>15, KeepsNothing
<1>25. Keeps(h, g)
  BY <1>6, <1>24, KeepsComposes
<1>26. QED
  BY <1>15, <1>17, <1>19, <1>20, <1>21, <1>22, <1>23, <1>25 DEF Sound

\* What is freed with a document is in it, and is a root or below another node
\* that is freed.
LEMMA FreedWithIsInDocument ==
  ASSUME NEW h, NEW D, Sound(h, D, NULL), NEW d \in Doc, NEW n \in FreedWith(h, d)
  PROVE  /\ n \in h.alive /\ h.doc[n] = d
         /\ h.parent[n] \in FreedWith(h, d) \cup {d, NULL}
<1> DEFINE R == {m \in h.alive : h.parent[m] = d \/ (h.parent[m] = NULL /\ m \in h.pinned[d])}
           F == Below(h, R)
           S == {m \in h.alive : h.doc[m] = d}
           T == {m \in F : m \in R \/ h.parent[m] \in F}
<1>1. F = FreedWith(h, d)
  BY DEF FreedWith
<1>2. h.alive \subseteq Node
  BY DEF Sound, Heap
<1>3. R \subseteq S
  BY DEF Sound, Upward, Pins
<1>4. \A c \in h.alive : h.parent[c] \in S => c \in S
  BY <1>2 DEF Sound, Upward
<1>5. F \subseteq S
  <2> HIDE DEF R, S
  <2> QED BY <1>3, <1>4, BelowIsLeast
<1>6. R \subseteq F /\ \A c \in h.alive : h.parent[c] \in F => c \in F
  <2> HIDE DEF R
  <2> QED BY BelowIsLeast
<1>7. R \subseteq T
  <2> HIDE DEF F, R
  <2> QED BY <1>6
<1>8. \A c \in h.alive : h.parent[c] \in T => c \in T
  <2> HIDE DEF F, R
  <2> QED BY <1>6
<1>9. F \subseteq T
  <2> HIDE DEF R, T
  <2> QED BY <1>7, <1>8, BelowIsLeast
<1>10. n \in S /\ n \in T
  <2> HIDE DEF R, T, S
  <2> QED BY <1>1, <1>5, <1>9
<1>11. h.parent[n] \in F \cup {d, NULL}
  <2> HIDE DEF F
  <2> QED BY <1>10
<1> HIDE DEF F
<1>12. QED BY <1>1, <1>10, <1>11

\* A document that nothing reachable marks is deallocated.
LEMMA DeallocSound ==
  ASSUME NEW h, NEW D \in DState, Sound(h, D, NULL), NEW G, Usable(h, D, G),
         NEW d \in Doc, d \notin G, NEW E, E = [D EXCEPT ![d] = "freed"],
         NEW g, g = dealloc(h, d)
  PROVE  E \in DState /\ Sound(g, E, NULL) /\ Usable(g, E, G)
<1> DEFINE F == FreedWith(h, d)
<1>1. h \in Heap /\ h.alive \subseteq Node
  BY DEF Sound, Heap
<1>2. /\ g.fresh = h.fresh /\ g.alive = h.alive \ F /\ g.kind = h.kind /\ g.doc = h.doc
      /\ g.parent = h.parent /\ g.kids = h.kids /\ g.priv = h.priv /\ g.ptr = h.ptr
      /\ g.pinned = [h.pinned EXCEPT ![d] = {}] /\ g.cache = [h.cache EXCEPT ![d] = {}]
      /\ g \in Heap
  <2> HIDE DEF F
  <2>1. g = [h EXCEPT !.alive = @ \ F, !.pinned[d] = {}, !.cache[d] = {}]
    BY DEF dealloc, xmlFree, F
  <2> DEFINE pinned == [h.pinned EXCEPT ![d] = {}]
             cache  == [h.cache EXCEPT ![d] = {}]
             alive  == h.alive \ F
  <2>2. /\ pinned \in [Doc -> SUBSET Node] /\ cache \in [Doc -> SUBSET Wrapper]
        /\ alive \in SUBSET Node
    BY <1>1 DEF Heap
  <2>3. g = [h EXCEPT !.alive = alive, !.pinned = pinned, !.cache = cache]
    BY <2>1
  <2> HIDE DEF pinned, cache, alive
  <2>4. /\ g.fresh = h.fresh /\ g.alive = alive /\ g.kind = h.kind /\ g.doc = h.doc
        /\ g.parent = h.parent /\ g.kids = h.kids /\ g.priv = h.priv /\ g.ptr = h.ptr
        /\ g.pinned = pinned /\ g.cache = cache
        /\ g \in Heap
    BY <1>1, <2>2, <2>3 DEF Heap
  <2>5. QED BY <2>4 DEF pinned, cache, alive
<1>3. \A n \in F : h.doc[n] = d /\ h.parent[n] \in F \cup {d, NULL} /\ n \in h.alive
  BY FreedWithIsInDocument
<1>4. \A c \in h.alive : h.parent[c] \in F => c \in F
  BY BelowIsLeast DEF FreedWith
<1> HIDE DEF F
<1>5. /\ g.pinned[d] = {} /\ g.cache[d] = {}
      /\ \A e \in Doc : e # d => g.pinned[e] = h.pinned[e] /\ g.cache[e] = h.cache[e]
  BY <1>1, <1>2 DEF Heap
<1>6. E \in DState /\ E[d] = "freed" /\ \A e \in Doc : e # d => E[e] = D[e]
  BY DEF DState
<1>7. \A n \in g.alive : n \in h.alive /\ n \in Node /\ n \notin F /\ h.doc[n] \in Doc
  BY <1>1, <1>2 DEF Heap
<1>8. Upward(g)
  BY <1>2, <1>4, <1>7 DEF Sound, Upward
<1>9. Downward(g, E)
  <2>1. SUFFICES ASSUME NEW q \in Node \cup Doc, InTree(g, E, q)
                 PROVE  /\ Injective(g.kids[q])
                        /\ \A m \in Node : m \in Members(g.kids[q])
                             <=> m \in g.alive /\ g.parent[m] = q /\ g.kind[m] # Attr
    BY DEF Downward
  <2>2. InTree(h, D, q) /\ q # d /\ q \notin F /\ q # NULL
    <3>1. CASE q \in Doc
      BY <1>1, <1>3, <1>6, <1>7, <2>1, <3>1, DistinctSorts, NullIsNoObject DEF InTree
    <3>2. CASE q \in Node
      BY <1>7, <2>1, <3>2, DistinctSorts, NullIsNoObject DEF InTree
    <3>3. QED BY <3>1, <3>2
  <2>3. \A m \in h.alive : h.parent[m] = q => m \notin F
    BY <1>3, <2>2
  <2>4. QED BY <1>2, <2>2, <2>3 DEF Sound, Downward
<1>10. Allocated(g) /\ Pointing(g)
  BY <1>2 DEF Sound, Allocated, Pointing
<1>11. Cached(g, E)
  BY <1>2, <1>5, <1>6, <1>7 DEF Sound, Cached
<1>12. Forgotten(g, NULL)
  BY <1>2, <1>7 DEF Sound, Forgotten, IsText
<1>13. Pins(g, NULL)
  <2>1. Pins(h, NULL)
    BY DEF Sound
  <2>2. SUFFICES ASSUME NEW e \in Doc, NEW m \in g.pinned[e]
                 PROVE  /\ m \in g.alive /\ g.doc[m] = e
                        /\ m # NULL /\ g.parent[m] # NULL => /\ g.kind[m] # Attr /\ ~IsText(g, m)
                                                          /\ g.priv[m] # NULL
    BY DEF Pins
  <2>3. e # d /\ m \in h.pinned[e]
    BY <1>5
  <2>4. /\ m \in h.alive /\ h.doc[m] = e
        /\ m # NULL /\ h.parent[m] # NULL => /\ h.kind[m] # Attr /\ ~IsText(h, m)
                                          /\ h.priv[m] # NULL
    BY <2>1, <2>3 DEF Pins
  <2>5. QED BY <1>2, <1>3, <2>3, <2>4 DEF IsText
<1>14. Agrees(g)
  BY <1>2, <1>7 DEF Sound, Agrees, IsText
<1>15. NotBorn(g, E)
  BY <1>2, <1>5, <1>6, <1>7 DEF Sound, NotBorn
<1>16. Sound(g, E, NULL)
  BY <1>2, <1>8, <1>9, <1>10, <1>11, <1>12, <1>13, <1>14, <1>15 DEF Sound
<1>17. Usable(g, E, G)
  <2>1. \A e \in G \cap Doc : E[e] = "live" /\ g.cache[e] \subseteq G
    BY <1>5, <1>6 DEF Usable
  <2>2. \A w \in G \cap Wrapper : g.ptr[w] \in g.alive /\ g.doc[g.ptr[w]] \in G
    BY <1>2, <1>3 DEF Usable
  <2>3. QED BY <2>1, <2>2 DEF Usable
<1>18. QED BY <1>6, <1>16, <1>17

\* What the parser hands to Ruby is sound.
LEMMA ParsedSound ==
  ASSUME NEW h \in Heap, Parsed(h), NEW D \in [Doc -> {"unborn", "live"}],
         \A n \in h.alive : D[h.doc[n]] = "live"
  PROVE  Sound(h, D, NULL) /\ Usable(h, D, {d \in Doc : D[d] = "live"})
<1>1. \A n \in h.alive : n \in Node
  BY DEF Heap
<1>2. Allocated(h)
  BY DEF Parsed, Allocated
<1>3. Upward(h)
  BY <1>1, DistinctSorts DEF Parsed, Upward, DocOf, MayContain, Elem, Frag, Attr, Text, Blank, Ref
<1>4. Downward(h, D)
  BY DEF Parsed, Downward
<1>5. /\ \A n \in Node : h.priv[n] = NULL
      /\ \A w \in Wrapper : h.ptr[w] = NULL
      /\ \A d \in Doc : h.pinned[d] = {} /\ h.cache[d] = {}
  BY DEF Parsed
<1>6. NULL \notin h.fresh /\ NULL \notin h.alive
  BY NullIsNoObject DEF Heap
<1>7. Pointing(h) /\ Cached(h, D) /\ Forgotten(h, NULL) /\ Pins(h, NULL) /\ Agrees(h)
  BY <1>1, <1>5, <1>6 DEF Pointing, Cached, Forgotten, Pins, Agrees
<1>8. NotBorn(h, D)
  BY <1>5 DEF NotBorn
<1>9. Usable(h, D, {d \in Doc : D[d] = "live"})
  BY <1>5, DistinctSorts DEF Usable, Objects
<1>10. QED BY <1>2, <1>3, <1>4, <1>7, <1>8, <1>9 DEF Sound

-----------------------------------------------------------------------------
(* The inductive invariant.                                                *)

\* The inductive invariant: the heap is sound, and what the program and the
\* collector can reach may be used.
IInv == /\ Sound(heap, dstate, NULL)
        /\ Usable(heap, dstate, Marked(heap, held))
        /\ dstate \in DState
        /\ held \subseteq Objects
        /\ lost \subseteq Node

-----------------------------------------------------------------------------
(* Establishing the invariant.                                             *)

\* After a step whose objects G may be used, and hold what the program holds.
LEMMA ReachInv ==
  ASSUME NEW G, Sound(heap', dstate', NULL), Usable(heap', dstate', G), dstate' \in DState,
         held' \subseteq G, lost' \subseteq Node
  PROVE  IInv'
<1>1. heap' \in Heap /\ held' \in SUBSET G /\ held' \subseteq Objects
  BY DEF Sound, Usable
<1>2. Usable(heap', dstate', Marked(heap', held'))
  BY <1>1, MarkedIsUsable
<1>3. QED BY <1>1, <1>2 DEF IInv

\* The invariant of the objects that are held.
LEMMA HeldAreUsable ==
  ASSUME IInv, NEW G, G = Marked(heap, held)
  PROVE  /\ heap \in Heap /\ Sound(heap, dstate, NULL) /\ Usable(heap, dstate, G)
         /\ held \subseteq G
         /\ \A d \in HeldDocs : d \in Doc /\ d \in G /\ dstate[d] = "live"
         /\ \A w \in HeldWrappers :
              /\ w \in Wrapper /\ w \in G
              /\ heap.ptr[w] \in Node /\ heap.ptr[w] \in heap.alive
              /\ heap.doc[heap.ptr[w]] \in Doc /\ heap.doc[heap.ptr[w]] \in G
              /\ dstate[heap.doc[heap.ptr[w]]] = "live"
              /\ ~IsText(heap, heap.ptr[w]) => heap.priv[heap.ptr[w]] # NULL
<1>1. held \subseteq G /\ heap \in Heap
  BY MarkedIsLeast DEF IInv, Sound
<1>2. Usable(heap, dstate, G) /\ Sound(heap, dstate, NULL) /\ Forgotten(heap, NULL)
  BY DEF IInv, Sound
<1>3. \A n \in heap.alive : n \in Node /\ heap.doc[n] \in Doc
  BY <1>1 DEF Heap
<1>4. \A w \in Wrapper : heap.ptr[w] \in heap.alive /\ ~IsText(heap, heap.ptr[w])
                           => heap.priv[heap.ptr[w]] # NULL
  BY <1>2 DEF Forgotten
<1>5. ASSUME NEW d \in HeldDocs PROVE d \in Doc /\ d \in G /\ dstate[d] = "live"
  BY <1>1, <1>2 DEF Usable, HeldDocs
<1>6. ASSUME NEW w \in HeldWrappers
      PROVE  /\ w \in Wrapper /\ w \in G
             /\ heap.ptr[w] \in heap.alive /\ heap.doc[heap.ptr[w]] \in G
  BY <1>1, <1>2 DEF Usable, HeldWrappers
<1>7. \A w \in HeldWrappers : dstate[heap.doc[heap.ptr[w]]] = "live"
  BY <1>2, <1>3, <1>6 DEF Usable
<1>8. QED BY <1>1, <1>2, <1>3, <1>4, <1>5, <1>6, <1>7

\* After a step of C code that takes nothing away.
LEMMA KeepsInv ==
  ASSUME IInv, Sound(heap', dstate, NULL), Keeps(heap, heap'),
         dstate' = dstate, held' = held, lost' \subseteq Node
  PROVE  IInv'
<1> DEFINE G == Marked(heap, held)
<1>1. Usable(heap, dstate, G) /\ held \subseteq G
  BY HeldAreUsable
<1> HIDE DEF G
<1>2. Usable(heap', dstate', G)
  BY <1>1, KeepsUsable
<1>3. dstate' \in DState
  BY DEF IInv
<1>4. QED BY <1>1, <1>2, <1>3, ReachInv

\* The initial states.
LEMMA InitInv == Init => IInv
<1> SUFFICES ASSUME Init PROVE IInv
  OBVIOUS
<1>1. /\ heap \in Heap /\ Parsed(heap) /\ dstate \in [Doc -> {"unborn", "live"}]
      /\ \A n \in heap.alive : dstate[heap.doc[n]] = "live"
      /\ held = {d \in Doc : dstate[d] = "live"} /\ lost = {}
  BY DEF Init
<1>2. Sound(heap, dstate, NULL) /\ Usable(heap, dstate, held)
  BY <1>1, ParsedSound
<1>3. Usable(heap, dstate, Marked(heap, held))
  BY <1>1, <1>2, MarkedIsUsable
<1>4. dstate \in DState /\ held \subseteq Objects
  BY <1>1 DEF DState, Objects
<1>5. QED BY <1>1, <1>2, <1>3, <1>4 DEF IInv

-----------------------------------------------------------------------------
(* Navigation and new nodes.                                               *)

\* The nodes of a document.
LEMMA ContentIsInDocument ==
  ASSUME NEW h, NEW D, Sound(h, D, NULL), NEW d \in Doc, NEW n \in Content(h, d)
  PROVE  n \in h.alive /\ h.doc[n] = d
<1> DEFINE R == {m \in h.alive : h.parent[m] = d}
           S == {m \in h.alive : h.doc[m] = d}
<1>1. h.alive \subseteq Node
  BY DEF Sound, Heap
<1>2. R \subseteq S
  BY DEF Sound, Upward
<1>3. \A c \in h.alive : h.parent[c] \in S => c \in S
  BY <1>1 DEF Sound, Upward
<1>4. Below(h, R) \subseteq S
  <2> HIDE DEF R, S
  <2> QED BY <1>2, <1>3, BelowIsLeast
<1>5. QED BY <1>4 DEF Content

\* What is one pointer away from a pivot, or found in it, may be returned.
LEMMA NeighbourIsUsable ==
  ASSUME NEW h, NEW D, Sound(h, D, NULL), NEW G, Usable(h, D, G),
         NEW p, p \in G \cap Doc \/ (p \in h.alive /\ h.doc[p] \in G),
         NEW m \in Neighbours(h, p) \cup Found(h, p)
  PROVE  (m \in h.alive /\ h.doc[m] \in G) \/ (m \in Doc /\ m \in G)
<1>1. h \in Heap /\ \A n \in h.alive : n \in Node /\ h.doc[n] \in Doc
  BY DEF Sound, Heap
<1>2. \A d \in G \cap Doc : D[d] = "live"
  BY DEF Usable
<1>3. /\ p \in Node \cup Doc /\ InTree(h, D, p) /\ DocOf(h, p) \in G /\ DocOf(h, p) \in Doc
      /\ p \in Node => p \in h.alive /\ DocOf(h, p) = h.doc[p]
  BY <1>1, <1>2, DistinctSorts DEF InTree, DocOf
<1>4. D[DocOf(h, p)] # "freed"
  BY <1>2, <1>3
<1>5. ASSUME NEW q \in Node \cup Doc, InTree(h, D, q), DocOf(h, q) = DocOf(h, p),
             NEW c \in Members(h.kids[q])
      PROVE  c \in h.alive /\ h.doc[c] \in G
  BY <1>3, <1>5, ChildOf
<1>6. CASE m \in Found(h, p)
  <2>1. p \in Doc /\ m \in Content(h, p)
    BY <1>6 DEF Found
  <2>2. QED BY <1>3, <2>1, ContentIsInDocument DEF DocOf
<1>7. CASE m \in Members(h.kids[p])
  BY <1>3, <1>5, <1>7
<1>8. CASE p \in Node /\ m = h.parent[p] /\ m # NULL
  BY <1>1, <1>3, <1>8 DEF Sound, Upward, Heap
<1>9. CASE p \in Node /\ m = h.doc[p]
  BY <1>3, <1>9
<1>10. CASE p \in Node /\ m = Prop(h, p) /\ m # NULL
  <2>1. m \in h.alive /\ h.parent[m] = p
    BY <1>10, PropOfElement
  <2>2. h.doc[m] = h.doc[p]
    BY <1>10, <2>1 DEF Sound, Upward
  <2>3. QED BY <1>3, <1>10, <2>1, <2>2
<1>11. ASSUME p \in Node, h.parent[p] # NULL, h.kind[p] # Attr,
              m \in {NextSibling(h, p), PrevSibling(h, p)}, m # NULL
       PROVE  m \in h.alive /\ h.doc[m] \in G
  <2> DEFINE q == h.parent[p]
             s == h.kids[q]
             i == Position(s, p)
  <2>1. /\ q \in Node \cup Doc /\ InTree(h, D, q) /\ DocOf(h, q) = h.doc[p]
        /\ s \in Seq(Node) /\ p \in Members(s)
    <3>1. D[h.doc[p]] # "freed" /\ p \in h.alive
      BY <1>3, <1>4, <1>11
    <3>2. QED BY <1>11, <3>1, ParentOf
  <2>2. i \in 1 .. Len(s) /\ Len(s) \in Nat
    BY <2>1, PositionOfMember, MembersOfSeq
  <2>3. m \in {IF i < Len(s) THEN s[i + 1] ELSE NULL, IF i > 1 THEN s[i - 1] ELSE NULL}
    BY <1>11 DEF NextSibling, PrevSibling
  <2> HIDE DEF i, s, q
  <2>4. \E j \in 1 .. Len(s) : m = s[j]
    BY <1>11, <2>2, <2>3
  <2>5. m \in Members(s)
    BY <2>1, <2>4, MembersOfSeq
  <2>6. QED BY <1>3, <1>5, <1>11, <2>1, <2>5 DEF s
<1>12. QED
  BY <1>6, <1>7, <1>8, <1>9, <1>10, <1>11 DEF Neighbours

\* A node of a document that may be used is returned to Ruby.
LEMMA ReturnInv ==
  ASSUME NEW h, NEW n \in h.alive, Sound(h, dstate, NULL), NEW G, Usable(h, dstate, G),
         h.doc[n] \in G, held \subseteq G, Return(h, n), dstate \in DState, lost \subseteq Node,
         UNCHANGED <<dstate, lost>>
  PROVE  IInv'
<1>1. h.doc[n] \in Doc
  BY DEF Sound, Heap
<1>2. dstate[h.doc[n]] = "live"
  BY <1>1 DEF Usable
<1> DEFINE g == noko_xml_node_wrap(h, n)
<1>3. CanWrap(h, n) /\ heap' = g /\ held' = held \cup {g.priv[n]}
  BY DEF Return
<1>4. /\ Sound(g, dstate, NULL)
      /\ Usable(g, dstate, G \cup {g.priv[n]})
      /\ g.priv[n] \in Wrapper
      /\ SameTree(h, g)
  BY <1>2, <1>3, WrapSound
<1> HIDE DEF g
<1> DEFINE F == G \cup {g.priv[n]}
<1>5. Usable(heap', dstate', F) /\ Sound(heap', dstate', NULL) /\ held' \subseteq F
  BY <1>3, <1>4
<1> HIDE DEF F
<1>6. QED BY <1>5, ReachInv

\* A pivot of the program.
LEMMA PivotIsUsable ==
  ASSUME IInv, NEW G, G = Marked(heap, held), NEW p \in Pivots
  PROVE  /\ p \in G \cap Doc \/ (p \in heap.alive /\ heap.doc[p] \in G)
         /\ p \in Node \cup Doc
         /\ p \in Node => \E w \in HeldWrappers : p = heap.ptr[w]
BY HeldAreUsable, DistinctSorts DEF Pivots

\* A node one pointer away from what the program holds, or found in it, is returned.
LEMMA NavigateInv == IInv /\ Navigate => IInv'
<1> SUFFICES ASSUME IInv, Navigate PROVE IInv'
  OBVIOUS
<1> DEFINE G == Marked(heap, held)
<1>1. PICK p \in Pivots : \E m \in Neighbours(heap, p) \cup Found(heap, p) :
        /\ \/ m \in Node /\ Return(heap, m)
           \/ m \in Doc /\ held' = held \cup {m} /\ heap' = heap
        /\ UNCHANGED <<dstate, lost>>
  BY DEF Navigate
<1>2. PICK m \in Neighbours(heap, p) \cup Found(heap, p) :
        /\ \/ m \in Node /\ Return(heap, m)
           \/ m \in Doc /\ held' = held \cup {m} /\ heap' = heap
        /\ UNCHANGED <<dstate, lost>>
  BY <1>1
<1>3. /\ heap \in Heap /\ Sound(heap, dstate, NULL) /\ Usable(heap, dstate, G) /\ held \subseteq G
      /\ dstate \in DState /\ lost \subseteq Node
  BY HeldAreUsable DEF IInv
<1>4. p \in G \cap Doc \/ (p \in heap.alive /\ heap.doc[p] \in G)
  BY PivotIsUsable
<1> HIDE DEF G
<1>5. (m \in heap.alive /\ heap.doc[m] \in G) \/ (m \in Doc /\ m \in G)
  BY <1>3, <1>4, NeighbourIsUsable
<1>6. heap.alive \subseteq Node
  BY <1>3 DEF Heap
<1>7. CASE m \in Node /\ Return(heap, m)
  <2>1. m \in heap.alive /\ heap.doc[m] \in G
    BY <1>5, <1>7, DistinctSorts
  <2>2. QED BY <1>2, <1>3, <1>7, <2>1, ReturnInv
<1>8. CASE m \in Doc /\ held' = held \cup {m} /\ heap' = heap
  <2>1. m \in G
    BY <1>5, <1>6, <1>8, DistinctSorts
  <2>2. Sound(heap', dstate', NULL) /\ Usable(heap', dstate', G) /\ dstate' \in DState
        /\ held' \subseteq G /\ lost' \subseteq Node
    BY <1>2, <1>3, <1>8, <2>1
  <2>3. QED BY <2>2, ReachInv
<1>9. QED BY <1>2, <1>7, <1>8

\* Node.new and its kin: the new node is pinned, and returned.
LEMMA NewNodeInv == IInv /\ NewNode => IInv'
<1> SUFFICES ASSUME IInv, NewNode PROVE IInv'
  OBVIOUS
<1> DEFINE G == Marked(heap, held)
<1>1. PICK d \in HeldDocs, kd \in NewKinds :
        /\ heap.fresh # {}
        /\ LET n == malloc(heap)
           IN  Return(noko_xml_document_pin_node(xmlNewNode(heap, n, kd, d), n), n)
        /\ UNCHANGED <<dstate, lost>>
  BY DEF NewNode
<1>2. /\ heap \in Heap /\ Sound(heap, dstate, NULL) /\ Usable(heap, dstate, G) /\ held \subseteq G
      /\ dstate \in DState /\ lost \subseteq Node
      /\ d \in Doc /\ d \in G /\ dstate[d] = "live"
  BY HeldAreUsable DEF IInv
<1> HIDE DEF G
<1> DEFINE n == malloc(heap)
           k == xmlNewNode(heap, n, kd, d)
           g == noko_xml_document_pin_node(k, n)
<1>3. n \in heap.fresh /\ kd \in Kind
  BY <1>1, <1>2, MallocIsFresh, NewKindsAreKinds
<1>4. Return(g, n)
  BY <1>1
<1> HIDE DEF n
<1>5. /\ Sound(k, dstate, NULL)
      /\ Keeps(heap, k)
      /\ n \in Node /\ n \in k.alive /\ Spare(k, n)
      /\ k.fresh = heap.fresh \ {n} /\ k.pinned = heap.pinned
      /\ k.parent[n] = NULL /\ k.kind[n] = kd /\ k.doc[n] = d /\ k.kids[n] = <<>>
      /\ \A m \in heap.alive : /\ m \in k.alive /\ SameNode(heap, k, m)
                               /\ k.doc[m] = heap.doc[m] /\ k.parent[m] = heap.parent[m]
      /\ \A p \in Node \cup Doc : p # n => k.kids[p] = heap.kids[p]
  BY <1>2, <1>3, NewNodeSound
<1> HIDE DEF k
<1>6. /\ Sound(g, dstate, NULL)
      /\ Keeps(k, g)
      /\ g.fresh = k.fresh /\ g.alive = k.alive /\ g.kind = k.kind /\ g.doc = k.doc
      /\ g.priv = k.priv /\ g.parent = k.parent /\ g.kids = k.kids
      /\ g.pinned = [k.pinned EXCEPT ![k.doc[n]] = @ \cup {n}]
      /\ n \in g.pinned[k.doc[n]]
  <2>1. n # NULL /\ k.parent[n] # NULL => k.kind[n] # Attr /\ ~IsText(k, n) /\ k.priv[n] # NULL
    BY <1>5
  <2>2. n \in k.alive /\ Sound(k, dstate, NULL)
    BY <1>5
  <2>3. QED BY <2>1, <2>2, PinSound
<1> HIDE DEF g
<1>7. Usable(g, dstate, G)
  <2>1. Usable(k, dstate, G)
    BY <1>2, <1>5, KeepsUsable
  <2>2. QED BY <1>6, <2>1, KeepsUsable
<1>8. n \in g.alive /\ g.doc[n] \in G
  BY <1>2, <1>5, <1>6
<1>9. QED BY <1>1, <1>2, <1>4, <1>6, <1>7, <1>8, ReturnInv

\* Node#unlink: the node leaves the tree and is pinned, its wrapper stays good.
LEMMA UnlinkInv == IInv /\ unlink_node => IInv'
<1> SUFFICES ASSUME IInv, unlink_node PROVE IInv'
  OBVIOUS
<1>1. PICK w \in HeldWrappers :
        heap' = UnlinkAndPin(heap, heap.ptr[w]) /\ UNCHANGED <<dstate, held, lost>>
  BY DEF unlink_node
<1> DEFINE n == heap.ptr[w]
<1>2. /\ Sound(heap, dstate, NULL) /\ lost \subseteq Node
      /\ n \in heap.alive /\ dstate[heap.doc[n]] # "freed"
  BY HeldAreUsable DEF IInv
<1>3. Sound(heap', dstate, NULL) /\ Keeps(heap, heap')
  <2>1. heap' = UnlinkAndPin(heap, n)
    BY <1>1
  <2> HIDE DEF n
  <2>2. QED BY <1>2, <2>1, UnlinkAndPinSound
<1>4. QED BY <1>1, <1>2, <1>3, KeepsInv

\* A copy that is given a wrapper and pinned.
LEMMA CopiedInv ==
  ASSUME IInv, NEW h, Sound(h, dstate, NULL), Keeps(heap, h), NEW c \in h.alive,
         h.parent[c] = NULL, Spare(h, c), h.doc[c] \in HeldDocs, Copied(h, c),
         UNCHANGED <<dstate, lost>>
  PROVE  IInv'
<1> DEFINE G == Marked(heap, held)
           w == NewWrapper(heap)
           k == Bind(h, w, c)
           g == noko_xml_document_pin_node(k, c)
<1>1. /\ Usable(heap, dstate, G) /\ held \subseteq G
      /\ dstate \in DState /\ lost \subseteq Node
      /\ h.doc[c] \in G /\ dstate[h.doc[c]] = "live"
  BY HeldAreUsable DEF IInv
<1> HIDE DEF G
<1>2. Usable(h, dstate, G)
  BY <1>1, KeepsUsable
<1>3. heap' = g /\ held' = held \cup {w} /\ w \in Wrapper /\ heap.ptr[w] = NULL
  BY NewWrapperIsUnborn DEF Copied
<1>4. h.ptr[w] = NULL /\ h.priv[c] = NULL
  BY <1>3 DEF Keeps, Spare
<1> HIDE DEF w
<1>5. /\ Sound(k, dstate, NULL)
      /\ Usable(k, dstate, G \cup {w})
      /\ SameTree(h, k)
      /\ k.priv[c] = w
  BY <1>1, <1>2, <1>3, <1>4, BindSound
<1> HIDE DEF k
<1> DEFINE F == G \cup {w}
<1>6. /\ Sound(g, dstate, NULL)
      /\ Keeps(k, g)
      /\ g.fresh = k.fresh /\ g.alive = k.alive /\ g.kind = k.kind /\ g.doc = k.doc
      /\ g.priv = k.priv /\ g.parent = k.parent /\ g.kids = k.kids
      /\ g.pinned = [k.pinned EXCEPT ![k.doc[c]] = @ \cup {c}]
      /\ c \in g.pinned[k.doc[c]]
  <2>1. c # NULL /\ k.parent[c] # NULL => k.kind[c] # Attr /\ ~IsText(k, c) /\ k.priv[c] # NULL
    BY <1>5 DEF SameTree
  <2>2. c \in k.alive /\ Sound(k, dstate, NULL)
    BY <1>5 DEF SameTree
  <2>3. QED BY <2>1, <2>2, PinSound
<1>7. Usable(k, dstate, F)
  BY <1>5
<1>8. held' \subseteq F
  BY <1>1, <1>3
<1> HIDE DEF F, g
<1>9. Usable(g, dstate, F)
  BY <1>6, <1>7, KeepsUsable
<1>10. Sound(heap', dstate', NULL) /\ Usable(heap', dstate', F)
  BY <1>3, <1>6, <1>9
<1>11. QED BY <1>1, <1>8, <1>10, ReachInv

\* Node#dup and the other copies into a document.
LEMMA CopyInv == IInv /\ initialize_copy_with_args => IInv'
<1> SUFFICES ASSUME IInv, initialize_copy_with_args PROVE IInv'
  OBVIOUS
<1>1. PICK w \in HeldWrappers, d \in HeldDocs :
        LET n == heap.ptr[w]
        IN  /\ \/ CanCopy(heap, n) /\ Copied(xmlDocCopyNode(heap, n, d), CopyOf(heap, n))
               \/ /\ heap.kind[n] # Attr
                  /\ heap.fresh # {}
                  /\ Copied(xmlNewNode(heap, malloc(heap), heap.kind[n], d), malloc(heap))
            /\ UNCHANGED <<dstate, lost>>
  BY DEF initialize_copy_with_args
<1> DEFINE n == heap.ptr[w]
<1>2. /\ heap \in Heap /\ Sound(heap, dstate, NULL) /\ d \in Doc /\ dstate[d] = "live"
      /\ n \in heap.alive /\ n \in Node
  BY HeldAreUsable
<1> HIDE DEF n
<1>3. CASE CanCopy(heap, n) /\ Copied(xmlDocCopyNode(heap, n, d), CopyOf(heap, n))
  <2> DEFINE g == xmlDocCopyNode(heap, n, d)
             c == CopyOf(heap, n)
  <2>1. /\ Sound(g, dstate, NULL)
        /\ Keeps(heap, g)
        /\ c \in g.alive /\ c \notin heap.alive /\ g.doc[c] = d /\ g.parent[c] = NULL
        /\ g.kind[c] = heap.kind[n]
        /\ Spare(g, c)
        /\ \A m \in heap.alive : /\ m \in g.alive
                                 /\ g.kind[m] = heap.kind[m] /\ g.doc[m] = heap.doc[m]
                                 /\ g.parent[m] = heap.parent[m] /\ g.priv[m] = heap.priv[m]
        /\ g.fresh \subseteq heap.fresh
        /\ \A p \in Node \cup Doc : p \notin heap.fresh => g.kids[p] = heap.kids[p]
    BY <1>2, <1>3, CopyNodeSound
  <2>2. Copied(g, c) /\ UNCHANGED <<dstate, lost>>
    BY <1>1, <1>3
  <2> HIDE DEF g, c
  <2>3. QED BY <2>1, <2>2, CopiedInv
<1>4. CASE /\ heap.fresh # {}
           /\ Copied(xmlNewNode(heap, malloc(heap), heap.kind[n], d), malloc(heap))
  <2> DEFINE c == malloc(heap)
             kd == heap.kind[n]
             g == xmlNewNode(heap, c, kd, d)
  <2>1. c \in heap.fresh /\ kd \in Kind
    BY <1>2, <1>4, MallocIsFresh DEF Heap
  <2>2. Copied(g, c) /\ UNCHANGED <<dstate, lost>>
    BY <1>1, <1>4
  <2> HIDE DEF c, kd
  <2>3. /\ Sound(g, dstate, NULL)
        /\ Keeps(heap, g)
        /\ c \in Node /\ c \in g.alive /\ Spare(g, c)
        /\ g.fresh = heap.fresh \ {c} /\ g.pinned = heap.pinned
        /\ g.parent[c] = NULL /\ g.kind[c] = kd /\ g.doc[c] = d /\ g.kids[c] = <<>>
        /\ \A m \in heap.alive : /\ m \in g.alive /\ SameNode(heap, g, m)
                                 /\ g.doc[m] = heap.doc[m] /\ g.parent[m] = heap.parent[m]
        /\ \A p \in Node \cup Doc : p # c => g.kids[p] = heap.kids[p]
    BY <1>2, <2>1, NewNodeSound
  <2> HIDE DEF g
  <2>4. QED BY <2>2, <2>3, CopiedInv
<1>5. QED BY <1>1, <1>3, <1>4 DEF n

-----------------------------------------------------------------------------
(* Attributes and contents.                                                *)

\* A value without or with a text is set in the heap h.
LEMMA ValueInv ==
  ASSUME IInv, NEW p \in heap.alive, heap.kind[p] \in {Elem, Attr}, dstate[heap.doc[p]] = "live",
         NEW keep \in SUBSET Members(heap.kids[p]),
         \A n \in Members(heap.kids[p]) \ keep :
           heap.kind[n] \in {Text, Blank, Ref} /\ Spare(heap, n),
         NEW h, h = ClearChildren(heap, p, keep),
         heap' = h \/ (heap.fresh # {} /\ heap' = SetText(h, p)),
         UNCHANGED <<dstate, held, lost>>
  PROVE  IInv'
<1>1. Sound(heap, dstate, NULL) /\ lost \subseteq Node
  BY DEF IInv
<1>2. /\ Sound(h, dstate, NULL)
      /\ Keeps(heap, h)
      /\ h.fresh = heap.fresh /\ h.kind = heap.kind /\ h.doc = heap.doc /\ h.priv = heap.priv
      /\ p \in h.alive
  BY <1>1, ClearSound
<1>3. CASE heap' = h
  BY <1>1, <1>2, <1>3, KeepsInv
<1>4. CASE heap.fresh # {} /\ heap' = SetText(h, p)
  <2>1. Sound(heap', dstate, NULL) /\ Keeps(h, heap')
    BY <1>2, <1>4, SetTextSound
  <2>2. Keeps(heap, heap')
    BY <1>2, <2>1, KeepsComposes
  <2>3. QED BY <1>1, <2>1, <2>2, KeepsInv
<1>5. QED BY <1>3, <1>4

\* Attr#value=: the children of the attribute are replaced, the wrapped ones pinned.
LEMMA AttrSetValueInv == IInv /\ noko_xml_attr_set_value => IInv'
<1> SUFFICES ASSUME IInv, noko_xml_attr_set_value PROVE IInv'
  OBVIOUS
<1>1. PICK w \in HeldWrappers :
        LET a == heap.ptr[w]
            h == ClearChildren(heap, a, WrappedChildren(heap, a))
        IN  /\ heap.kind[a] = Attr
            /\ \/ heap' = h
               \/ heap.fresh # {} /\ heap' = SetText(h, a)
            /\ UNCHANGED <<dstate, held, lost>>
  BY DEF noko_xml_attr_set_value
<1> DEFINE a == heap.ptr[w]
           keep == WrappedChildren(heap, a)
           h == ClearChildren(heap, a, keep)
<1>2. /\ Sound(heap, dstate, NULL) /\ a \in heap.alive /\ heap.kind[a] = Attr
      /\ dstate[heap.doc[a]] = "live"
  BY <1>1, HeldAreUsable
<1>3. /\ heap' = h \/ (heap.fresh # {} /\ heap' = SetText(h, a))
      /\ UNCHANGED <<dstate, held, lost>>
  BY <1>1
<1> HIDE DEF a
<1>4. \A n \in Members(heap.kids[a]) \ keep :
        heap.kind[n] \in {Text, Blank, Ref} /\ Spare(heap, n)
  BY <1>2, AttrChildren DEF WrappedChildren
<1>5. keep \subseteq Members(heap.kids[a])
  BY DEF WrappedChildren
<1> HIDE DEF keep, h
<1>6. h = ClearChildren(heap, a, keep)
  BY DEF h
<1>7. QED BY <1>2, <1>3, <1>4, <1>5, <1>6, ValueInv

\* Node#[]=, while at most one child of the attribute has a wrapper (OneWrappedChild).
LEMMA SetInv ==
  ASSUME IInv, NEW w \in HeldWrappers, OneWrappedChild(w), set(w) PROVE IInv'
<1> DEFINE n == heap.ptr[w]
<1>1. /\ heap.kind[n] = Elem /\ heap.fresh # {}
      /\ Prop(heap, n) = NULL => heap.fresh # {malloc(heap)}
      /\ heap' = SetProp(heap, n)
      /\ UNCHANGED <<dstate, held, lost>>
  BY DEF set
<1>2. Prop(heap, n) # NULL => \A b, c \in WrappedChildren(heap, Prop(heap, n)) : b = c
  BY DEF OneWrappedChild
<1>3. /\ Sound(heap, dstate, NULL) /\ lost \subseteq Node
      /\ n \in heap.alive /\ dstate[heap.doc[n]] = "live"
  BY HeldAreUsable DEF IInv
<1> HIDE DEF n
<1>4. Sound(heap', dstate, NULL) /\ Keeps(heap, heap')
  BY <1>1, <1>2, <1>3, SetPropSound
<1>5. QED BY <1>1, <1>3, <1>4, KeepsInv

\* Node#native_content=: every child is unlinked and pinned before the text is set.
LEMMA NativeContentInv == IInv /\ set_native_content => IInv'
<1> SUFFICES ASSUME IInv, set_native_content PROVE IInv'
  OBVIOUS
<1>1. PICK w \in HeldWrappers :
        LET n == heap.ptr[w]
            h == ClearChildren(heap, n, Members(heap.kids[n]))
        IN  /\ \/ heap.kind[n] \in {Elem, Attr} /\ heap' = h
               \/ heap.kind[n] \in {Elem, Attr} /\ heap.fresh # {} /\ heap' = SetText(h, n)
               \/ IsText(heap, n) /\ \E k \in {Text, Blank} : heap' = [heap EXCEPT !.kind[n] = k]
            /\ UNCHANGED <<dstate, held, lost>>
  BY DEF set_native_content
<1> DEFINE n == heap.ptr[w]
           keep == Members(heap.kids[n])
           h == ClearChildren(heap, n, keep)
<1>2. /\ Sound(heap, dstate, NULL) /\ n \in heap.alive /\ lost \subseteq Node
      /\ dstate[heap.doc[n]] = "live"
  BY HeldAreUsable DEF IInv
<1>3. UNCHANGED <<dstate, held, lost>>
  BY <1>1
<1>4. CASE /\ heap.kind[n] \in {Elem, Attr}
           /\ heap' = h \/ (heap.fresh # {} /\ heap' = SetText(h, n))
  <2>1. keep \subseteq Members(heap.kids[n]) /\ h = ClearChildren(heap, n, keep)
        /\ \A m \in Members(heap.kids[n]) \ keep :
             heap.kind[m] \in {Text, Blank, Ref} /\ Spare(heap, m)
    OBVIOUS
  <2> HIDE DEF n, keep, h
  <2>2. QED BY <1>2, <1>3, <1>4, <2>1, ValueInv
<1>5. CASE IsText(heap, n) /\ \E k \in {Text, Blank} : heap' = [heap EXCEPT !.kind[n] = k]
  <2> HIDE DEF n
  <2>1. Sound(heap', dstate, NULL) /\ Keeps(heap, heap')
    BY <1>2, <1>5, RetextSound
  <2>2. QED BY <1>2, <1>3, <2>1, KeepsInv
<1>6. QED BY <1>1, <1>4, <1>5

\* Node#do_xinclude: the <xi:include> node stays allocated when its wrapper may be reached.
LEMMA XincludeInv == IInv /\ safe_process_xinclude => IInv'
<1> SUFFICES ASSUME IInv, safe_process_xinclude PROVE IInv'
  OBVIOUS
<1>1. PICK w \in HeldWrappers :
        LET n == heap.ptr[w]
            p == heap.parent[n]
            i == Position(heap.kids[p], n)
            m == malloc(heap)
        IN  /\ heap.kind[n] = Elem
            /\ p # NULL
            /\ \/ /\ heap.fresh # {}
                  /\ heap' = Link(xmlNewNode(UnlinkAndPin(heap, n), m, Elem, heap.doc[n]), p, i, m)
               \/ /\ CanCopy(heap, n)
                  /\ heap' = Link(xmlDocCopyNode(UnlinkAndPin(heap, n), n, heap.doc[n]),
                                  p, i, CopyOf(heap, n))
            /\ UNCHANGED <<dstate, held, lost>>
  BY DEF safe_process_xinclude
<1> DEFINE n == heap.ptr[w]
           p == heap.parent[n]
           i == Position(heap.kids[p], n)
           d == heap.doc[n]
           u == UnlinkAndPin(heap, n)
<1>2. /\ heap \in Heap /\ Sound(heap, dstate, NULL) /\ n \in heap.alive /\ n \in Node
      /\ lost \subseteq Node /\ d \in Doc /\ dstate[d] = "live" /\ dstate[d] # "freed"
      /\ heap.kind[n] = Elem /\ p # NULL
  BY <1>1, HeldAreUsable DEF IInv
<1>3. UNCHANGED <<dstate, held, lost>>
  BY <1>1
<1>4. \/ /\ heap.fresh # {}
         /\ heap' = Link(xmlNewNode(u, malloc(heap), Elem, d), p, i, malloc(heap))
      \/ /\ CanCopy(heap, n)
         /\ heap' = Link(xmlDocCopyNode(u, n, d), p, i, CopyOf(heap, n))
  BY <1>1
<1> HIDE DEF n
<1>5. p \in Node \cup Doc /\ p \notin heap.fresh
  <2>1. dstate[heap.doc[n]] # "freed" /\ heap.parent[n] # NULL
    BY <1>2
  <2>2. p \in Node \cup Doc /\ InTree(heap, dstate, p)
    BY <1>2, <2>1, ParentOf
  <2>3. QED BY <1>2, <2>2, DistinctSorts DEF InTree, Sound, Allocated, Heap
<1>6. /\ Sound(u, dstate, NULL)
      /\ Keeps(heap, u)
      /\ u.fresh = heap.fresh /\ u.alive = heap.alive /\ u.kind = heap.kind /\ u.doc = heap.doc
      /\ u.priv = heap.priv
      /\ u.parent = [heap.parent EXCEPT ![n] = NULL]
      /\ \A q \in Node \cup Doc : q # heap.parent[n] => u.kids[q] = heap.kids[q]
      /\ heap.parent[n] # NULL => u.kids[heap.parent[n]] = Without(heap.kids[heap.parent[n]], n)
  <2> HIDE DEF p, i, d
  <2>1. u = UnlinkAndPin(heap, n) /\ dstate[heap.doc[n]] # "freed" /\ n \in heap.alive
        /\ Sound(heap, dstate, NULL)
    BY <1>2 DEF d
  <2> HIDE DEF u
  <2>2. QED BY <2>1, UnlinkAndPinSound
<1>7. p = heap.parent[n] /\ i = Position(heap.kids[p], n) /\ d = heap.doc[n]
      /\ u = UnlinkAndPin(heap, n)
  OBVIOUS
<1> HIDE DEF p, i, d, u
<1>8. Sound(heap', dstate, NULL) /\ Keeps(heap, heap')
  <2>1. CASE /\ heap.fresh # {}
             /\ heap' = Link(xmlNewNode(u, malloc(heap), Elem, d), p, i, malloc(heap))
    <3> DEFINE m == malloc(heap)
               k == xmlNewNode(u, m, Elem, d)
    <3>1. m \in u.fresh /\ Elem \in Kind /\ heap' = Link(k, p, i, m)
      BY <1>2, <1>6, <2>1, MallocIsFresh DEF Kind
    <3> HIDE DEF m
    <3>2. /\ Sound(k, dstate, NULL)
          /\ Keeps(u, k)
          /\ m \in Node /\ m \in k.alive /\ Spare(k, m)
          /\ k.fresh = u.fresh \ {m} /\ k.pinned = u.pinned
          /\ k.parent[m] = NULL /\ k.kind[m] = Elem /\ k.doc[m] = d /\ k.kids[m] = <<>>
          /\ \A q \in u.alive : /\ q \in k.alive /\ SameNode(u, k, q)
                                /\ k.doc[q] = u.doc[q] /\ k.parent[q] = u.parent[q]
          /\ \A q \in Node \cup Doc : q # m => k.kids[q] = u.kids[q]
      <4>1. Sound(u, dstate, NULL) /\ m \in u.fresh /\ d \in Doc /\ dstate[d] = "live"
            /\ Elem \in Kind /\ k = xmlNewNode(u, m, Elem, d)
        BY <1>2, <1>6, <3>1
      <4> HIDE DEF k
      <4>2. QED BY <4>1, NewNodeSound
    <3> HIDE DEF k
    <3>3. k.kids[p] = u.kids[p]
      BY <1>5, <1>6, <3>1, <3>2
    <3>4. \A q \in heap.alive : q \in k.alive /\ k.kind[q] = heap.kind[q] /\ k.doc[q] = heap.doc[q]
      BY <1>6, <3>2 DEF SameNode
    <3>5. QED BY <1>2, <1>7, <3>1, <3>2, <3>3, <3>4, TakePlaceSound
  <2>2. CASE /\ CanCopy(heap, n)
             /\ heap' = Link(xmlDocCopyNode(u, n, d), p, i, CopyOf(heap, n))
    <3> DEFINE c == CopyOf(heap, n)
               k == xmlDocCopyNode(u, n, d)
    <3>1. CanCopy(u, n) /\ CopyOf(u, n) = CopyOf(heap, n)
      <4>1. heap.alive \subseteq Node /\ heap.parent \in [Node -> Node \cup Doc \cup {NULL}]
        BY <1>2 DEF Heap
      <4>2. u.parent[n] \notin Node /\ \A q \in heap.alive : q # n => u.parent[q] = heap.parent[q]
        BY <1>2, <1>6, <4>1, NullIsNoObject
      <4>3. QED BY <1>2, <1>6, <2>2, <4>1, <4>2, SubtreeDependsOn
    <3>2. c = CopyOf(u, n) /\ n \in u.alive /\ heap' = Link(k, p, i, c)
      BY <1>2, <1>6, <2>2, <3>1
    <3> HIDE DEF c
    <3>3. /\ Sound(k, dstate, NULL)
          /\ Keeps(u, k)
          /\ c \in k.alive /\ c \notin u.alive /\ k.doc[c] = d /\ k.parent[c] = NULL
          /\ k.kind[c] = u.kind[n]
          /\ Spare(k, c)
          /\ \A q \in u.alive : /\ q \in k.alive
                                /\ k.kind[q] = u.kind[q] /\ k.doc[q] = u.doc[q]
                                /\ k.parent[q] = u.parent[q] /\ k.priv[q] = u.priv[q]
          /\ k.fresh \subseteq u.fresh
          /\ \A q \in Node \cup Doc : q \notin u.fresh => k.kids[q] = u.kids[q]
      <4>1. Sound(u, dstate, NULL) /\ n \in u.alive /\ CanCopy(u, n) /\ d \in Doc
            /\ dstate[d] = "live" /\ k = xmlDocCopyNode(u, n, d) /\ c = CopyOf(u, n)
        BY <1>2, <1>6, <3>1, <3>2
      <4> HIDE DEF k
      <4>2. QED BY <4>1, CopyNodeSound
    <3> HIDE DEF k
    <3>4. k.kids[p] = u.kids[p] /\ k.kind[c] = Elem
      BY <1>2, <1>5, <1>6, <3>3
    <3>5. \A q \in heap.alive : q \in k.alive /\ k.kind[q] = heap.kind[q] /\ k.doc[q] = heap.doc[q]
      BY <1>6, <3>3
    <3>6. QED BY <1>2, <1>7, <3>2, <3>3, <3>4, <3>5, TakePlaceSound
  <2>3. QED BY <1>4, <2>1, <2>2
<1>9. QED BY <1>2, <1>3, <1>8, KeepsInv

-----------------------------------------------------------------------------
(* Moving nodes.                                                           *)

\* Document#root=, with nil, with a node of the document and with one of another document.
LEMMA RootSetInv == IInv /\ root_set => IInv'
<1> SUFFICES ASSUME IInv, root_set PROVE IInv'
  OBVIOUS
<1>1. PICK d \in HeldDocs :
        \/ heap' = DropRoot(heap, d) /\ lost' = lost
        \/ \E w \in HeldWrappers :
             LET n == heap.ptr[w]
             IN  /\ heap.kind[n] = Elem
                 /\ heap.doc[n] # d => CanCopy(heap, n)
                 /\ SetRoot(d, NewRoot(DropRoot(heap, d), d, n))
  BY DEF root_set
<1>2. dstate' = dstate /\ held' = held
  BY DEF root_set
<1>3. Sound(heap, dstate, NULL) /\ lost \subseteq Node /\ d \in Doc /\ dstate[d] = "live"
  BY HeldAreUsable DEF IInv
<1>4. CASE heap' = DropRoot(heap, d) /\ lost' = lost
  <2>1. Sound(heap', dstate, NULL) /\ Keeps(heap, heap')
    BY <1>3, <1>4, DropRootSound
  <2>2. QED BY <1>2, <1>3, <1>4, <2>1, KeepsInv
<1>5. ASSUME NEW w \in HeldWrappers,
             LET n == heap.ptr[w]
             IN  /\ heap.kind[n] = Elem
                 /\ heap.doc[n] # d => CanCopy(heap, n)
                 /\ SetRoot(d, NewRoot(DropRoot(heap, d), d, n))
      PROVE  IInv'
  <2> DEFINE n == heap.ptr[w]
             r == NewRoot(DropRoot(heap, d), d, n)
  <2>1. /\ n \in heap.alive /\ dstate[heap.doc[n]] = "live" /\ heap.kind[n] = Elem
        /\ heap.priv[n] # NULL /\ (heap.doc[n] # d => CanCopy(heap, n))
    BY <1>5, HeldAreUsable DEF IsText, Elem, Text, Blank
  <2>2. /\ heap' = xmlDocSetRootElement(r.h, d, r.n)
        /\ lost' = lost \cup ({RootElement(r.h, d)} \ {NULL})
    BY <1>5 DEF SetRoot
  <2> HIDE DEF n
  <2>3. r = NewRoot(DropRoot(heap, d), d, n)
    OBVIOUS
  <2> HIDE DEF r
  <2>4. Sound(heap', dstate, NULL) /\ Keeps(heap, heap') /\ RootElement(r.h, d) \in Node \cup {NULL}
    BY <1>3, <2>1, <2>2, <2>3, SetRootSound
  <2>5. lost' \subseteq Node
    BY <1>3, <2>2, <2>4
  <2>6. QED BY <1>2, <2>4, <2>5, KeepsInv
<1>6. QED BY <1>1, <1>4, <1>5

\* add_child, add_next_sibling, add_previous_sibling and replace, whatever objects
\* may be used beside those that are held.
LEMMA ReparentReaches ==
  ASSUME IInv, NEW G, Usable(heap, dstate, G), held \subseteq G,
         NEW how \in {"child", "next", "prev", "replace"}, Reparent(how)
  PROVE  /\ Sound(heap', dstate, NULL) /\ dstate' = dstate /\ lost' \subseteq Node
         /\ heap'.fresh \subseteq heap.fresh
         /\ \E F : Usable(heap', dstate, F) /\ G \cup held' \subseteq F
<1>1. PICK pivot \in Pivots, w \in HeldWrappers :
        LET n == heap.ptr[w]
            parent == IF how = "child" THEN pivot ELSE heap.parent[pivot]
        IN  /\ CallerAllows(heap, pivot, n, how)
            /\ MayContain(heap, parent, n)
            /\ NeedsDup(heap, pivot, n) => CanCopy(heap, n) /\ Unborn(heap) # {}
            /\ Reparented(pivot, n, how, reparent_node_with(heap, pivot, w, how))
  BY DEF Reparent
<1> DEFINE n == heap.ptr[w]
           r == reparent_node_with(heap, pivot, w, how)
<1>2. /\ heap \in Heap /\ Sound(heap, dstate, NULL)
      /\ dstate \in DState /\ lost \subseteq Node
      /\ w \in G \cap Wrapper /\ n \in Node
  BY HeldAreUsable DEF IInv, HeldWrappers
<1>3. /\ pivot \in G \cap Doc \/ (pivot \in heap.alive /\ heap.doc[pivot] \in G)
      /\ pivot \in Node \cup Doc
      /\ pivot \in Node => \E v \in HeldWrappers : pivot = heap.ptr[v]
  <2>1. Marked(heap, held) \subseteq G
    BY <1>2, MarkedIsUsable
  <2>2. QED BY <2>1, PivotIsUsable
<1>4. /\ how = "child" => MayContain(heap, pivot, n)
      /\ how # "child" => MayContain(heap, heap.parent[pivot], n)
      /\ NeedsDup(heap, pivot, n) => CanCopy(heap, n) /\ Unborn(heap) # {}
      /\ Reparented(pivot, n, how, r)
  BY <1>1
<1>5. /\ how # "child" => pivot \in Node /\ heap.kind[pivot] # Attr
      /\ how = "replace" => ~IsText(heap, pivot)
  BY <1>1 DEF CallerAllows, SiblingAllowed, ReplaceAllowed
<1>6. /\ Sound(r.h, dstate, NULL)
      /\ r.h.fresh \subseteq heap.fresh
      /\ \/ r.n = NULL /\ Usable(r.h, dstate, G)
         \/ /\ r.n # NULL /\ r.h.priv[r.n] \in Wrapper
            /\ Usable(r.h, dstate, G \cup {r.h.priv[r.n]})
      /\ \A v \in Wrapper : heap.ptr[v] \in heap.alive /\ ~IsText(heap, heap.ptr[v]) =>
           /\ heap.ptr[v] \in r.h.alive /\ r.h.kind[heap.ptr[v]] = heap.kind[heap.ptr[v]]
           /\ r.h.priv[heap.ptr[v]] # NULL
  <2>1. MovedSoundly(heap, dstate, G, r)
    <3>1. r = reparent_node_with(heap, pivot, w, how)
      OBVIOUS
    <3>2. how = "child" => MayContain(heap, pivot, heap.ptr[w])
      BY <1>4
    <3>3. how # "child" => /\ pivot \in Node /\ heap.kind[pivot] # Attr
                           /\ MayContain(heap, heap.parent[pivot], heap.ptr[w])
      BY <1>4, <1>5
    <3>4. NeedsDup(heap, pivot, heap.ptr[w]) => CanCopy(heap, heap.ptr[w]) /\ Unborn(heap) # {}
      BY <1>4
    <3>5. pivot \in G \cap Doc \/ (pivot \in heap.alive /\ heap.doc[pivot] \in G)
      BY <1>3
    <3> HIDE DEF r
    <3>6. Sound(heap, dstate, NULL) /\ Usable(heap, dstate, G) /\ w \in G \cap Wrapper
      BY <1>2
    <3>7. QED BY <3>1, <3>2, <3>3, <3>4, <3>5, <3>6, ReparentSound
  <2>2. QED BY <2>1 DEF MovedSoundly
<1> DEFINE fine == r.n # NULL /\ ~IsAncestorOfSelf(r.h, r.n)
<1>7. \/ /\ ~fine
         /\ heap' = r.h
         /\ lost' = lost \cup ({pivot, n, r.n} \cap r.h.alive)
         /\ UNCHANGED <<dstate, held>>
      \/ /\ fine
         /\ heap' = IF how = "replace" THEN noko_xml_document_pin_node(r.h, pivot) ELSE r.h
         /\ held' = held \cup {r.h.priv[r.n]}
         /\ lost' = IF pivot = n THEN lost \cup ({pivot, r.n} \cap r.h.alive) ELSE lost
         /\ UNCHANGED dstate
  BY <1>4 DEF Reparented
<1> HIDE DEF n, r
<1>8. lost' \subseteq Node
  <2>1. r.h.alive \subseteq Node
    BY <1>6 DEF Sound, Heap
  <2> HIDE DEF fine
  <2>2. QED BY <1>2, <1>7, <2>1
<1>9. CASE /\ heap' = r.h
           /\ UNCHANGED <<dstate, held>>
  <2>1. CASE r.n = NULL
    BY <1>6, <1>8, <1>9, <2>1
  <2>2. CASE r.n # NULL
    <3> DEFINE F == G \cup {r.h.priv[r.n]}
    <3>1. Usable(heap', dstate, F) /\ G \cup held' \subseteq F
      BY <1>6, <1>9, <2>2
    <3> HIDE DEF F
    <3>2. QED BY <1>6, <1>8, <1>9, <3>1
  <2>3. QED BY <2>1, <2>2
<1>10. CASE /\ r.n # NULL
            /\ heap' = IF how = "replace" THEN noko_xml_document_pin_node(r.h, pivot) ELSE r.h
            /\ held' = held \cup {r.h.priv[r.n]}
            /\ UNCHANGED dstate
  <2> DEFINE F == G \cup {r.h.priv[r.n]}
  <2>1. Usable(r.h, dstate, F) /\ G \cup held' \subseteq F
    BY <1>6, <1>10
  <2> HIDE DEF F
  <2>2. CASE how # "replace"
    BY <1>6, <1>8, <1>10, <2>1, <2>2
  <2>3. CASE how = "replace"
    <3> DEFINE h == r.h
    <3>1. PICK v \in HeldWrappers : pivot = heap.ptr[v]
      BY <1>3, <1>5, <2>3
    <3>2. v \in Wrapper /\ pivot \in heap.alive
      BY <1>3, <1>5, <2>3, <3>1, HeldAreUsable
    <3>3. pivot \in h.alive /\ h.kind[pivot] # Attr /\ ~IsText(h, pivot) /\ h.priv[pivot] # NULL
      BY <1>5, <1>6, <2>3, <3>1, <3>2 DEF IsText
    <3>4. Sound(h, dstate, NULL) /\ heap' = noko_xml_document_pin_node(h, pivot)
          /\ Usable(h, dstate, F) /\ h.fresh \subseteq heap.fresh
      BY <1>6, <1>10, <2>1, <2>3
    <3> HIDE DEF h
    <3>5. pivot # NULL /\ h.parent[pivot] # NULL
            => h.kind[pivot] # Attr /\ ~IsText(h, pivot) /\ h.priv[pivot] # NULL
      BY <3>3
    <3>6. /\ Sound(heap', dstate, NULL)
          /\ Keeps(h, heap')
      BY <3>3, <3>4, <3>5, PinSound
    <3>7. Usable(heap', dstate, F)
      BY <1>10, <3>4, <3>6, KeepsUsable
    <3>8. heap'.fresh \subseteq heap.fresh
      BY <3>4, <3>6 DEF Keeps
    <3>9. QED BY <1>8, <1>10, <2>1, <3>6, <3>7, <3>8
  <2>4. QED BY <2>2, <2>3
<1>11. QED BY <1>7, <1>9, <1>10

\* The same, of what the program holds.
LEMMA ReparentInv ==
  ASSUME IInv, NEW how \in {"child", "next", "prev", "replace"}, Reparent(how)
  PROVE  IInv'
<1> DEFINE G == Marked(heap, held)
<1>1. Usable(heap, dstate, G) /\ held \subseteq G /\ dstate \in DState
  BY HeldAreUsable DEF IInv
<1> HIDE DEF G
<1>2. /\ Sound(heap', dstate, NULL) /\ dstate' = dstate /\ lost' \subseteq Node
      /\ \E F : Usable(heap', dstate, F) /\ G \cup held' \subseteq F
  BY <1>1, ReparentReaches
<1>3. PICK F : Usable(heap', dstate, F) /\ G \cup held' \subseteq F
  BY <1>2
<1>4. QED BY <1>1, <1>2, <1>3, ReachInv

-----------------------------------------------------------------------------
(* Documents, references and the collector.                                *)

\* Document.new and Document.parse: a document whose nodes no wrapper names yet.
LEMMA NewDocumentInv == IInv /\ NewDocument => IInv'
<1> SUFFICES ASSUME IInv, NewDocument PROVE IInv'
  OBVIOUS
<1> DEFINE G == Marked(heap, held)
<1>1. PICK d \in Doc : /\ dstate[d] = "unborn"
                       /\ dstate' = [dstate EXCEPT ![d] = "live"]
                       /\ held' = held \cup {d}
                       /\ UNCHANGED <<heap, lost>>
  BY DEF NewDocument
<1>2. /\ Sound(heap, dstate, NULL) /\ Usable(heap, dstate, G) /\ held \subseteq G
      /\ dstate \in DState /\ lost \subseteq Node
  BY HeldAreUsable DEF IInv
<1> HIDE DEF G
<1>3. /\ dstate' \in DState /\ Sound(heap, dstate', NULL) /\ Usable(heap, dstate', G \cup {d})
  BY <1>1, <1>2, BirthSound
<1> DEFINE F == G \cup {d}
<1>4. Sound(heap', dstate', NULL) /\ Usable(heap', dstate', F) /\ held' \subseteq F
      /\ lost' \subseteq Node
  BY <1>1, <1>2, <1>3
<1> HIDE DEF F
<1>5. QED BY <1>3, <1>4, ReachInv

\* Document#dup: the copy of the tree is the content of the new document.
LEMMA DupDocumentInv == IInv /\ DupDocument => IInv'
<1> SUFFICES ASSUME IInv, DupDocument PROVE IInv'
  OBVIOUS
<1> DEFINE G == Marked(heap, held)
<1>1. PICK d \in HeldDocs, e \in Doc :
        /\ dstate[e] = "unborn"
        /\ \/ heap' = heap
           \/ RoomFor(heap, Content(heap, d)) /\ heap' = xmlCopyDoc(heap, d, e)
        /\ dstate' = [dstate EXCEPT ![e] = "live"]
        /\ held' = held \cup {e}
        /\ UNCHANGED lost
  BY DEF DupDocument
<1>2. /\ Sound(heap, dstate, NULL) /\ Usable(heap, dstate, G) /\ held \subseteq G
      /\ dstate \in DState /\ lost \subseteq Node /\ d \in Doc /\ dstate[d] = "live"
  BY HeldAreUsable DEF IInv
<1> HIDE DEF G
<1> DEFINE F == G \cup {e}
<1>3. /\ dstate' \in DState /\ Sound(heap, dstate', NULL) /\ Usable(heap, dstate', F)
      /\ \A n \in heap.alive : heap.doc[n] # e
  BY <1>1, <1>2, BirthSound
<1>4. dstate'[d] = "live" /\ dstate'[e] = "live"
  BY <1>1, <1>2 DEF DState
<1>5. held' \subseteq F /\ lost' \subseteq Node
  BY <1>1, <1>2
<1> HIDE DEF F
<1>6. Sound(heap', dstate', NULL) /\ Usable(heap', dstate', F)
  <2>1. CASE heap' = heap
    BY <1>3, <2>1
  <2>2. CASE RoomFor(heap, Content(heap, d)) /\ heap' = xmlCopyDoc(heap, d, e)
    <3>1. Sound(heap', dstate', NULL) /\ Keeps(heap, heap')
      BY <1>2, <1>3, <1>4, <2>2, CopyDocSound
    <3>2. QED BY <1>3, <3>1, KeepsUsable
  <2>3. QED BY <1>1, <2>1, <2>2
<1>7. QED BY <1>3, <1>5, <1>6, ReachInv

\* The program drops a reference: what is still marked was marked before.
LEMMA ForgetInv == IInv /\ Forget => IInv'
<1> SUFFICES ASSUME IInv, Forget PROVE IInv'
  OBVIOUS
<1> DEFINE G == Marked(heap, held)
<1>1. heap' = heap /\ dstate' = dstate /\ lost' = lost /\ held' \subseteq held
  BY DEF Forget
<1>2. /\ Sound(heap, dstate, NULL) /\ Usable(heap, dstate, G) /\ held \subseteq G
      /\ dstate \in DState /\ lost \subseteq Node
  BY HeldAreUsable DEF IInv
<1> HIDE DEF G
<1>3. QED BY <1>1, <1>2, ReachInv

\* A collection frees the documents that nothing held marks, with their nodes and wrappers.
LEMMA CollectInv == IInv /\ Collect(held) => IInv'
<1> SUFFICES ASSUME IInv, Collect(held) PROVE IInv'
  OBVIOUS
<1> DEFINE G == Marked(heap, held)
<1>1. PICK d \in {c \in Doc : dstate[c] = "live"} \ G :
        /\ heap' = dealloc(heap, d)
        /\ dstate' = [dstate EXCEPT ![d] = "freed"]
        /\ UNCHANGED <<held, lost>>
  BY DEF Collect
<1>2. /\ Sound(heap, dstate, NULL) /\ Usable(heap, dstate, G) /\ held \subseteq G
      /\ dstate \in DState /\ lost \subseteq Node
  BY HeldAreUsable DEF IInv
<1> HIDE DEF G
<1>3. dstate' \in DState /\ Sound(heap', dstate', NULL) /\ Usable(heap', dstate', G)
  BY <1>1, <1>2, DeallocSound
<1>4. QED BY <1>1, <1>2, <1>3, ReachInv

-----------------------------------------------------------------------------
(* The theorems.                                                           *)

\* Every step preserves the invariant.
LEMMA StepInv == IInv /\ [Next]_vars => IInv'
<1> SUFFICES ASSUME IInv, [Next]_vars PROVE IInv'
  OBVIOUS
<1>1. CASE UNCHANGED vars
  BY <1>1 DEF IInv, vars
<1>2. CASE CoreNext
  <2>1. ASSUME NEW how \in {"child", "next", "prev", "replace"}, Reparent(how) PROVE IInv'
    BY <2>1, ReparentInv
  <2>2. QED
    BY <1>2, <2>1, NavigateInv, NewNodeInv, UnlinkInv, CopyInv, RootSetInv, AttrSetValueInv,
       NativeContentInv, XincludeInv, NewDocumentInv, DupDocumentInv, ForgetInv, CollectInv
       DEF CoreNext, add_child, add_next_sibling, add_previous_sibling, replace
<1>3. ASSUME NEW w \in HeldWrappers, OneWrappedChild(w) /\ set(w) PROVE IInv'
  BY <1>3, SetInv
<1>4. QED BY <1>1, <1>2, <1>3 DEF Next

\* The invariant holds in every state of every behaviour.
THEOREM Inductive == Spec => []IInv
BY InitInv, StepInv, PTL DEF Spec

\* The inductive invariant gives TypeOK.
LEMMA InvHasTypes == IInv => TypeOK
BY DEF IInv, TypeOK, Sound, DState, Objects

\* The nodes, the documents and the references of the program have their types.
THEOREM TypeOKHolds == Spec => []TypeOK
BY InvHasTypes, Inductive, PTL

\* The inductive invariant gives NoDanglingWrapper.
LEMMA InvSparesWrapped == IInv => NoDanglingWrapper
<1> SUFFICES ASSUME IInv, NEW w \in Marked(heap, held) \cap Wrapper
             PROVE  /\ heap.ptr[w] \in heap.alive
                    /\ dstate[heap.doc[heap.ptr[w]]] = "live"
  BY DEF NoDanglingWrapper
<1> DEFINE G == Marked(heap, held)
<1>1. Usable(heap, dstate, G) /\ \A n \in heap.alive : heap.doc[n] \in Doc
  BY DEF IInv, Sound, Heap
<1> HIDE DEF G
<1>2. w \in G \cap Wrapper
  BY DEF G
<1>3. QED BY <1>1, <1>2 DEF Usable

\* Every wrapper that the program or the collector can reach points at an
\* allocated node of a live document: no method of Node reads freed memory.
THEOREM WrappersPointAtNodes == Spec => []NoDanglingWrapper
BY InvSparesWrapped, Inductive, PTL

\* The inductive invariant gives WrapReturnsLiveObject.
LEMMA InvReachesWrappers == IInv => WrapReturnsLiveObject
<1> DEFINE G == Marked(heap, held)
<1> SUFFICES ASSUME IInv, NEW n \in heap.alive, heap.doc[n] \in G, heap.priv[n] # NULL
             PROVE  heap.priv[n] \in G
  BY DEF WrapReturnsLiveObject
<1>1. Usable(heap, dstate, G) /\ Cached(heap, dstate) /\ heap.doc[n] \in Doc
  BY DEF IInv, Sound, Heap
<1> HIDE DEF G
<1>2. dstate[heap.doc[n]] = "live" /\ heap.cache[heap.doc[n]] \subseteq G
  BY <1>1 DEF Usable
<1>3. QED BY <1>1, <1>2 DEF Cached

\* The wrapper that noko_xml_node_wrap finds in a node of a reachable document
\* is itself reachable: it has not been swept.
THEOREM WrapReturnsLive == Spec => []WrapReturnsLiveObject
BY InvReachesWrappers, Inductive, PTL

\* The inductive invariant gives DeallocFreesOnce.
LEMMA InvFreesOnce == IInv => DeallocFreesOnce
<1> SUFFICES ASSUME IInv, NEW d \in Doc, NEW n \in heap.pinned[d]
             PROVE  /\ n \in heap.alive
                    /\ heap.doc[n] = d
                    /\ heap.kind[n] = Attr =>
                         /\ heap.parent[n] = NULL
                         /\ \A t \in heap.pinned[d] \cap Members(heap.kids[n]) : heap.kind[t] = Ref
  BY DEF DeallocFreesOnce
<1>1. \A m \in heap.pinned[d] :
        /\ m \in heap.alive /\ heap.doc[m] = d /\ m \in Node
        /\ heap.parent[m] # NULL => heap.kind[m] # Attr /\ ~IsText(heap, m)
  BY NullIsNoObject DEF IInv, Sound, Pins, Heap
<1>2. ASSUME heap.kind[n] = Attr, NEW t \in heap.pinned[d] \cap Members(heap.kids[n])
      PROVE  heap.kind[t] = Ref
  <2>1. Sound(heap, dstate, NULL) /\ InTree(heap, dstate, n)
    BY <1>1 DEF IInv, InTree
  <2>2. heap.parent[t] = n /\ heap.parent[t] # NULL /\ t \in heap.alive
    BY <1>1, <2>1, ChildOf, NullIsNoObject
  <2>3. heap.kind[t] \in {Text, Blank, Ref}
    BY <1>1, <1>2, <2>1, <2>2 DEF Sound, Upward
  <2>4. QED BY <1>1, <2>2, <2>3 DEF IsText
<1>3. QED BY <1>1, <1>2

\* What dealloc frees one by one is allocated, its own, and not freed again with
\* a parent that it also frees: no double free.
THEOREM FreedOnce == Spec => []DeallocFreesOnce
BY InvFreesOnce, Inductive, PTL

\* The inductive invariant gives TextWrapperAgrees.
LEMMA InvTextsAgree == IInv => TextWrapperAgrees
<1> SUFFICES ASSUME IInv, NEW n \in heap.alive, IsText(heap, n), heap.parent[n] # NULL,
                    dstate[heap.doc[n]] = "live"
             PROVE  /\ heap.priv[n] # NULL => /\ heap.ptr[heap.priv[n]] = n
                                              /\ heap.priv[n] \in heap.cache[heap.doc[n]]
                    /\ heap.priv[n] = NULL => \A w \in Wrapper : heap.ptr[w] # n
  BY DEF TextWrapperAgrees
<1>1. Sound(heap, dstate, NULL)
  BY DEF IInv
<1>2. Agrees(heap) /\ Cached(heap, dstate)
  BY <1>1 DEF Sound
<1>3. heap.priv[n] = NULL => Spare(heap, n)
  BY <1>1, UnwrappedIsSpare
<1>4. QED BY <1>2, <1>3 DEF Agrees, Cached, Spare

\* A text in a tree and its wrapper point at each other, and a text without one
\* is pointed at by none: libxml2 may merge and free it.
THEOREM TextsAgree == Spec => []TextWrapperAgrees
BY InvTextsAgree, Inductive, PTL

=============================================================================
