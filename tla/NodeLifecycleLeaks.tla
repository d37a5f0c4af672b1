------------------------ MODULE NodeLifecycleLeaks -------------------------
(* No node is lost: every node will be freed with its document, unless a   *)
(* call that raised has left it behind (NothingLeaks).  What that needs of *)
(* a heap, Kept, is about the tree and the pins alone, so each C function  *)
(* is described here by the nodes that it moves (Shifts); that the heap    *)
(* stays sound is known from NodeLifecycleProofs.                          *)
EXTENDS NodeLifecycleProofs

-----------------------------------------------------------------------------
(* The tree alone: what is allocated, below what, and what is pinned.      *)

Pinned(h) == UNION {h.pinned[d] : d \in Doc}

IsTree(h) ==
  /\ h = [fresh |-> h.fresh, alive |-> h.alive, kind |-> h.kind, doc |-> h.doc,
          parent |-> h.parent, kids |-> h.kids, priv |-> h.priv, ptr |-> h.ptr,
          pinned |-> h.pinned, cache |-> h.cache]
  /\ h.fresh \subseteq Node /\ h.alive \subseteq Node /\ h.fresh \cap h.alive = {}
  /\ h.parent \in [Node -> Node \cup Doc \cup {NULL}]
  /\ h.doc \in [Node -> Doc]
  /\ h.pinned \in [Doc -> SUBSET Node]
  /\ \A c \in h.alive : h.parent[c] \notin h.fresh

\* From h to g no node is allocated.  A node that is not in M and is still there
\* has kept its parent, or has none and is pinned.
Shifts(h, g, M) ==
  /\ IsTree(g)
  /\ g.fresh = h.fresh /\ g.doc = h.doc /\ g.alive \subseteq h.alive
  /\ Pinned(h) \subseteq Pinned(g)
  /\ \A m \in g.alive : \/ m \in M
                        \/ g.parent[m] = h.parent[m]
                        \/ g.parent[m] = NULL /\ m \in Pinned(g)

\* Every node is below a node that has no parent, one of a document, or one of K;
\* and one without a parent is pinned or one of K.
Hangs(h, K) ==
  \A S : /\ \A c \in h.alive : h.parent[c] \notin Node \/ c \in K => c \in S
         /\ \A c \in h.alive : h.parent[c] \in S => c \in S
         => h.alive \subseteq S

Kept(h, K) ==
  /\ \A c \in h.alive : h.parent[c] = NULL => c \in K \/ c \in Pinned(h)
  /\ Hangs(h, K)

\* A sound heap is a tree.
LEMMA SoundIsTree ==
  ASSUME NEW h, NEW D, NEW x, Sound(h, D, x)
  PROVE  IsTree(h)
<1>1. h \in Heap /\ Allocated(h) /\ Upward(h)
  BY DEF Sound
<1>2. h = [fresh |-> h.fresh, alive |-> h.alive, kind |-> h.kind, doc |-> h.doc,
           parent |-> h.parent, kids |-> h.kids, priv |-> h.priv, ptr |-> h.ptr,
           pinned |-> h.pinned, cache |-> h.cache]
  BY <1>1 DEF Heap
<1>3. /\ h.fresh \subseteq Node /\ h.alive \subseteq Node /\ h.fresh \cap h.alive = {}
      /\ h.parent \in [Node -> Node \cup Doc \cup {NULL}]
      /\ h.doc \in [Node -> Doc]
      /\ h.pinned \in [Doc -> SUBSET Node]
  BY <1>1 DEF Heap, Allocated
<1>4. \A c \in h.alive : h.parent[c] \notin h.fresh
  BY <1>1, <1>3 DEF Upward
<1>5. QED BY <1>2, <1>3, <1>4 DEF IsTree

\* Shifts compose.
LEMMA ShiftsCompose ==
  ASSUME NEW h, NEW g, NEW k, NEW M, NEW N, Shifts(h, g, M), Shifts(g, k, N)
  PROVE  Shifts(h, k, M \cup N)
BY DEF Shifts

\* A shift that moves fewer nodes.
LEMMA ShiftsMore ==
  ASSUME NEW h, NEW g, NEW M, NEW N, Shifts(h, g, M), M \subseteq N
  PROVE  Shifts(h, g, N)
BY DEF Shifts

\* What changes neither the nodes nor the tree.
LEMMA ShiftsNothing ==
  ASSUME NEW h, IsTree(h)
  PROVE  Shifts(h, h, {})
BY DEF Shifts

\* A node leaves its parent.
LEMMA UnlinkShifts ==
  ASSUME NEW h, IsTree(h), NEW n \in Node, NEW g, g = xmlUnlinkNode(h, n)
  PROVE  /\ Shifts(h, g, {n})
         /\ g.alive = h.alive /\ g.parent = [h.parent EXCEPT ![n] = NULL] /\ g.pinned = h.pinned
<1>1. CASE h.parent[n] = NULL
  <2>1. g = h
    BY <1>1 DEF xmlUnlinkNode
  <2>2. h.parent = [h.parent EXCEPT ![n] = NULL]
    BY <1>1 DEF IsTree
  <2>3. QED BY <2>1, <2>2 DEF Shifts
<1>2. CASE h.parent[n] # NULL
  <2> DEFINE ks == [h.kids EXCEPT ![h.parent[n]] = Without(@, n)]
             up == [h.parent EXCEPT ![n] = NULL]
  <2>1. g = [h EXCEPT !.parent[n] = NULL, !.kids[h.parent[n]] = Without(@, n)]
    BY <1>2 DEF xmlUnlinkNode
  <2>2. g = [fresh |-> h.fresh, alive |-> h.alive, kind |-> h.kind, doc |-> h.doc,
             parent |-> up, kids |-> ks, priv |-> h.priv, ptr |-> h.ptr,
             pinned |-> h.pinned, cache |-> h.cache]
    BY <2>1 DEF IsTree
  <2> HIDE DEF ks
  <2>3. /\ up \in [Node -> Node \cup Doc \cup {NULL}]
        /\ \A c \in h.alive : up[c] \notin h.fresh
        /\ \A c \in h.alive : c = n \/ up[c] = h.parent[c]
    BY NullIsNoObject DEF IsTree
  <2> HIDE DEF up
  <2>4. IsTree(g)
    BY <2>2, <2>3 DEF IsTree
  <2>5. QED BY <2>2, <2>3, <2>4 DEF Shifts, Pinned, up
<1>3. QED BY <1>1, <1>2

\* A node is pinned.
LEMMA PinShifts ==
  ASSUME NEW h, IsTree(h), NEW n \in Node, NEW g, g = noko_xml_document_pin_node(h, n)
  PROVE  /\ Shifts(h, g, {})
         /\ g.alive = h.alive /\ g.parent = h.parent
         /\ n \in Pinned(g)
<1> DEFINE pn == [h.pinned EXCEPT ![h.doc[n]] = @ \cup {n}]
<1>1. g = [fresh |-> h.fresh, alive |-> h.alive, kind |-> h.kind, doc |-> h.doc,
           parent |-> h.parent, kids |-> h.kids, priv |-> h.priv, ptr |-> h.ptr,
           pinned |-> pn, cache |-> h.cache]
  BY DEF IsTree, noko_xml_document_pin_node
<1>2. /\ pn \in [Doc -> SUBSET Node] /\ h.doc[n] \in Doc /\ n \in pn[h.doc[n]]
      /\ \A d \in Doc : h.pinned[d] \subseteq pn[d]
  BY DEF IsTree
<1> HIDE DEF pn
<1>3. IsTree(g)
  BY <1>1, <1>2 DEF IsTree
<1>4. Pinned(h) \subseteq Pinned(g) /\ n \in Pinned(g)
  BY <1>1, <1>2 DEF Pinned
<1>5. QED BY <1>1, <1>3, <1>4 DEF Shifts

\* A node is linked below another one, or below a document.
LEMMA LinkShifts ==
  ASSUME NEW h, IsTree(h), NEW n \in Node, NEW p \in Node \cup Doc, p \notin h.fresh, NEW i,
         NEW g, g = Link(h, p, i, n)
  PROVE  /\ Shifts(h, g, {n})
         /\ g.alive = h.alive /\ g.parent = [h.parent EXCEPT ![n] = p] /\ g.pinned = h.pinned
<1> DEFINE ks == [h.kids EXCEPT ![p] = PutAt(@, i, n)]
           up == [h.parent EXCEPT ![n] = p]
<1>1. g = [fresh |-> h.fresh, alive |-> h.alive, kind |-> h.kind, doc |-> h.doc,
           parent |-> up, kids |-> ks, priv |-> h.priv, ptr |-> h.ptr,
           pinned |-> h.pinned, cache |-> h.cache]
  BY DEF IsTree, Link
<1> HIDE DEF ks
<1>2. /\ up \in [Node -> Node \cup Doc \cup {NULL}]
      /\ \A c \in h.alive : up[c] \notin h.fresh
      /\ \A c \in h.alive : c = n \/ up[c] = h.parent[c]
  BY DEF IsTree
<1> HIDE DEF up
<1>3. IsTree(g)
  BY <1>1, <1>2 DEF IsTree
<1>4. QED BY <1>1, <1>2, <1>3 DEF Shifts, Pinned, up

\* A text is merged into another one: it is not allocated any more.
LEMMA MergeShifts ==
  ASSUME NEW h, IsTree(h), NEW n \in Node, NEW left, NEW g, g = xmlTextMerge(h, left, n)
  PROVE  /\ Shifts(h, g, {n})
         /\ g.alive = h.alive \ {n} /\ g.parent = [h.parent EXCEPT ![n] = NULL]
         /\ g.pinned = h.pinned
<1> DEFINE u == xmlUnlinkNode(h, n)
           k == IF h.kind[left] = Blank /\ h.kind[n] = Blank THEN Blank ELSE Text
           kd == [u.kind EXCEPT ![left] = k]
<1>1. Shifts(h, u, {n}) /\ u.alive = h.alive /\ u.parent = [h.parent EXCEPT ![n] = NULL]
      /\ u.pinned = h.pinned
  BY UnlinkShifts
<1>2. g = [[u EXCEPT !.kind[left] = k] EXCEPT !.alive = @ \ {n}]
  BY DEF xmlTextMerge, xmlFree
<1> HIDE DEF u, k
<1>3. g = [fresh |-> u.fresh, alive |-> u.alive \ {n}, kind |-> kd, doc |-> u.doc,
           parent |-> u.parent, kids |-> u.kids, priv |-> u.priv, ptr |-> u.ptr,
           pinned |-> u.pinned, cache |-> u.cache]
  BY <1>1, <1>2 DEF IsTree, Shifts
<1> HIDE DEF kd
<1>4. IsTree(g)
  BY <1>1, <1>3 DEF IsTree, Shifts
<1>5. QED BY <1>1, <1>3, <1>4 DEF Shifts, Pinned

-----------------------------------------------------------------------------
(* What hangs on nothing is lost or pinned.                                *)

\* Nothing is lost but what is in M.
LEMMA KeptShift ==
  ASSUME NEW h, NEW g, NEW K, NEW M, IsTree(h), Kept(h, K), Shifts(h, g, M),
         \A c \in g.alive : g.parent[c] \in Node => g.parent[c] \in g.alive
  PROVE  Kept(g, K \cup M)
<1>1. \A c \in g.alive : g.parent[c] = NULL => c \in K \cup M \/ c \in Pinned(g)
  BY DEF Kept, Shifts
<1>2. ASSUME NEW S,
             \A c \in g.alive : g.parent[c] \notin Node \/ c \in K \cup M => c \in S,
             \A c \in g.alive : g.parent[c] \in S => c \in S
      PROVE  g.alive \subseteq S
  <2> DEFINE T == S \cup (h.alive \ g.alive)
  <2>1. h.alive \subseteq Node
    BY DEF IsTree
  <2>2. ASSUME NEW c \in h.alive, h.parent[c] \notin Node \/ c \in K PROVE c \in T
    BY <1>2, <2>2, NullIsNoObject DEF Shifts
  <2>3. ASSUME NEW c \in h.alive, h.parent[c] \in T PROVE c \in T
    <3>1. CASE c \notin g.alive \/ c \in M \/ g.parent[c] = NULL
      BY <1>2, <2>3, <3>1, NullIsNoObject
    <3>2. CASE c \in g.alive /\ g.parent[c] = h.parent[c]
      <4>1. h.parent[c] \in S
        BY <2>1, <2>3, <3>2
      <4>2. QED BY <1>2, <3>2, <4>1
    <3>3. QED BY <2>3, <3>1, <3>2 DEF Shifts
  <2>4. h.alive \subseteq T
    <3> HIDE DEF T
    <3>1. QED BY <2>2, <2>3 DEF Kept, Hangs
  <2>5. QED BY <2>4 DEF Shifts
<1>3. QED BY <1>1, <1>2 DEF Kept, Hangs

\* What is not allocated need not be remembered.
LEMMA KeptMore ==
  ASSUME NEW h, NEW K, NEW L, Kept(h, K), K \cap h.alive \subseteq L
  PROVE  Kept(h, L)
<1>1. \A c \in h.alive : c \in K => c \in L
  OBVIOUS
<1>2. \A c \in h.alive : h.parent[c] = NULL => c \in L \/ c \in Pinned(h)
  BY <1>1 DEF Kept
<1>3. Hangs(h, L)
  BY <1>1 DEF Kept, Hangs
<1>4. QED BY <1>2, <1>3 DEF Kept

\* A node that hangs on a root, and is pinned if it is one, is not lost.
LEMMA KeptRooted ==
  ASSUME NEW h, NEW K, NEW M, Kept(h, K \cup M),
         \A c \in M \cap h.alive : /\ h.parent[c] = NULL => c \in Pinned(h)
                                   /\ c \in Rooted(h)
  PROVE  Kept(h, K)
<1>1. \A c \in h.alive : h.parent[c] = NULL => c \in K \/ c \in Pinned(h)
  BY DEF Kept
<1>2. ASSUME NEW S,
             \A c \in h.alive : h.parent[c] \notin Node \/ c \in K => c \in S,
             \A c \in h.alive : h.parent[c] \in S => c \in S
      PROVE  h.alive \subseteq S
  <2> DEFINE R == {c \in h.alive : h.parent[c] \notin Node}
  <2>1. R \subseteq S
    BY <1>2
  <2> HIDE DEF R
  <2>2. Below(h, R) \subseteq S
    BY <1>2, <2>1, BelowIsLeast
  <2>3. Rooted(h) \subseteq S
    BY <2>2 DEF Rooted, R
  <2>4. \A c \in h.alive : h.parent[c] \notin Node \/ c \in K \cup M => c \in S
    BY <1>2, <2>3
  <2>5. QED BY <1>2, <2>4 DEF Kept, Hangs
<1>3. QED BY <1>1, <1>2 DEF Kept, Hangs

\* A root hangs on itself.
LEMMA RootIsRooted ==
  ASSUME NEW h, NEW c \in h.alive, h.parent[c] \notin Node
  PROVE  c \in Rooted(h)
<1> DEFINE R == {m \in h.alive : h.parent[m] \notin Node}
<1>1. c \in R
  OBVIOUS
<1> HIDE DEF R
<1>2. c \in Below(h, R)
  BY <1>1, BelowIsLeast
<1>3. QED BY <1>2 DEF Rooted, R

\* A node that is put below one that is not below it is not lost any more: B is
\* what is below it.
LEMMA KeptLinked ==
  ASSUME NEW h, NEW K, NEW n \in h.alive, NEW p, IsTree(h), Kept(h, K \cup {n}),
         p \in h.alive \cup Doc,
         NEW B, n \in B, p \notin B,
         \A c \in h.alive : h.parent[c] \in B => c \in B,
         NEW g, g.alive = h.alive, g.pinned = h.pinned, g.parent = [h.parent EXCEPT ![n] = p]
  PROVE  Kept(g, K)
<1>1. /\ h.alive \subseteq Node /\ g.parent[n] = p /\ p # NULL
      /\ \A c \in h.alive : c # n => g.parent[c] = h.parent[c]
  BY NullIsNoObject DEF IsTree
<1>2. Pinned(g) = Pinned(h)
  BY DEF Pinned
<1>3. \A c \in g.alive : g.parent[c] = NULL => c \in K \/ c \in Pinned(g)
  BY <1>1, <1>2 DEF Kept
<1>4. ASSUME NEW S,
             \A c \in g.alive : g.parent[c] \notin Node \/ c \in K => c \in S,
             \A c \in g.alive : g.parent[c] \in S => c \in S
      PROVE  g.alive \subseteq S
  <2> DEFINE T == S \cup B
  <2>1. ASSUME NEW c \in h.alive, h.parent[c] \notin Node \/ c \in K \cup {n} PROVE c \in T
    BY <1>1, <1>4, <2>1
  <2>2. ASSUME NEW c \in h.alive, h.parent[c] \in T PROVE c \in T
    BY <1>1, <1>4, <2>2
  <2>3. h.alive \subseteq T
    <3> HIDE DEF T
    <3>1. QED BY <2>1, <2>2 DEF Kept, Hangs
  <2>4. n \in S
    <3>1. CASE p \in Doc
      BY <1>1, <1>4, <3>1, DistinctSorts
    <3>2. CASE p \in h.alive
      BY <1>1, <1>4, <2>3, <3>2
    <3>3. QED BY <3>1, <3>2
  <2>5. \A c \in h.alive : h.parent[c] \notin Node \/ c \in K \cup {n} => c \in S
    BY <1>1, <1>4, <2>4
  <2>6. \A c \in h.alive : h.parent[c] \in S => c \in S
    BY <1>1, <1>4, <2>4
  <2>7. QED BY <2>5, <2>6 DEF Kept, Hangs
<1>5. QED BY <1>3, <1>4 DEF Kept, Hangs

\* The tree is what matters.
LEMMA KeptSame ==
  ASSUME NEW h, NEW g, NEW K, Kept(h, K),
         g.alive = h.alive, g.parent = h.parent, Pinned(h) \subseteq Pinned(g)
  PROVE  Kept(g, K)
BY DEF Kept, Hangs

\* Every node is freed with its document, or is below a node that a call has lost.
LEMMA KeptIsFreed ==
  ASSUME NEW h, NEW K, h.parent \in [Node -> Node \cup Doc \cup {NULL}], h.alive \subseteq Node,
         Kept(h, K)
  PROVE  h.alive \subseteq Below(h, K \cap h.alive) \cup UNION {FreedWith(h, d) : d \in Doc}
<1> DEFINE S == Below(h, K \cap h.alive) \cup UNION {FreedWith(h, d) : d \in Doc}
           R(d) == {n \in h.alive : h.parent[n] = d \/ (h.parent[n] = NULL /\ n \in h.pinned[d])}
<1>1. ASSUME NEW d \in Doc
      PROVE  /\ R(d) \subseteq FreedWith(h, d)
             /\ \A c \in h.alive : h.parent[c] \in FreedWith(h, d) => c \in FreedWith(h, d)
  <2>1. FreedWith(h, d) = Below(h, R(d))
    BY DEF FreedWith
  <2> HIDE DEF R
  <2>2. QED BY <2>1, BelowIsLeast
<1> HIDE DEF R
<1> DEFINE L == Below(h, K \cap h.alive)
<1>0. /\ L \subseteq S /\ \A d \in Doc : FreedWith(h, d) \subseteq S
      /\ \A x \in S : x \in L \/ \E d \in Doc : x \in FreedWith(h, d)
  OBVIOUS
<1>2. /\ K \cap h.alive \subseteq L
      /\ \A c \in h.alive : h.parent[c] \in L => c \in L
  BY BelowIsLeast
<1> HIDE DEF L, S
<1>3. ASSUME NEW c \in h.alive, h.parent[c] \notin Node \/ c \in K PROVE c \in S
  <2>1. CASE c \in K
    BY <1>0, <1>2, <2>1
  <2>2. CASE h.parent[c] \in Doc
    <3>1. c \in R(h.parent[c])
      BY <2>2 DEF R
    <3>2. QED BY <1>0, <1>1, <2>2, <3>1
  <2>3. CASE h.parent[c] = NULL /\ c \in Pinned(h)
    <3>1. PICK d \in Doc : c \in h.pinned[d]
      BY <2>3 DEF Pinned
    <3>2. c \in R(d)
      BY <2>3, <3>1 DEF R
    <3>3. QED BY <1>0, <1>1, <3>2
  <2>4. QED BY <1>3, <2>1, <2>2, <2>3 DEF Kept
<1>4. ASSUME NEW c \in h.alive, h.parent[c] \in S PROVE c \in S
  <2>1. h.parent[c] \in L \/ \E d \in Doc : h.parent[c] \in FreedWith(h, d)
    BY <1>0, <1>4
  <2>2. c \in L \/ \E d \in Doc : c \in FreedWith(h, d)
    BY <1>1, <1>2, <2>1
  <2>3. QED BY <1>0, <2>2
<1>5. h.alive \subseteq S
  BY <1>3, <1>4 DEF Kept, Hangs
<1>6. QED BY <1>5 DEF S

-----------------------------------------------------------------------------
(* New nodes and copies.                                                   *)

\* the nodes B, which hold n, are no old ones, and hold what is below them
Apart(h, g, n, B) ==
  /\ n \in B /\ B \cap h.alive = {} /\ B \cap Doc = {}
  /\ \A m \in g.alive : g.parent[m] \in B => m \in B

\* the nodes S are R and what is below R
Spans(h, R, S) ==
  /\ S \subseteq h.alive /\ R \subseteq S
  /\ \A m \in h.alive : h.parent[m] \in S => m \in S
  /\ \A T : R \subseteq T /\ (\A m \in h.alive : h.parent[m] \in T => m \in T) => S \subseteq T

Image(f, R) == {f[y] : y \in R}

\* A new node is the only one that nothing holds yet.
LEMMA KeptNew ==
  ASSUME NEW h, NEW g, NEW K, h \in Heap, IsTree(h), Kept(h, K), NEW n \in h.fresh,
         NEW k \in Kind, NEW d \in Doc, g = xmlNewNode(h, n, k, d)
  PROVE  Kept(g, K \cup {n}) /\ Apart(h, g, n, {n})
<1>1. HasNew(h, g, n, k, d) /\ n \in Node
  BY NewNodeFields DEF IsTree
<1>2. /\ g.alive = h.alive \cup {n} /\ g.parent[n] = NULL /\ n \notin h.alive
      /\ \A m \in h.alive : g.parent[m] = h.parent[m] /\ h.parent[m] # n
      /\ Pinned(g) = Pinned(h)
  BY <1>1 DEF HasNew, IsTree, Pinned
<1>3. \A m \in g.alive : g.parent[m] = NULL => m \in K \cup {n} \/ m \in Pinned(g)
  BY <1>2 DEF Kept
<1>4. ASSUME NEW S,
             \A m \in g.alive : g.parent[m] \notin Node \/ m \in K \cup {n} => m \in S,
             \A m \in g.alive : g.parent[m] \in S => m \in S
      PROVE  g.alive \subseteq S
  <2>1. \A m \in h.alive : /\ h.parent[m] \notin Node \/ m \in K => m \in S
                           /\ h.parent[m] \in S => m \in S
    BY <1>2, <1>4
  <2>2. h.alive \subseteq S
    BY <2>1 DEF Kept, Hangs
  <2>3. QED BY <1>2, <1>4, <2>2
<1>5. Apart(h, g, n, {n})
  BY <1>1, <1>2, DistinctSorts, NullIsNoObject DEF Apart
<1>6. QED BY <1>3, <1>4, <1>5 DEF Kept, Hangs

\* The copies of the nodes below R hang on the copies of R.
LEMMA KeptCopy ==
  ASSUME NEW h, NEW g, NEW K, IsTree(h), Kept(h, K),
         NEW R, NEW S, Spans(h, R, S),
         NEW f \in [S -> h.fresh], NEW d, Copies(h, g, f, d)
  PROVE  /\ Kept(g, K \cup Image(f, R))
         /\ \A y \in S : Apart(h, g, f[y], Image(f, S))
<1> DEFINE N == Image(f, R)
           B == Image(f, S)
<1>0. /\ S \subseteq h.alive /\ R \subseteq S
      /\ \A m \in h.alive : h.parent[m] \in S => m \in S
      /\ \A T : R \subseteq T /\ (\A m \in h.alive : h.parent[m] \in T => m \in T) => S \subseteq T
  BY DEF Spans
<1>1. DOMAIN f = S
  OBVIOUS
<1>2. /\ h.alive \subseteq g.alive
      /\ \A m \in g.alive : m \in h.alive \/ \E y \in S : m = f[y]
      /\ \A y \in S : /\ f[y] \in h.fresh /\ f[y] \in Node /\ f[y] \in g.alive
                      /\ g.parent[f[y]] = IF h.parent[y] \in S THEN f[h.parent[y]] ELSE NULL
  BY <1>1 DEF Copies
<1>3. \A m \in h.alive : m \in Node \ h.fresh /\ h.parent[m] \notin h.fresh
  BY DEF IsTree
<1>4. \A m \in h.alive : g.parent[m] = h.parent[m]
  BY <1>3 DEF Copies
<1>5. Pinned(g) = Pinned(h)
  BY DEF Copies, Pinned
<1>6. \A y \in S : y \in R \/ h.parent[y] \in S
  <2> DEFINE T == {y \in S : y \in R \/ h.parent[y] \in S}
  <2>1. R \subseteq T /\ \A m \in h.alive : h.parent[m] \in T => m \in T
    BY <1>0
  <2>2. S \subseteq T
    <3> HIDE DEF T
    <3>1. QED BY <1>0, <2>1
  <2>3. QED BY <2>2
<1>7. (\A y \in R : f[y] \in N) /\ (\A y \in S : f[y] \in B) /\ (\A b \in B : \E y \in S : b = f[y])
  BY DEF Image
<1> HIDE DEF N, B
<1>8. \A m \in g.alive : g.parent[m] = NULL => m \in K \cup N \/ m \in Pinned(g)
  <2>1. SUFFICES ASSUME NEW m \in g.alive, g.parent[m] = NULL
                 PROVE  m \in K \cup N \/ m \in Pinned(g)
    OBVIOUS
  <2>2. CASE m \in h.alive
    BY <1>4, <1>5, <2>1, <2>2 DEF Kept
  <2>3. ASSUME NEW y \in S, m = f[y] PROVE m \in N
    <3>1. h.parent[y] \notin S
      BY <1>2, <2>1, <2>3, NullIsNoObject
    <3>2. QED BY <1>6, <1>7, <2>3, <3>1
  <2>4. QED BY <1>2, <2>2, <2>3
<1>9. ASSUME NEW Z,
             \A m \in g.alive : g.parent[m] \notin Node \/ m \in K \cup N => m \in Z,
             \A m \in g.alive : g.parent[m] \in Z => m \in Z
      PROVE  g.alive \subseteq Z
  <2>1. h.alive \subseteq Z
    <3>1. \A m \in h.alive : /\ h.parent[m] \notin Node \/ m \in K => m \in Z
                             /\ h.parent[m] \in Z => m \in Z
      BY <1>2, <1>4, <1>9
    <3>2. QED BY <3>1 DEF Kept, Hangs
  <2> DEFINE T == {y \in S : f[y] \in Z}
  <2>2. R \subseteq T
    BY <1>0, <1>2, <1>7, <1>9
  <2>3. \A m \in h.alive : h.parent[m] \in T => m \in T
    <3>1. SUFFICES ASSUME NEW m \in h.alive, h.parent[m] \in S, f[h.parent[m]] \in Z
                   PROVE  m \in S /\ f[m] \in Z
      OBVIOUS
    <3>2. m \in S
      BY <1>0, <3>1
    <3>3. QED BY <1>2, <1>9, <3>1, <3>2
  <2>4. S \subseteq T
    <3> HIDE DEF T
    <3>1. QED BY <1>0, <2>2, <2>3
  <2>5. QED BY <1>2, <2>1, <2>4
<1>10. Kept(g, K \cup N)
  BY <1>8, <1>9 DEF Kept, Hangs
<1>11. /\ B \cap h.alive = {} /\ B \cap Doc = {}
       /\ \A m \in g.alive : g.parent[m] \in B => m \in B
  <2>1. \A b \in B : b \in h.fresh /\ b \in Node
    BY <1>2, <1>7
  <2>2. B \cap h.alive = {} /\ B \cap Doc = {}
    BY <1>3, <2>1, DistinctSorts
  <2>3. ASSUME NEW m \in g.alive, g.parent[m] \in B PROVE m \in B
    <3>1. m \notin h.alive
      BY <1>3, <1>4, <2>1, <2>3
    <3>2. QED BY <1>2, <1>7, <3>1
  <2>4. QED BY <2>2, <2>3
<1>12. \A y \in S : Apart(h, g, f[y], B)
  BY <1>7, <1>11 DEF Apart
<1>13. QED BY <1>10, <1>12 DEF N, B

\* The copy of a node, with what is below it, hangs on itself.
LEMMA KeptNodeCopy ==
  ASSUME NEW h, NEW D, NEW x, Sound(h, D, x), NEW K, Kept(h, K), NEW n \in h.alive,
         CanCopy(h, n), NEW d \in Doc,
         NEW g, g = xmlDocCopyNode(h, n, d), NEW c, c = CopyOf(h, n)
  PROVE  Kept(g, K \cup {c}) /\ \E B : Apart(h, g, c, B)
<1> DEFINE S == Subtree(h, n)
           f == CopyMap(h, S)
           R == {n}
<1>1. Spans(h, R, S)
  BY BelowIsLeast DEF Spans, Subtree
<1>2. n \in S
  BY <1>1 DEF Spans
<1>3. RoomFor(h, S)
  BY DEF CanCopy
<1> HIDE DEF S
<1>4. f \in [S -> h.fresh] /\ Injective(f)
  BY <1>3 DEF RoomFor, CopyMap
<1>5. g = CopyBy(h, f, d) /\ c = f[n]
  BY DEF xmlDocCopyNode, CopyOf, S
<1> HIDE DEF f
<1>6. Copies(h, g, f, d) /\ IsTree(h)
  <2>1. S \in SUBSET h.alive /\ \A m \in h.alive : h.parent[m] \in S => m \in S
    BY <1>1 DEF Spans
  <2>2. QED BY <1>4, <1>5, <2>1, CopyFields, SoundIsTree
<1>7. Image(f, R) = {c}
  BY <1>5 DEF Image
<1> HIDE DEF R
<1>8. /\ Kept(g, K \cup Image(f, R))
      /\ \A y \in S : Apart(h, g, f[y], Image(f, S))
  BY <1>1, <1>4, <1>6, KeptCopy
<1>9. QED BY <1>2, <1>5, <1>7, <1>8

-----------------------------------------------------------------------------
(* The operations that put a node into no tree.                            *)

\* Between sound heaps.
LEMMA SoundShift ==
  ASSUME NEW h, NEW g, NEW D, NEW E, NEW x, NEW y, Sound(h, D, x), Sound(g, E, y),
         NEW K, NEW M, Kept(h, K), Shifts(h, g, M)
  PROVE  Kept(g, K \cup M)
<1>1. IsTree(h)
  BY SoundIsTree
<1>2. \A c \in g.alive : g.parent[c] \in Node => g.parent[c] \in g.alive
  BY DEF Sound, Upward
<1>3. QED BY <1>1, <1>2, KeptShift

\* A node that is unlinked and pinned is not lost.
LEMMA PinnedOffShifts ==
  ASSUME NEW h, IsTree(h), NEW n \in Node, NEW g, g = UnlinkAndPin(h, n)
  PROVE  /\ Shifts(h, g, {})
         /\ g.alive = h.alive /\ g.parent = [h.parent EXCEPT ![n] = NULL] /\ n \in Pinned(g)
<1> DEFINE k == xmlUnlinkNode(h, n)
<1>1. g = noko_xml_document_pin_node(k, n)
  BY DEF UnlinkAndPin
<1>2. /\ Shifts(h, k, {n}) /\ k.alive = h.alive
      /\ k.parent = [h.parent EXCEPT ![n] = NULL]
  BY UnlinkShifts
<1>3. IsTree(k)
  BY <1>2 DEF Shifts
<1> HIDE DEF k
<1>4. Shifts(k, g, {}) /\ g.alive = k.alive /\ g.parent = k.parent /\ n \in Pinned(g)
  BY <1>1, <1>3, PinShifts
<1>5. Shifts(h, g, {n} \cup {})
  BY <1>2, <1>4, ShiftsCompose
<1>6. g.parent[n] = NULL
  BY <1>2, <1>4 DEF IsTree
<1>7. Shifts(h, g, {})
  BY <1>4, <1>5, <1>6 DEF Shifts
<1>8. QED BY <1>2, <1>4, <1>7

\* Wrapping a node leaves the tree as it is.
LEMMA WrapKept ==
  ASSUME NEW h, IsTree(h), NEW n, NEW g, g = noko_xml_node_wrap(h, n), NEW K, Kept(h, K)
  PROVE  Kept(g, K)
<1>1. g.alive = h.alive /\ g.parent = h.parent /\ g.pinned = h.pinned
  BY DEF IsTree, noko_xml_node_wrap, Bind
<1>2. QED BY <1>1, KeptSame DEF Pinned

\* Navigation.
LEMMA NavigateKeeps == IInv /\ Kept(heap, lost) /\ Navigate => Kept(heap', lost')
<1> SUFFICES ASSUME IInv, Kept(heap, lost), Navigate PROVE Kept(heap', lost')
  OBVIOUS
<1>1. lost' = lost /\ (heap' = heap \/ \E n \in Node : heap' = noko_xml_node_wrap(heap, n))
  BY DEF Navigate, Return
<1>2. IsTree(heap)
  BY SoundIsTree DEF IInv
<1>3. QED BY <1>1, <1>2, WrapKept

\* Node.new and its kin.
LEMMA NewNodeKeeps == IInv /\ Kept(heap, lost) /\ NewNode => Kept(heap', lost')
<1> SUFFICES ASSUME IInv, Kept(heap, lost), NewNode PROVE Kept(heap', lost')
  OBVIOUS
<1>1. PICK d \in HeldDocs, kd \in NewKinds :
        /\ heap.fresh # {}
        /\ LET n == malloc(heap)
           IN  Return(noko_xml_document_pin_node(xmlNewNode(heap, n, kd, d), n), n)
        /\ UNCHANGED <<dstate, lost>>
  BY DEF NewNode
<1> DEFINE n == malloc(heap)
           k == xmlNewNode(heap, n, kd, d)
           g == noko_xml_document_pin_node(k, n)
<1>2. heap \in Heap /\ IsTree(heap) /\ d \in Doc /\ dstate[d] = "live" /\ Sound(heap, dstate, NULL)
  BY HeldAreUsable, SoundIsTree DEF IInv
<1>3. n \in heap.fresh /\ kd \in Kind
  BY <1>1, <1>2, MallocIsFresh, NewKindsAreKinds
<1>4. heap' = noko_xml_node_wrap(g, n) /\ lost' = lost
  BY <1>1 DEF Return
<1> HIDE DEF n
<1>5. Kept(k, lost \cup {n})
  BY <1>2, <1>3, KeptNew
<1>6. Sound(k, dstate, NULL) /\ n \in Node /\ k.parent[n] = NULL
  BY <1>2, <1>3, NewNodeSound
<1> HIDE DEF k
<1>7. IsTree(k)
  BY <1>6, SoundIsTree
<1>8. Shifts(k, g, {}) /\ g.alive = k.alive /\ g.parent = k.parent /\ n \in Pinned(g)
  BY <1>6, <1>7, PinShifts
<1> HIDE DEF g
<1>9. Kept(g, lost \cup {n}) /\ IsTree(g)
  BY <1>5, <1>8, KeptSame DEF Shifts
<1>10. \A c \in {n} \cap g.alive : /\ g.parent[c] = NULL => c \in Pinned(g)
                                   /\ c \in Rooted(g)
  BY <1>6, <1>8, RootIsRooted, NullIsNoObject
<1>11. Kept(g, lost)
  BY <1>9, <1>10, KeptRooted
<1>12. QED BY <1>4, <1>9, <1>11, WrapKept

\* Node#unlink.
LEMMA UnlinkKeeps == IInv /\ Kept(heap, lost) /\ unlink_node => Kept(heap', lost')
<1> SUFFICES ASSUME IInv, Kept(heap, lost), unlink_node PROVE Kept(heap', lost')
  OBVIOUS
<1>1. PICK w \in HeldWrappers :
        heap' = UnlinkAndPin(heap, heap.ptr[w]) /\ UNCHANGED <<dstate, held, lost>>
  BY DEF unlink_node
<1>2. heap.ptr[w] \in Node /\ Sound(heap, dstate, NULL) /\ IsTree(heap)
  BY HeldAreUsable, SoundIsTree DEF IInv
<1>3. Shifts(heap, heap', {})
  BY <1>1, <1>2, PinnedOffShifts
<1>4. Sound(heap', dstate', NULL)
  BY UnlinkInv DEF IInv
<1>5. Kept(heap', lost \cup {})
  BY <1>2, <1>3, <1>4, SoundShift
<1>6. lost' = lost \cup {}
  BY <1>1
<1>7. QED BY <1>5, <1>6

\* A node gets a wrapper.
LEMMA BindShifts ==
  ASSUME NEW h, IsTree(h), NEW w, NEW n, NEW g, g = Bind(h, w, n)
  PROVE  Shifts(h, g, {})
<1> DEFINE pr == [h.priv EXCEPT ![n] = w]
           pt == [h.ptr EXCEPT ![w] = n]
           ca == [h.cache EXCEPT ![h.doc[n]] = @ \cup {w}]
<1>1. g = [fresh |-> h.fresh, alive |-> h.alive, kind |-> h.kind, doc |-> h.doc,
           parent |-> h.parent, kids |-> h.kids, priv |-> pr, ptr |-> pt,
           pinned |-> h.pinned, cache |-> ca]
  BY DEF IsTree, Bind
<1> HIDE DEF pr, pt, ca
<1>2. IsTree(g)
  BY <1>1 DEF IsTree
<1>3. QED BY <1>1, <1>2 DEF Shifts, Pinned

\* A copy that is given a wrapper and pinned.
LEMMA CopiedKeeps ==
  ASSUME NEW h, Sound(h, dstate, NULL), NEW c \in h.alive, h.parent[c] = NULL,
         NEW K, Kept(h, K \cup {c}), Copied(h, c)
  PROVE  Kept(heap', K)
<1> DEFINE k == Bind(h, NewWrapper(heap), c)
<1>1. heap' = noko_xml_document_pin_node(k, c) /\ IsTree(h) /\ c \in Node
  BY SoundIsTree DEF Copied, Sound, Heap
<1>2. k.alive = h.alive /\ k.parent = h.parent /\ k.pinned = h.pinned
  BY <1>1 DEF Bind, IsTree
<1>3. Shifts(h, k, {})
  BY <1>1, BindShifts
<1> HIDE DEF k
<1>4. IsTree(k)
  BY <1>3 DEF Shifts
<1>5. /\ Shifts(k, heap', {}) /\ heap'.alive = k.alive /\ heap'.parent = k.parent
      /\ c \in Pinned(heap')
  BY <1>1, <1>4, PinShifts
<1>6. Pinned(h) \subseteq Pinned(heap')
  BY <1>2, <1>3, <1>5 DEF Shifts, Pinned
<1>7. Kept(heap', K \cup {c})
  BY <1>2, <1>3, <1>5, <1>6, KeptSame
<1>8. \A m \in {c} \cap heap'.alive : /\ heap'.parent[m] = NULL => m \in Pinned(heap')
                                      /\ m \in Rooted(heap')
  BY <1>2, <1>3, <1>5, RootIsRooted, NullIsNoObject
<1>9. QED BY <1>7, <1>8, KeptRooted

\* Node#dup and the other copies into a document.
LEMMA CopyKeeps ==
  IInv /\ Kept(heap, lost) /\ initialize_copy_with_args => Kept(heap', lost')
<1> SUFFICES ASSUME IInv, Kept(heap, lost), initialize_copy_with_args PROVE Kept(heap', lost')
  OBVIOUS
<1>1. PICK w \in HeldWrappers, d \in HeldDocs :
        LET n == heap.ptr[w]
        IN  /\ \/ CanCopy(heap, n) /\ Copied(xmlDocCopyNode(heap, n, d), CopyOf(heap, n))
               \/ /\ heap.kind[n] # Attr
                  /\ heap.fresh # {}
                  /\ Copied(xmlNewNode(heap, malloc(heap), heap.kind[n], d), malloc(heap))
            /\ UNCHANGED <<dstate, lost>>
  BY DEF initialize_copy_with_args
<1> DEFINE n == heap.ptr[w]
           c == CopyOf(heap, n)
           m == malloc(heap)
           p == xmlDocCopyNode(heap, n, d)
           q == xmlNewNode(heap, m, heap.kind[n], d)
<1>2. /\ n \in heap.alive /\ n \in Node /\ Sound(heap, dstate, NULL) /\ heap \in Heap
      /\ d \in Doc /\ dstate[d] = "live" /\ IsTree(heap) /\ heap.kind[n] \in Kind
  BY HeldAreUsable, SoundIsTree DEF IInv, Heap
<1>3. lost' = lost
  BY <1>1
<1>4. CASE CanCopy(heap, n) /\ Copied(p, c)
  <2>1. /\ Sound(p, dstate, NULL) /\ c \in p.alive /\ p.parent[c] = NULL
    <3> HIDE DEF n
    <3> QED BY <1>2, <1>4, CopyNodeSound
  <2>2. Kept(p, lost \cup {c})
    <3> HIDE DEF n
    <3> QED BY <1>2, <1>4, KeptNodeCopy
  <2> HIDE DEF p, c
  <2>3. QED BY <1>3, <1>4, <2>1, <2>2, CopiedKeeps
<1>5. CASE heap.fresh # {} /\ Copied(q, m)
  <2>1. m \in heap.fresh
    BY <1>2, <1>5, MallocIsFresh
  <2> HIDE DEF m, n
  <2>2. Sound(q, dstate, NULL) /\ m \in q.alive /\ q.parent[m] = NULL
    BY <1>2, <2>1, NewNodeSound
  <2>3. Kept(q, lost \cup {m})
    BY <1>2, <2>1, KeptNew
  <2> HIDE DEF q
  <2>4. QED BY <1>2, <1>3, <1>5, <2>2, <2>3, CopiedKeeps
<1>6. QED BY <1>1, <1>4, <1>5

-----------------------------------------------------------------------------
(* Setting the value of an attribute or the content of a node.             *)

\* The children that are freed are gone, the others are pinned.
LEMMA ClearShifts ==
  ASSUME NEW h, h \in Heap, IsTree(h), NEW p \in Node,
         NEW keep, keep \subseteq Members(h.kids[p]),
         NEW g, g = ClearChildren(h, p, keep)
  PROVE  Shifts(h, g, {})
<1> DEFINE all == Members(h.kids[p])
           up == [n \in Node |-> IF n \in all THEN NULL ELSE h.parent[n]]
           ks == [h.kids EXCEPT ![p] = <<>>]
           pn == [h.pinned EXCEPT ![h.doc[p]] = @ \cup keep]
<1>1. g = [fresh |-> h.fresh, alive |-> h.alive \ (all \ keep), kind |-> h.kind, doc |-> h.doc,
           parent |-> up, kids |-> ks, priv |-> h.priv, ptr |-> h.ptr,
           pinned |-> pn, cache |-> h.cache]
  BY DEF IsTree, ClearChildren
<1>2. h.doc[p] \in Doc /\ keep \subseteq Node
  <2>1. h.kids[p] \in Seq(Node)
    BY DEF Heap
  <2>2. all \subseteq Node
    BY <2>1, MembersOfSeq
  <2>3. QED BY <2>2 DEF IsTree
<1> HIDE DEF all, ks
<1>3. /\ pn \in [Doc -> SUBSET Node] /\ keep \subseteq pn[h.doc[p]]
      /\ \A d \in Doc : h.pinned[d] \subseteq pn[d]
  BY <1>2 DEF IsTree
<1>4. /\ up \in [Node -> Node \cup Doc \cup {NULL}]
      /\ \A c \in h.alive : up[c] \notin h.fresh
      /\ \A c \in h.alive : IF c \in all THEN up[c] = NULL ELSE up[c] = h.parent[c]
  BY NullIsNoObject DEF IsTree
<1> HIDE DEF pn, up
<1>5. IsTree(g)
  BY <1>1, <1>3, <1>4 DEF IsTree
<1>6. Pinned(h) \subseteq Pinned(g) /\ keep \subseteq Pinned(g)
  BY <1>1, <1>2, <1>3 DEF Pinned
<1>7. \A c \in g.alive : c \in h.alive /\ (c \in all => c \in keep)
  BY <1>1
<1>8. \A m \in g.alive : g.parent[m] = h.parent[m] \/ (g.parent[m] = NULL /\ m \in Pinned(g))
  BY <1>1, <1>4, <1>6, <1>7, SMTT(30)
<1>9. g.fresh = h.fresh /\ g.doc = h.doc /\ g.alive \subseteq h.alive
  BY <1>1
<1>10. \A m \in g.alive : \/ m \in {}
                          \/ g.parent[m] = h.parent[m]
                          \/ g.parent[m] = NULL /\ m \in Pinned(g)
  BY <1>8
<1>11. QED BY <1>5, <1>6, <1>9, <1>10 DEF Shifts

\* A new node, or a copy, that is linked below an old node is not lost.
LEMMA LinkApartKeeps ==
  ASSUME NEW h, NEW k, IsTree(k), NEW K, NEW n \in k.alive, Kept(k, K \cup {n}),
         NEW B, Apart(h, k, n, B), NEW p, p \in h.alive \cup Doc, p \in k.alive \cup Doc,
         NEW i, NEW g, g = Link(k, p, i, n)
  PROVE  Kept(g, K)
<1>1. n \in Node /\ p \in Node \cup Doc /\ p \notin k.fresh
  BY DistinctSorts DEF IsTree
<1>2. /\ Shifts(k, g, {n})
      /\ g.alive = k.alive /\ g.parent = [k.parent EXCEPT ![n] = p] /\ g.pinned = k.pinned
  BY <1>1, LinkShifts
<1>3. n \in B /\ p \notin B /\ \A c \in k.alive : k.parent[c] \in B => c \in B
  BY DEF Apart
<1>4. QED BY <1>2, <1>3, KeptLinked

\* The new text of an element or of an attribute.
LEMMA SetTextKeeps ==
  ASSUME NEW h, NEW D, NEW x, Sound(h, D, x), NEW K, Kept(h, K), NEW p \in h.alive,
         D[h.doc[p]] = "live", h.fresh # {}, NEW g, g = SetText(h, p)
  PROVE  Kept(g, K)
<1> DEFINE n == malloc(h)
           k == xmlNewNode(h, n, Text, h.doc[p])
<1>1. h \in Heap /\ IsTree(h) /\ h.doc[p] \in Doc /\ Text \in Kind
  BY SoundIsTree DEF Sound, Heap, Kind
<1>2. n \in h.fresh
  BY MallocIsFresh
<1>3. g = Link(k, p, 1, n)
  BY DEF SetText
<1> HIDE DEF n
<1>4. Kept(k, K \cup {n}) /\ Apart(h, k, n, {n})
  BY <1>1, <1>2, KeptNew
<1>5. Sound(k, D, x) /\ n \in k.alive /\ p \in k.alive
  BY <1>1, <1>2, NewNodeSound
<1>6. IsTree(k)
  BY <1>5, SoundIsTree
<1> HIDE DEF k
<1>7. QED BY <1>3, <1>4, <1>5, <1>6, LinkApartKeeps

\* A value without or with a text is set in the heap h.
LEMMA ValueKeeps ==
  ASSUME IInv, Kept(heap, lost),
         NEW p \in heap.alive, heap.kind[p] \in {Elem, Attr}, dstate[heap.doc[p]] = "live",
         NEW keep \in SUBSET Members(heap.kids[p]),
         \A n \in Members(heap.kids[p]) \ keep :
           heap.kind[n] \in {Text, Blank, Ref} /\ Spare(heap, n),
         NEW h, h = ClearChildren(heap, p, keep),
         NEW g, g = h \/ (heap.fresh # {} /\ g = SetText(h, p))
  PROVE  Kept(g, lost)
<1>1. Sound(heap, dstate, NULL) /\ IsTree(heap) /\ heap \in Heap /\ p \in Node
  BY SoundIsTree DEF IInv, Sound, Heap
<1>2. Sound(h, dstate, NULL) /\ h.fresh = heap.fresh /\ h.doc = heap.doc /\ p \in h.alive
  BY <1>1, ClearSound
<1>3. Shifts(heap, h, {})
  BY <1>1, ClearShifts
<1>4. Kept(h, lost \cup {})
  BY <1>1, <1>2, <1>3, SoundShift
<1>5. Kept(h, lost)
  BY <1>4, KeptMore
<1>6. CASE heap.fresh # {} /\ g = SetText(h, p)
  BY <1>2, <1>5, <1>6, SetTextKeeps
<1>7. QED BY <1>5, <1>6

\* Attr#value=.
LEMMA AttrSetValueKeeps ==
  IInv /\ Kept(heap, lost) /\ noko_xml_attr_set_value => Kept(heap', lost')
<1> SUFFICES ASSUME IInv, Kept(heap, lost), noko_xml_attr_set_value PROVE Kept(heap', lost')
  OBVIOUS
<1>1. PICK w \in HeldWrappers :
        LET a == heap.ptr[w]
            h == ClearChildren(heap, a, WrappedChildren(heap, a))
        IN  /\ heap.kind[a] = Attr
            /\ \/ heap' = h
               \/ heap.fresh # {} /\ heap' = SetText(h, a)
            /\ UNCHANGED <<dstate, held, lost>>
  BY DEF noko_xml_attr_set_value
<1> DEFINE a == heap.ptr[w]
           keep == WrappedChildren(heap, a)
           h == ClearChildren(heap, a, keep)
<1>2. /\ Sound(heap, dstate, NULL) /\ a \in heap.alive /\ heap.kind[a] = Attr
      /\ dstate[heap.doc[a]] = "live"
  BY <1>1, HeldAreUsable
<1>3. heap' = h \/ (heap.fresh # {} /\ heap' = SetText(h, a))
  BY <1>1
<1>4. lost' = lost
  BY <1>1
<1> HIDE DEF a
<1>5. \A n \in Members(heap.kids[a]) \ keep :
        heap.kind[n] \in {Text, Blank, Ref} /\ Spare(heap, n)
  BY <1>2, AttrChildren DEF WrappedChildren
<1>6. keep \subseteq Members(heap.kids[a])
  BY DEF WrappedChildren
<1> HIDE DEF keep, h
<1>7. h = ClearChildren(heap, a, keep)
  BY DEF h
<1>8. Kept(heap', lost)
  BY <1>2, <1>3, <1>5, <1>6, <1>7, ValueKeeps
<1>9. QED BY <1>4, <1>8

\* Node#native_content=.
LEMMA NativeContentKeeps ==
  IInv /\ Kept(heap, lost) /\ set_native_content => Kept(heap', lost')
<1> SUFFICES ASSUME IInv, Kept(heap, lost), set_native_content PROVE Kept(heap', lost')
  OBVIOUS
<1>1. PICK w \in HeldWrappers :
        LET n == heap.ptr[w]
            h == ClearChildren(heap, n, Members(heap.kids[n]))
        IN  /\ \/ heap.kind[n] \in {Elem, Attr} /\ heap' = h
               \/ heap.kind[n] \in {Elem, Attr} /\ heap.fresh # {} /\ heap' = SetText(h, n)
               \/ IsText(heap, n) /\ \E k \in {Text, Blank} : heap' = [heap EXCEPT !.kind[n] = k]
            /\ UNCHANGED <<dstate, held, lost>>
  BY DEF set_native_content
<1> DEFINE n == heap.ptr[w]
           keep == Members(heap.kids[n])
           h == ClearChildren(heap, n, keep)
<1>2. /\ Sound(heap, dstate, NULL) /\ n \in heap.alive /\ IsTree(heap)
      /\ dstate[heap.doc[n]] = "live"
  BY HeldAreUsable, SoundIsTree DEF IInv
<1>3. lost' = lost
  BY <1>1
<1>4. CASE /\ heap.kind[n] \in {Elem, Attr}
           /\ heap' = h \/ (heap.fresh # {} /\ heap' = SetText(h, n))
  <2>1. keep \subseteq Members(heap.kids[n]) /\ h = ClearChildren(heap, n, keep)
        /\ \A m \in Members(heap.kids[n]) \ keep :
             heap.kind[m] \in {Text, Blank, Ref} /\ Spare(heap, m)
    OBVIOUS
  <2> HIDE DEF n, keep, h
  <2>2. Kept(heap', lost)
    BY <1>2, <1>4, <2>1, ValueKeeps
  <2>3. QED BY <1>3, <2>2
<1>5. CASE IsText(heap, n) /\ \E k \in {Text, Blank} : heap' = [heap EXCEPT !.kind[n] = k]
  <2>1. heap'.alive = heap.alive /\ heap'.parent = heap.parent /\ heap'.pinned = heap.pinned
    BY <1>2, <1>5 DEF IsTree
  <2>2. QED BY <1>3, <2>1, KeptSame DEF Pinned
<1>6. QED BY <1>1, <1>4, <1>5

\* Node#[]=.
LEMMA SetKeeps ==
  ASSUME IInv, Kept(heap, lost), NEW w \in HeldWrappers, OneWrappedChild(w), set(w)
  PROVE  Kept(heap', lost')
<1> DEFINE n == heap.ptr[w]
           a == Prop(heap, n)
           b == malloc(heap)
<1>1. /\ heap.kind[n] = Elem /\ heap.fresh # {}
      /\ Prop(heap, n) = NULL => heap.fresh # {malloc(heap)}
      /\ heap' = SetProp(heap, n) /\ lost' = lost
  BY DEF set
<1>2. Prop(heap, n) # NULL => \A x, y \in WrappedChildren(heap, Prop(heap, n)) : x = y
  BY DEF OneWrappedChild
<1>3. /\ Sound(heap, dstate, NULL) /\ IsTree(heap) /\ heap \in Heap
      /\ n \in heap.alive /\ n \in Node /\ heap.doc[n] \in Doc /\ dstate[heap.doc[n]] = "live"
      /\ Attr \in Kind
  BY HeldAreUsable, SoundIsTree DEF IInv, Kind
<1> HIDE DEF n
<1>4. CASE a # NULL
  <2> DEFINE keep == WrappedChildren(heap, a)
             h == ClearChildren(heap, a, keep)
  <2>1. a \in heap.alive /\ heap.kind[a] = Attr /\ heap.parent[a] = n
    BY <1>3, <1>4, PropOfElement
  <2>2. dstate[heap.doc[a]] = "live"
    BY <1>3, <2>1 DEF Sound, Upward
  <2>3. FirstWrappedChild(heap, a) = keep
    BY <1>2, <1>3, <1>4, <2>1, FirstIsOnly
  <2>4. heap' = SetText(h, a)
    BY <1>1, <1>4, <2>3 DEF SetProp
  <2> HIDE DEF a
  <2>5. keep \subseteq Members(heap.kids[a])
    BY DEF WrappedChildren
  <2>6. \A c \in Members(heap.kids[a]) \ keep :
          heap.kind[c] \in {Text, Blank, Ref} /\ Spare(heap, c)
    BY <1>3, <2>1, AttrChildren DEF WrappedChildren
  <2> HIDE DEF keep
  <2>7. h = ClearChildren(heap, a, keep)
    OBVIOUS
  <2> HIDE DEF h
  <2>8. Kept(heap', lost)
    BY <1>1, <2>1, <2>2, <2>4, <2>5, <2>6, <2>7, ValueKeeps
  <2>9. QED BY <1>1, <2>8
<1>5. CASE a = NULL
  <2> DEFINE k == xmlNewNode(heap, b, Attr, heap.doc[n])
             l == [k EXCEPT !.parent[b] = n]
  <2>1. b \in heap.fresh
    BY <1>1, <1>3, MallocIsFresh
  <2>2. heap' = SetText(l, b) /\ heap.fresh # {b}
    BY <1>1, <1>5 DEF SetProp
  <2> HIDE DEF a, b
  <2>3. /\ Sound(k, dstate, NULL)
        /\ Keeps(heap, k)
        /\ b \in Node /\ b \in k.alive /\ Spare(k, b)
        /\ k.fresh = heap.fresh \ {b} /\ k.pinned = heap.pinned
        /\ k.parent[b] = NULL /\ k.kind[b] = Attr /\ k.doc[b] = heap.doc[n] /\ k.kids[b] = <<>>
        /\ \A m \in heap.alive : /\ m \in k.alive /\ SameNode(heap, k, m)
                                 /\ k.doc[m] = heap.doc[m] /\ k.parent[m] = heap.parent[m]
        /\ \A q \in Node \cup Doc : q # b => k.kids[q] = heap.kids[q]
    BY <1>3, <2>1, NewNodeSound
  <2>4. Kept(k, lost \cup {b}) /\ Apart(heap, k, b, {b}) /\ IsTree(k)
    BY <1>3, <2>1, <2>3, KeptNew, SoundIsTree
  <2> HIDE DEF k
  <2>5. n \in k.alive /\ k.kind[n] = Elem /\ k.doc[n] = k.doc[b] /\ n # b
    BY <1>1, <1>3, <2>3 DEF SameNode, Elem, Attr
  <2>6. /\ Sound(l, dstate, NULL)
        /\ l.fresh = k.fresh /\ l.alive = k.alive /\ l.kind = k.kind /\ l.doc = k.doc
    BY <2>3, <2>5, AttachSound
  <2>7. l.parent = [k.parent EXCEPT ![b] = n] /\ l.pinned = k.pinned
    BY <2>4 DEF IsTree
  <2> HIDE DEF l
  <2>8. Kept(l, lost)
    <3> DEFINE B == {b}
    <3>1. b \in B /\ n \notin B /\ \A c \in k.alive : k.parent[c] \in B => c \in B
      BY <2>4, <2>5 DEF Apart
    <3> HIDE DEF B
    <3>2. IsTree(k) /\ b \in k.alive /\ n \in k.alive \cup Doc /\ Kept(k, lost \cup {b})
      BY <2>3, <2>4, <2>5
    <3>3. l.alive = k.alive
      BY <2>6
    <3>4. QED BY <2>7, <3>1, <3>2, <3>3, KeptLinked
  <2>9. l.fresh # {} /\ b \in l.alive /\ dstate[l.doc[b]] = "live"
    BY <1>3, <2>1, <2>2, <2>3, <2>6
  <2>10. Kept(heap', lost)
    BY <2>2, <2>6, <2>8, <2>9, SetTextKeeps
  <2>11. QED BY <1>1, <2>10
<1>6. QED BY <1>4, <1>5

-----------------------------------------------------------------------------
(* Node#do_xinclude, documents and the collector.                          *)

\* Node#do_xinclude: what takes the place of the <xi:include> node is in the tree.
LEMMA XincludeKeeps ==
  IInv /\ Kept(heap, lost) /\ safe_process_xinclude => Kept(heap', lost')
<1> SUFFICES ASSUME IInv, Kept(heap, lost), safe_process_xinclude PROVE Kept(heap', lost')
  OBVIOUS
<1>1. PICK w \in HeldWrappers :
        LET n == heap.ptr[w]
            p == heap.parent[n]
            i == Position(heap.kids[p], n)
            m == malloc(heap)
        IN  /\ heap.kind[n] = Elem
            /\ p # NULL
            /\ \/ /\ heap.fresh # {}
                  /\ heap' = Link(xmlNewNode(UnlinkAndPin(heap, n), m, Elem, heap.doc[n]), p, i, m)
               \/ /\ CanCopy(heap, n)
                  /\ heap' = Link(xmlDocCopyNode(UnlinkAndPin(heap, n), n, heap.doc[n]),
                                  p, i, CopyOf(heap, n))
            /\ UNCHANGED <<dstate, held, lost>>
  BY DEF safe_process_xinclude
<1> DEFINE n == heap.ptr[w]
           p == heap.parent[n]
           i == Position(heap.kids[p], n)
           d == heap.doc[n]
           u == UnlinkAndPin(heap, n)
<1>2. /\ heap \in Heap /\ Sound(heap, dstate, NULL) /\ IsTree(heap) /\ n \in heap.alive
      /\ n \in Node /\ d \in Doc /\ dstate[d] = "live" /\ dstate[d] # "freed" /\ p # NULL
      /\ lost' = lost
  BY <1>1, HeldAreUsable, SoundIsTree DEF IInv
<1>3. \/ /\ heap.fresh # {}
         /\ heap' = Link(xmlNewNode(u, malloc(heap), Elem, d), p, i, malloc(heap))
      \/ /\ CanCopy(heap, n)
         /\ heap' = Link(xmlDocCopyNode(u, n, d), p, i, CopyOf(heap, n))
  BY <1>1
<1> HIDE DEF n
<1>4. p \in heap.alive \cup Doc
  BY <1>2 DEF Sound, Heap, Upward
<1>5. /\ Sound(u, dstate, NULL)
      /\ u.fresh = heap.fresh /\ u.alive = heap.alive
      /\ u.parent = [heap.parent EXCEPT ![n] = NULL]
  <2> HIDE DEF p, i, d
  <2>1. u = UnlinkAndPin(heap, n) /\ dstate[heap.doc[n]] # "freed" /\ n \in heap.alive
        /\ Sound(heap, dstate, NULL)
    BY <1>2 DEF d
  <2> HIDE DEF u
  <2>2. QED BY <2>1, UnlinkAndPinSound
<1>6. Shifts(heap, u, {})
  <2> HIDE DEF p, i, d
  <2>1. u = UnlinkAndPin(heap, n)
    OBVIOUS
  <2> HIDE DEF u
  <2>2. QED BY <1>2, <2>1, PinnedOffShifts
<1>7. p = heap.parent[n]
  OBVIOUS
<1> HIDE DEF p, i, d, u
<1>8. Kept(u, lost) /\ u \in Heap /\ IsTree(u)
  <2>1. Kept(u, lost \cup {})
    BY <1>2, <1>5, <1>6, SoundShift
  <2>2. QED BY <1>5, <2>1, KeptMore, SoundIsTree DEF Sound
<1>9. CASE /\ heap.fresh # {}
           /\ heap' = Link(xmlNewNode(u, malloc(heap), Elem, d), p, i, malloc(heap))
  <2> DEFINE m == malloc(heap)
             k == xmlNewNode(u, m, Elem, d)
  <2>1. m \in u.fresh /\ Elem \in Kind /\ heap' = Link(k, p, i, m)
    BY <1>2, <1>5, <1>9, MallocIsFresh DEF Kind
  <2> HIDE DEF m
  <2>2. Kept(k, lost \cup {m}) /\ Apart(u, k, m, {m})
    BY <1>2, <1>8, <2>1, KeptNew
  <2>3. /\ Sound(k, dstate, NULL) /\ m \in k.alive
        /\ \A q \in u.alive : q \in k.alive
    BY <1>2, <1>5, <2>1, NewNodeSound
  <2>4. IsTree(k) /\ p \in u.alive \cup Doc /\ p \in k.alive \cup Doc
    BY <1>4, <1>5, <2>3, SoundIsTree
  <2> HIDE DEF k
  <2>5. QED BY <1>2, <2>1, <2>2, <2>3, <2>4, LinkApartKeeps
<1>10. CASE /\ CanCopy(heap, n)
            /\ heap' = Link(xmlDocCopyNode(u, n, d), p, i, CopyOf(heap, n))
  <2> DEFINE c == CopyOf(heap, n)
             k == xmlDocCopyNode(u, n, d)
  <2>1. CanCopy(u, n) /\ CopyOf(u, n) = c
    <3>1. heap.alive \subseteq Node /\ heap.parent \in [Node -> Node \cup Doc \cup {NULL}]
      BY <1>2 DEF Heap
    <3>2. u.parent[n] \notin Node /\ \A q \in heap.alive : q # n => u.parent[q] = heap.parent[q]
      BY <1>2, <1>5, <3>1, NullIsNoObject
    <3>3. QED BY <1>2, <1>5, <1>10, <3>1, <3>2, SubtreeDependsOn
  <2>2. c = CopyOf(u, n) /\ n \in u.alive /\ heap' = Link(k, p, i, c)
    BY <1>2, <1>5, <1>10, <2>1
  <2> HIDE DEF c
  <2>3. Sound(k, dstate, NULL) /\ c \in k.alive /\ \A q \in u.alive : q \in k.alive
    BY <1>2, <1>5, <2>1, <2>2, CopyNodeSound
  <2>4. Kept(k, lost \cup {c}) /\ \E B : Apart(u, k, c, B)
    BY <1>2, <1>5, <1>8, <2>1, <2>2, KeptNodeCopy
  <2>5. IsTree(k) /\ p \in u.alive \cup Doc /\ p \in k.alive \cup Doc
    BY <1>4, <1>5, <2>3, SoundIsTree
  <2> HIDE DEF k
  <2>6. QED BY <1>2, <2>2, <2>3, <2>4, <2>5, LinkApartKeeps
<1>11. QED BY <1>3, <1>9, <1>10

\* The content of a document, copied, is in the tree of the new document.
LEMMA CopyDocKeeps ==
  ASSUME NEW h, NEW D, Sound(h, D, NULL), NEW d \in Doc, D[d] = "live",
         NEW e \in Doc, D[e] = "live", \A n \in h.alive : h.doc[n] # e,
         RoomFor(h, Content(h, d)), NEW g, g = xmlCopyDoc(h, d, e), NEW K, Kept(h, K)
  PROVE  Kept(g, K)
<1> DEFINE R == {n \in h.alive : h.parent[n] = d}
           S == Content(h, d)
           f == CopyMap(h, S)
           k == CopyBy(h, f, e)
           roots == {f[y] : y \in {z \in DOMAIN f : h.parent[z] = d}}
<1>1. Spans(h, R, S)
  <2>1. S = Below(h, R) /\ R \subseteq h.alive
    BY DEF Content
  <2> HIDE DEF R, S
  <2>2. QED BY <2>1, BelowIsLeast DEF Spans
<1>2. Sound(g, D, NULL) /\ IsTree(g) /\ IsTree(h)
  BY CopyDocSound, SoundIsTree
<1>3. g = [k EXCEPT !.parent = [n \in Node |-> IF n \in roots THEN e ELSE k.parent[n]],
                    !.kids[e] = [i \in DOMAIN h.kids[d] |-> f[h.kids[d][i]]]]
  BY DEF xmlCopyDoc, CopyContent
<1>4. RoomFor(h, S)
  OBVIOUS
<1>5. \A y \in S : h.parent[y] = d => y \in R
  BY <1>1 DEF Spans
<1>6. S \subseteq h.alive /\ R \subseteq S /\ \A m \in h.alive : h.parent[m] \in S => m \in S
  BY <1>1 DEF Spans
<1>7. \A y \in R : h.parent[y] = d
  OBVIOUS
<1> HIDE DEF S, R
<1>8. f \in [S -> h.fresh] /\ Injective(f) /\ DOMAIN f = S
  BY <1>4 DEF RoomFor, CopyMap
<1> HIDE DEF f
<1>9. Copies(h, k, f, e)
  BY <1>6, <1>8, CopyFields
<1>10. Image(f, R) = roots
  BY <1>5, <1>6, <1>7, <1>8 DEF Image
<1>11. Kept(k, K \cup Image(f, R))
  BY <1>1, <1>2, <1>8, <1>9, KeptCopy
<1>12. Sound(k, D, NULL)
  BY <1>6, <1>8, <1>9, CopySound
<1> HIDE DEF k, roots
<1>14. IsTree(k)
  BY <1>12, SoundIsTree
<1>15. /\ g.alive = k.alive /\ g.fresh = k.fresh /\ g.doc = k.doc /\ g.pinned = k.pinned
       /\ g.parent = [n \in Node |-> IF n \in roots THEN e ELSE k.parent[n]]
  BY <1>3, <1>14 DEF IsTree
<1>16. \A m \in g.alive : m \in Node /\ g.parent[m] = IF m \in roots THEN e ELSE k.parent[m]
  BY <1>2, <1>15 DEF IsTree
<1>17. Shifts(k, g, roots)
  BY <1>2, <1>15, <1>16 DEF Shifts, Pinned
<1>18. Kept(g, (K \cup roots) \cup roots)
  BY <1>2, <1>10, <1>11, <1>12, <1>17, SoundShift
<1>19. Kept(g, K \cup roots)
  BY <1>18, KeptMore
<1>20. \A c \in roots \cap g.alive : /\ g.parent[c] = NULL => c \in Pinned(g)
                                     /\ c \in Rooted(g)
  BY <1>16, RootIsRooted, NullIsNoObject, DistinctSorts
<1>21. QED BY <1>19, <1>20, KeptRooted

\* Document.new and Document.parse.
LEMMA NewDocumentKeeps == Kept(heap, lost) /\ NewDocument => Kept(heap', lost')
BY DEF NewDocument

\* Document#dup.
LEMMA DupDocumentKeeps == IInv /\ Kept(heap, lost) /\ DupDocument => Kept(heap', lost')
<1> SUFFICES ASSUME IInv, Kept(heap, lost), DupDocument PROVE Kept(heap', lost')
  OBVIOUS
<1> DEFINE G == Marked(heap, held)
<1>1. PICK d \in HeldDocs, e \in Doc :
        /\ dstate[e] = "unborn"
        /\ \/ heap' = heap
           \/ RoomFor(heap, Content(heap, d)) /\ heap' = xmlCopyDoc(heap, d, e)
        /\ dstate' = [dstate EXCEPT ![e] = "live"]
        /\ held' = held \cup {e}
        /\ UNCHANGED lost
  BY DEF DupDocument
<1>2. /\ Sound(heap, dstate, NULL) /\ Usable(heap, dstate, G) /\ dstate \in DState
      /\ d \in Doc /\ dstate[d] = "live"
  BY HeldAreUsable DEF IInv
<1> HIDE DEF G
<1>3. Sound(heap, dstate', NULL) /\ \A n \in heap.alive : heap.doc[n] # e
  BY <1>1, <1>2, BirthSound
<1>4. dstate'[d] = "live" /\ dstate'[e] = "live"
  BY <1>1, <1>2 DEF DState
<1>5. lost' = lost
  BY <1>1
<1>6. CASE RoomFor(heap, Content(heap, d)) /\ heap' = xmlCopyDoc(heap, d, e)
  <2>1. Kept(heap', lost)
    BY <1>2, <1>3, <1>4, <1>6, CopyDocKeeps
  <2>2. QED BY <1>5, <2>1
<1>7. QED BY <1>1, <1>5, <1>6

\* The program drops a reference.
LEMMA ForgetKeeps == Kept(heap, lost) /\ Forget => Kept(heap', lost')
BY DEF Forget

\* What a deallocated document leaves behind is in other documents.
LEMMA DeallocKeeps ==
  ASSUME NEW h, IsTree(h), NEW d \in Doc, NEW g, g = dealloc(h, d), NEW K, Kept(h, K)
  PROVE  Kept(g, K)
<1> DEFINE R == {n \in h.alive : h.parent[n] = d \/ (h.parent[n] = NULL /\ n \in h.pinned[d])}
           F == FreedWith(h, d)
<1>1. F = Below(h, R)
  BY DEF FreedWith
<1>2. \A c \in h.alive : h.parent[c] = NULL /\ c \in h.pinned[d] => c \in R
  OBVIOUS
<1> HIDE DEF R
<1>3. R \subseteq F /\ \A c \in h.alive : h.parent[c] \in F => c \in F
  BY <1>1, BelowIsLeast
<1> HIDE DEF F
<1>4. /\ g.alive = h.alive \ F /\ g.parent = h.parent
      /\ g.pinned = [h.pinned EXCEPT ![d] = {}]
  BY DEF IsTree, dealloc, xmlFree, F
<1>5. ASSUME NEW c \in g.alive, g.parent[c] = NULL PROVE c \in K \/ c \in Pinned(g)
  <2>1. c \in h.alive /\ h.parent[c] = NULL /\ c \notin F
    BY <1>4, <1>5
  <2>2. ASSUME c \in Pinned(h) PROVE c \in Pinned(g)
    <3>1. PICK e \in Doc : c \in h.pinned[e]
      BY <2>2 DEF Pinned
    <3>2. e # d
      BY <1>2, <1>3, <2>1, <3>1
    <3>3. c \in g.pinned[e]
      BY <1>4, <3>1, <3>2 DEF IsTree
    <3>4. QED BY <3>3 DEF Pinned
  <2>3. QED BY <2>1, <2>2 DEF Kept
<1>6. ASSUME NEW S,
             \A c \in g.alive : g.parent[c] \notin Node \/ c \in K => c \in S,
             \A c \in g.alive : g.parent[c] \in S => c \in S
      PROVE  g.alive \subseteq S
  <2> DEFINE T == S \cup F
  <2>1. \A c \in h.alive : /\ h.parent[c] \notin Node \/ c \in K => c \in T
                           /\ h.parent[c] \in T => c \in T
    BY <1>3, <1>4, <1>6
  <2>2. h.alive \subseteq T
    <3> HIDE DEF T
    <3>1. QED BY <2>1 DEF Kept, Hangs
  <2>3. QED BY <1>4, <2>2
<1>7. QED BY <1>5, <1>6 DEF Kept, Hangs

\* A collection.
LEMMA CollectKeeps == IInv /\ Kept(heap, lost) /\ Collect(held) => Kept(heap', lost')
<1> SUFFICES ASSUME IInv, Kept(heap, lost), Collect(held) PROVE Kept(heap', lost')
  OBVIOUS
<1>1. PICK d \in Doc : heap' = dealloc(heap, d) /\ lost' = lost
  BY DEF Collect
<1>2. IsTree(heap)
  BY SoundIsTree DEF IInv
<1>3. Kept(heap', lost)
  BY <1>1, <1>2, DeallocKeeps
<1>4. QED BY <1>1, <1>3

\* The trees that the parser hands over.
LEMMA ParsedKept ==
  ASSUME NEW h, h \in Heap, Parsed(h)
  PROVE  Kept(h, {})
<1>1. \A c \in h.alive : c \in Node /\ h.doc[c] \in Doc
  BY DEF Heap
<1>2. \A c \in h.alive : h.parent[c] # NULL /\ c \in Content(h, h.doc[c])
  BY <1>1 DEF Parsed
<1>3. ASSUME NEW S,
             \A c \in h.alive : h.parent[c] \notin Node \/ c \in {} => c \in S,
             \A c \in h.alive : h.parent[c] \in S => c \in S,
             NEW n \in h.alive
      PROVE  n \in S
  <2> DEFINE d == h.doc[n]
             R == {c \in h.alive : h.parent[c] = d}
  <2>1. R \subseteq S
    BY <1>1, <1>3, DistinctSorts
  <2>2. n \in Below(h, R)
    BY <1>2 DEF Content
  <2> HIDE DEF R
  <2>3. Below(h, R) \subseteq S
    BY <1>3, <2>1, BelowIsLeast
  <2>4. QED BY <2>2, <2>3
<1>4. QED BY <1>2, <1>3 DEF Kept, Hangs

-----------------------------------------------------------------------------
(* Document#root=.                                                         *)

\* The new root is the only node that may not be held.
LEMMA NewRootKept ==
  ASSUME NEW k, NEW D, Sound(k, D, NULL), NEW d \in Doc, D[d] = "live",
         NEW n \in k.alive, k.kind[n] = Elem, D[k.doc[n]] = "live", k.priv[n] # NULL,
         k.doc[n] # d => CanCopy(k, n),
         NEW r, r = NewRoot(k, d, n), NEW K, Kept(k, K)
  PROVE  Kept(r.h, K \cup {r.n})
<1>1. CASE k.doc[n] # d
  <2>1. r.h = xmlDocCopyNode(k, n, d) /\ r.n = CopyOf(k, n)
    BY <1>1 DEF NewRoot
  <2>2. QED BY <1>1, <2>1, KeptNodeCopy
<1>2. CASE k.doc[n] = d
  <2>1. r.h = xmlUnlinkNode(k, n) /\ r.n = n
    BY <1>2 DEF NewRoot
  <2>2. Sound(r.h, D, NULL)
    BY NewRootSound
  <2>3. IsTree(k) /\ n \in Node
    BY SoundIsTree DEF IsTree
  <2>4. Shifts(k, r.h, {n})
    BY <2>1, <2>3, UnlinkShifts
  <2>5. QED BY <2>1, <2>2, <2>4, SoundShift
<1>3. QED BY <1>1, <1>2

\* One node leaves its place and another one takes it.
LEMMA TakePlaceShifts ==
  ASSUME NEW h, IsTree(h), NEW n \in Node, NEW pivot \in Node,
         NEW p \in Node \cup Doc, p \notin h.fresh, NEW i,
         NEW u, u = xmlUnlinkNode(h, pivot), NEW g, g = Link(u, p, i, n)
  PROVE  /\ Shifts(h, g, {pivot, n})
         /\ g.alive = h.alive /\ g.parent[n] = p /\ g.pinned = h.pinned
         /\ pivot # n => g.parent[pivot] = NULL
<1>1. /\ Shifts(h, u, {pivot}) /\ u.alive = h.alive /\ u.pinned = h.pinned
      /\ u.parent = [h.parent EXCEPT ![pivot] = NULL]
  BY UnlinkShifts
<1>2. p \notin u.fresh /\ IsTree(u)
  BY <1>1 DEF Shifts
<1>3. /\ Shifts(u, g, {n})
      /\ g.alive = u.alive /\ g.parent = [u.parent EXCEPT ![n] = p] /\ g.pinned = u.pinned
  BY <1>2, LinkShifts, SMTT(30)
<1>4. Shifts(h, g, {pivot, n})
  <2>1. Shifts(h, g, {pivot} \cup {n})
    BY <1>1, <1>3, ShiftsCompose
  <2>2. QED BY <2>1, ShiftsMore
<1>5. QED BY <1>1, <1>3, <1>4 DEF IsTree

\* xmlReplaceNode: the node takes the place of the pivot.
LEMMA ReplaceShifts ==
  ASSUME NEW h, IsTree(h), NEW n \in Node, NEW pivot \in Node, h.parent[pivot] # NULL,
         h.parent[pivot] \notin h.fresh,
         NEW g, g = xmlReplaceNode(h, pivot, n).h
  PROVE  /\ Shifts(h, g, {pivot, n})
         /\ g.alive = h.alive /\ g.parent[n] = h.parent[pivot] /\ g.pinned = h.pinned
         /\ pivot # n => g.parent[pivot] = NULL
<1>1. PICK p, i, u : /\ p = h.parent[pivot] /\ i = Position(h.kids[p], pivot)
                     /\ u = xmlUnlinkNode(h, pivot) /\ g = Link(u, p, i, n)
  BY DEF xmlReplaceNode
<1>2. p \in Node \cup Doc /\ p \notin h.fresh
  BY <1>1 DEF IsTree
<1>3. /\ Shifts(h, g, {pivot, n})
      /\ g.alive = h.alive /\ g.parent[n] = p /\ g.pinned = h.pinned
      /\ pivot # n => g.parent[pivot] = NULL
  BY <1>1, <1>2, TakePlaceShifts
<1>4. QED BY <1>1, <1>3

\* xmlDocSetRootElement: an element that it replaces is lost.
LEMMA NewRootLinked ==
  ASSUME NEW q, NEW D, Sound(q, D, NULL), NEW d \in Doc, D[d] = "live",
         NEW c \in q.alive, NEW old, old = RootElement(q, d), old # NULL => q.parent[c] = NULL,
         NEW g, g = xmlDocSetRootElement(q, d, c), Sound(g, D, NULL),
         NEW K, Kept(q, K \cup {c})
  PROVE  Kept(g, K \cup ({old} \ {NULL}))
<1>1. IsTree(q) /\ IsTree(g) /\ c \in Node /\ d \notin q.fresh
  BY SoundIsTree, DistinctSorts DEF IsTree
<1>2. \E M \in {{}, {old}} : M \subseteq {old} \ {NULL} /\ Shifts(q, g, M \cup {c})
                             /\ g.parent[c] = d
  <2>1. CASE old = NULL
    <3> DEFINE i == Len(q.kids[d]) + 1
    <3>1. g = Link(q, d, i, c)
      BY <2>1 DEF xmlDocSetRootElement
    <3> HIDE DEF i
    <3>2. Shifts(q, g, {c}) /\ g.parent = [q.parent EXCEPT ![c] = d]
      <4>1. d \in Node \cup Doc /\ d \notin q.fresh /\ IsTree(q) /\ c \in Node
        BY <1>1
      <4>2. QED BY <3>1, <4>1, LinkShifts
    <3>3. {} \cup {c} = {c} /\ g.parent[c] = d
      BY <1>1, <3>2 DEF IsTree
    <3>4. QED BY <3>2, <3>3
  <2>2. CASE old # NULL
    <3>1. g = xmlReplaceNode(q, old, c).h
      BY <2>2 DEF xmlDocSetRootElement
    <3>2. old \in Node /\ q.parent[old] = d
      BY <2>2, RootIsElement
    <3>3. Shifts(q, g, {old, c}) /\ g.parent[c] = d
      BY <1>1, <3>1, <3>2, ReplaceShifts, NullIsNoObject
    <3>4. {old, c} = {old} \cup {c}
      OBVIOUS
    <3>5. QED BY <2>2, <3>3, <3>4
  <2>3. QED BY <2>1, <2>2
<1>3. PICK M \in {{}, {old}} : M \subseteq {old} \ {NULL} /\ Shifts(q, g, M \cup {c})
                               /\ g.parent[c] = d
  BY <1>2
<1>4. Kept(g, (K \cup {c}) \cup (M \cup {c}))
  BY <1>3, SoundShift
<1>5. Kept(g, (K \cup ({old} \ {NULL})) \cup {c})
  BY <1>3, <1>4, KeptMore
<1>6. \A m \in {c} \cap g.alive : /\ g.parent[m] = NULL => m \in Pinned(g)
                                  /\ m \in Rooted(g)
  BY <1>3, RootIsRooted, NullIsNoObject, DistinctSorts
<1>7. QED BY <1>5, <1>6, KeptRooted

\* Document#root=.
LEMMA RootSetKeeps == IInv /\ Kept(heap, lost) /\ root_set => Kept(heap', lost')
<1> SUFFICES ASSUME IInv, Kept(heap, lost), root_set PROVE Kept(heap', lost')
  OBVIOUS
<1>1. PICK d \in HeldDocs :
        \/ heap' = DropRoot(heap, d) /\ lost' = lost
        \/ \E w \in HeldWrappers :
             LET n == heap.ptr[w]
             IN  /\ heap.kind[n] = Elem
                 /\ heap.doc[n] # d => CanCopy(heap, n)
                 /\ SetRoot(d, NewRoot(DropRoot(heap, d), d, n))
  BY DEF root_set
<1>2. /\ Sound(heap, dstate, NULL) /\ IsTree(heap) /\ d \in Doc /\ dstate[d] = "live"
  BY HeldAreUsable, SoundIsTree DEF IInv
<1> DEFINE k == DropRoot(heap, d)
           old == RootElement(heap, d)
<1>3. /\ Sound(k, dstate, NULL)
      /\ k.fresh = heap.fresh /\ k.alive = heap.alive /\ k.kind = heap.kind /\ k.doc = heap.doc
      /\ k.priv = heap.priv
  BY <1>2, DropRootSound
<1>4. Kept(k, lost)
  <2>1. CASE old = NULL
    BY <2>1 DEF DropRoot
  <2>2. CASE old # NULL
    <3>1. k = UnlinkAndPin(heap, old) /\ old \in Node
      BY <1>2, <2>2, RootIsElement DEF DropRoot
    <3> HIDE DEF k, old
    <3>2. Shifts(heap, k, {})
      BY <1>2, <3>1, PinnedOffShifts
    <3>3. Kept(k, lost \cup {})
      BY <1>2, <1>3, <3>2, SoundShift
    <3>4. QED BY <3>3, KeptMore
  <2>3. QED BY <2>1, <2>2
<1>5. CASE heap' = k /\ lost' = lost
  BY <1>4, <1>5
<1>6. ASSUME NEW w \in HeldWrappers,
             LET n == heap.ptr[w]
             IN  /\ heap.kind[n] = Elem
                 /\ heap.doc[n] # d => CanCopy(heap, n)
                 /\ SetRoot(d, NewRoot(k, d, n))
      PROVE  Kept(heap', lost')
  <2> DEFINE n == heap.ptr[w]
             r == NewRoot(k, d, n)
  <2>1. /\ n \in heap.alive /\ dstate[heap.doc[n]] = "live" /\ heap.kind[n] = Elem
        /\ heap.priv[n] # NULL /\ (heap.doc[n] # d => CanCopy(heap, n))
    BY <1>6, HeldAreUsable DEF IInv, IsText, Elem, Text, Blank
  <2>2. /\ heap' = xmlDocSetRootElement(r.h, d, r.n)
        /\ lost' = lost \cup ({RootElement(r.h, d)} \ {NULL})
    BY <1>6 DEF SetRoot
  <2> HIDE DEF n
  <2>3. k.doc[n] # d => CanCopy(k, n)
    BY <1>2, <1>3, <2>1, DropRootCanCopy
  <2>4. r = NewRoot(k, d, n) /\ r = NewRoot(DropRoot(heap, d), d, n)
    OBVIOUS
  <2> HIDE DEF r
  <2>5. Sound(heap', dstate, NULL)
    BY <1>2, <2>1, <2>2, <2>4, SetRootSound
  <2> HIDE DEF k
  <2>6. /\ n \in k.alive /\ k.kind[n] = Elem /\ dstate[k.doc[n]] = "live" /\ k.priv[n] # NULL
        /\ r = NewRoot(k, d, n)
    BY <1>3, <2>1, <2>4
  <2>7. Sound(r.h, dstate, NULL) /\ r.n \in r.h.alive /\ r.h.parent[r.n] = NULL
    BY <1>2, <1>3, <2>3, <2>6, NewRootSound
  <2>8. Kept(r.h, lost \cup {r.n})
    BY <1>2, <1>3, <1>4, <2>3, <2>6, NewRootKept
  <2> DEFINE q == r.h
             c == r.n
             o == RootElement(q, d)
  <2>9. Kept(heap', lost \cup ({o} \ {NULL}))
    <3>1. o = RootElement(q, d) /\ heap' = xmlDocSetRootElement(q, d, c)
      BY <2>2
    <3> HIDE DEF o, q, c
    <3>2. Sound(q, dstate, NULL) /\ c \in q.alive /\ q.parent[c] = NULL /\ Kept(q, lost \cup {c})
      BY <2>7, <2>8 DEF q, c
    <3>3. QED BY <1>2, <2>5, <3>1, <3>2, NewRootLinked
  <2>10. QED BY <2>2, <2>9
<1>7. QED BY <1>1, <1>5, <1>6

-----------------------------------------------------------------------------
(* Moving a node.                                                          *)

\* the nodes that a function that links c beside or below the pivot moves
Disturbed(pivot, c, how) == IF how = "replace" THEN {pivot, c} ELSE {c}

\* What such a function does to the tree: it refuses c, which then is the pivot or
\* would replace a node outside the tree; or c, or the text that it is merged
\* into, is in the tree.
Moves(h, q, pivot, c, how) ==
  /\ q.n = NULL => /\ Shifts(h, q.h, {})
                   /\ how # "replace" => pivot = c
                   /\ how = "replace" => h.parent[pivot] = NULL
  /\ q.n # NULL => /\ Shifts(h, q.h, Disturbed(pivot, c, how))
                   /\ c \in q.h.alive => q.n = c
                   /\ q.h.parent[q.n] = NULL => how # "child" /\ h.parent[pivot] = NULL
                   /\ how = "replace" => q.h.parent[pivot] = NULL

\* A text is merged into another one.
LEMMA MergeMoves ==
  ASSUME NEW h, IsTree(h), NEW c \in Node, NEW left \in Node, left # c,
         NEW pivot, NEW how \in {"child", "next", "prev"},
         h.parent[left] = NULL => how # "child" /\ left = pivot,
         NEW q, q = [h |-> xmlTextMerge(h, left, c), n |-> left]
  PROVE  Moves(h, q, pivot, c, how)
<1> DEFINE g == xmlTextMerge(h, left, c)
<1>1. q.h = g /\ q.n = left /\ left # NULL
  BY NullIsNoObject
<1>2. Shifts(h, g, {c}) /\ g.alive = h.alive \ {c} /\ g.parent = [h.parent EXCEPT ![c] = NULL]
  BY MergeShifts
<1> HIDE DEF g
<1>3. g.parent[left] = h.parent[left] /\ c \notin g.alive
  BY <1>2 DEF IsTree
<1>4. Disturbed(pivot, c, how) = {c}
  BY DEF Disturbed
<1>5. QED BY <1>1, <1>2, <1>3, <1>4 DEF Moves

\* The node is linked.
LEMMA LinkMoves ==
  ASSUME NEW h, IsTree(h), NEW c \in Node, NEW p \in Node \cup Doc, p \notin h.fresh, NEW i,
         NEW pivot, NEW how \in {"child", "next", "prev"},
         NEW q, q = [h |-> Link(h, p, i, c), n |-> c]
  PROVE  Moves(h, q, pivot, c, how)
<1> DEFINE g == Link(h, p, i, c)
<1>1. q.h = g /\ q.n = c /\ c # NULL /\ p # NULL
  BY NullIsNoObject
<1>2. Shifts(h, g, {c}) /\ g.parent = [h.parent EXCEPT ![c] = p]
  <2>1. g = Link(h, p, i, c)
    OBVIOUS
  <2> HIDE DEF g
  <2>2. QED BY <2>1, LinkShifts, Z3
<1> HIDE DEF g
<1>3. g.parent[c] = p
  BY <1>2 DEF IsTree
<1>4. Disturbed(pivot, c, how) = {c}
  BY DEF Disturbed
<1>5. QED BY <1>1, <1>2, <1>3, <1>4 DEF Moves

\* xmlAddChild.
LEMMA AddChildMoves ==
  ASSUME NEW h, NEW D, Sound(h, D, NULL), NEW c, Ready(h, D, c),
         NEW p \in Node \cup Doc, InTree(h, D, p)
  PROVE  Moves(h, xmlAddChild(h, p, c), p, c, "child")
<1> DEFINE s == h.kids[p]
           q == xmlAddChild(h, p, c)
<1>1. IsTree(h) /\ c \in Node /\ p \notin h.fresh
  BY SoundIsTree, DistinctSorts DEF Ready, IsTree, InTree
<1>2. CASE p = c
  <2>1. q = [h |-> h, n |-> NULL]
    BY <1>2 DEF xmlAddChild
  <2>2. QED BY <1>1, <1>2, <2>1, ShiftsNothing DEF Moves
<1>3. CASE p # c /\ IsText(h, c) /\ Len(s) > 0 /\ IsText(h, s[Len(s)])
  <2> DEFINE last == s[Len(s)]
  <2>1. s \in Seq(Node) /\ Len(s) \in Nat
    BY MembersOfSeq DEF Sound, Heap
  <2>2. last \in Members(s)
    BY <1>3, <2>1, MembersOfSeq
  <2>3. last \in Node /\ h.parent[last] = p
    BY <2>2, ChildOf
  <2>4. q = [h |-> xmlTextMerge(h, last, c), n |-> last]
    BY <1>3 DEF xmlAddChild
  <2> HIDE DEF last, q
  <2>5. last # c /\ h.parent[last] # NULL
    BY <2>3, NullIsNoObject DEF Ready
  <2>6. Moves(h, q, p, c, "child")
    BY <1>1, <2>3, <2>4, <2>5, MergeMoves
  <2>7. QED BY <2>6 DEF q
<1>4. CASE p # c /\ ~(IsText(h, c) /\ Len(s) > 0 /\ IsText(h, s[Len(s)]))
  <2> DEFINE i == Len(s) + 1
  <2>1. q = [h |-> Link(h, p, i, c), n |-> c]
    BY <1>4 DEF xmlAddChild
  <2> HIDE DEF i, q
  <2>2. Moves(h, q, p, c, "child")
    BY <1>1, <2>1, LinkMoves
  <2>3. QED BY <2>2 DEF q
<1>5. QED BY <1>2, <1>3, <1>4

\* xmlAddNextSibling and xmlAddPrevSibling.
LEMMA AddSiblingMoves ==
  ASSUME NEW h, NEW D, Sound(h, D, NULL), NEW c, Ready(h, D, c),
         NEW pivot \in h.alive, NEW offset, NEW how \in {"next", "prev"}
  PROVE  Moves(h, xmlAddSibling(h, pivot, c, offset), pivot, c, how)
<1> DEFINE p == h.parent[pivot]
           q == xmlAddSibling(h, pivot, c, offset)
<1>1. IsTree(h) /\ c \in Node /\ pivot \in Node /\ c # NULL /\ h.parent[c] = NULL
  BY SoundIsTree, NullIsNoObject DEF Ready, IsTree
<1>2. CASE pivot = c
  <2>1. q = [h |-> h, n |-> NULL]
    BY <1>2 DEF xmlAddSibling
  <2>2. QED BY <1>1, <1>2, <2>1, ShiftsNothing DEF Moves
<1>3. CASE pivot # c /\ SiblingsMerge /\ IsText(h, c) /\ IsText(h, pivot)
  <2>1. q = [h |-> xmlTextMerge(h, pivot, c), n |-> pivot]
    BY <1>3 DEF xmlAddSibling
  <2> HIDE DEF q
  <2>2. Moves(h, q, pivot, c, how)
    BY <1>1, <1>3, <2>1, MergeMoves
  <2>3. QED BY <2>2 DEF q
<1>4. CASE pivot # c /\ ~(SiblingsMerge /\ IsText(h, c) /\ IsText(h, pivot)) /\ p = NULL
  <2>1. q = [h |-> h, n |-> c]
    BY <1>4 DEF xmlAddSibling
  <2>2. Shifts(h, h, Disturbed(pivot, c, how))
    BY <1>1 DEF Shifts
  <2>3. QED BY <1>1, <1>4, <2>1, <2>2 DEF Moves
<1>5. CASE pivot # c /\ ~(SiblingsMerge /\ IsText(h, c) /\ IsText(h, pivot)) /\ p # NULL
  <2> DEFINE i == Position(h.kids[p], pivot) + offset
  <2>1. q = [h |-> Link(h, p, i, c), n |-> c]
    BY <1>5 DEF xmlAddSibling
  <2>2. p \in Node \cup Doc /\ p \notin h.fresh
    BY <1>1, <1>5 DEF IsTree
  <2> HIDE DEF i, q, p
  <2>3. Moves(h, q, pivot, c, how)
    BY <1>1, <2>1, <2>2, LinkMoves
  <2>4. QED BY <2>3 DEF q
<1>6. QED BY <1>2, <1>3, <1>4, <1>5

\* A replacement: the node is in the place of the pivot, or nothing has happened.
LEMMA ReplaceNodeMoves ==
  ASSUME NEW h, NEW D, Sound(h, D, NULL), NEW c, Ready(h, D, c), NEW pivot \in h.alive,
         NEW q, q = xmlReplaceNode(h, pivot, c)
  PROVE  \/ q = [h |-> h, n |-> NULL] /\ h.parent[pivot] = NULL
         \/ /\ q = [h |-> q.h, n |-> c] /\ h.parent[pivot] # NULL
            /\ Shifts(h, q.h, {pivot, c})
            /\ q.h.parent[c] # NULL /\ q.h.parent[pivot] = NULL
<1>1. IsTree(h) /\ c \in Node /\ pivot \in Node /\ h.parent[c] = NULL
  BY SoundIsTree DEF Ready, IsTree
<1>2. CASE h.parent[pivot] = NULL
  BY <1>2 DEF xmlReplaceNode
<1>3. CASE h.parent[pivot] # NULL
  <2> DEFINE g == q.h
  <2>1. q = [h |-> g, n |-> c] /\ g = xmlReplaceNode(h, pivot, c).h
    BY <1>3 DEF xmlReplaceNode
  <2>2. h.parent[pivot] \notin h.fresh /\ pivot # c
    BY <1>1, <1>3 DEF IsTree
  <2> HIDE DEF g
  <2>3. /\ Shifts(h, g, {pivot, c})
        /\ g.alive = h.alive /\ g.parent[c] = h.parent[pivot] /\ g.pinned = h.pinned
        /\ pivot # c => g.parent[pivot] = NULL
    BY <1>1, <1>3, <2>1, <2>2, ReplaceShifts, Z3
  <2>4. QED BY <1>3, <2>1, <2>2, <2>3 DEF g
<1>4. QED BY <1>2, <1>3

\* The kind of a node does not matter for the tree.
LEMMA RetextShifts ==
  ASSUME NEW h, IsTree(h), NEW n, NEW g, g = [h EXCEPT !.kind[n] = Text]
  PROVE  Shifts(h, g, {}) /\ g.alive = h.alive /\ g.parent = h.parent
<1> DEFINE kd == [h.kind EXCEPT ![n] = Text]
<1>1. g = [fresh |-> h.fresh, alive |-> h.alive, kind |-> kd, doc |-> h.doc,
           parent |-> h.parent, kids |-> h.kids, priv |-> h.priv, ptr |-> h.ptr,
           pinned |-> h.pinned, cache |-> h.cache]
  BY DEF IsTree
<1> HIDE DEF kd
<1>2. IsTree(g)
  BY <1>1 DEF IsTree
<1>3. QED BY <1>1, <1>2 DEF Shifts, Pinned

\* The merges that follow a replacement.
LEMMA SettleMoves ==
  ASSUME NEW h, NEW D, Sound(h, D, NULL), NEW c \in h.alive, h.parent[c] # NULL,
         D[h.doc[c]] # "freed", NEW k, NEW q, q = Settle([h |-> h, n |-> c], c, k)
  PROVE  /\ q.n # NULL
         /\ Shifts(h, q.h, {c})
         /\ c \in q.h.alive => q.n = c
         /\ q.h.parent[q.n] # NULL
         /\ \A m \in Node : h.parent[m] = NULL => q.h.parent[m] = NULL
<1> DEFINE left == TextBefore(h, c)
           h1 == IF left # c THEN xmlTextMerge(h, left, c) ELSE h
           g == IF k = Text THEN [h1 EXCEPT !.kind[left] = Text] ELSE h1
<1>1. IsTree(h) /\ c \in Node /\ c # NULL
  BY SoundIsTree, NullIsNoObject DEF IsTree
<1>2. q = [h |-> g, n |-> left]
  BY <1>1 DEF Settle, MergeInto
<1>3. /\ Shifts(h, h1, {c}) /\ left \in Node /\ (c \in h1.alive => left = c)
      /\ h1.parent[left] # NULL
      /\ \A m \in Node : h.parent[m] = NULL => h1.parent[m] = NULL
  <2>1. CASE left # c
    <3>1. left \in h.alive /\ h.parent[left] = h.parent[c]
      BY <2>1, TextBeforePlace
    <3>2. h1 = xmlTextMerge(h, left, c)
      BY <2>1
    <3> HIDE DEF left, h1
    <3>3. /\ Shifts(h, h1, {c}) /\ h1.alive = h.alive \ {c}
          /\ h1.parent = [h.parent EXCEPT ![c] = NULL]
      BY <1>1, <3>2, MergeShifts, Z3T(30)
    <3>4. QED BY <1>1, <2>1, <3>1, <3>3 DEF IsTree
  <2>2. CASE left = c
    <3>1. h1 = h
      BY <2>2
    <3>2. Shifts(h, h, {c})
      BY <1>1 DEF Shifts
    <3>3. QED BY <1>1, <2>2, <3>1, <3>2
  <2>3. QED BY <2>1, <2>2
<1> HIDE DEF h1, left
<1>4. IsTree(h1)
  BY <1>3 DEF Shifts
<1>5. Shifts(h1, g, {}) /\ g.alive = h1.alive /\ g.parent = h1.parent
  <2>1. CASE k = Text
    <3>1. g = [h1 EXCEPT !.kind[left] = Text]
      BY <2>1
    <3> HIDE DEF g
    <3>2. QED BY <1>4, <3>1, RetextShifts
  <2>2. CASE k # Text
    BY <1>4, <2>2, ShiftsNothing
  <2>3. QED BY <2>1, <2>2
<1> HIDE DEF g
<1>6. Shifts(h, g, {c})
  <2>1. Shifts(h, g, {c} \cup {})
    BY <1>3, <1>5, ShiftsCompose
  <2>2. QED BY <2>1, ShiftsMore
<1>7. q.h = g /\ q.n = left /\ left # NULL
  BY <1>2, <1>3, NullIsNoObject
<1>8. QED BY <1>3, <1>5, <1>6, <1>7

\* A replacement and the merges that follow it.
LEMMA ReplaceAndSettleMoves ==
  ASSUME NEW h, NEW D, Sound(h, D, NULL), NEW c, Ready(h, D, c), NEW pivot \in h.alive,
         h.kind[pivot] # Attr, h.doc[pivot] = h.doc[c],
         h.parent[pivot] # NULL => MayContain(h, h.parent[pivot], c),
         NEW k, NEW q, q = Settle(xmlReplaceNode(h, pivot, c), c, k)
  PROVE  Moves(h, q, pivot, c, "replace")
<1> DEFINE r == xmlReplaceNode(h, pivot, c)
<1>1. \/ r = [h |-> h, n |-> NULL] /\ h.parent[pivot] = NULL
      \/ /\ r = [h |-> r.h, n |-> c] /\ h.parent[pivot] # NULL
         /\ Shifts(h, r.h, {pivot, c})
         /\ r.h.parent[c] # NULL /\ r.h.parent[pivot] = NULL
  <2>1. r = xmlReplaceNode(h, pivot, c)
    OBVIOUS
  <2> HIDE DEF r
  <2>2. QED BY <2>1, ReplaceNodeMoves
<1>2. IsTree(h) /\ c \in Node /\ pivot \in Node /\ c \in h.alive /\ D[h.doc[c]] = "live" /\ c # NULL
  BY SoundIsTree, NullIsNoObject DEF Ready, IsTree
<1>3. /\ Placed(h, D, c, r)
      /\ r.n = NULL \/ /\ r.n = c /\ r.h.parent[c] # NULL
                       /\ r.h.alive = h.alive /\ r.h.kind = h.kind /\ r.h.doc = h.doc
                       /\ r.h.ptr = h.ptr /\ r.h.priv = h.priv /\ r.h.pinned = h.pinned
  BY ReplaceNodePlaced
<1>4. q = Settle(r, c, k)
  OBVIOUS
<1> HIDE DEF r
<1>5. CASE r = [h |-> h, n |-> NULL] /\ h.parent[pivot] = NULL
  <2>1. q = r
    BY <1>4, <1>5 DEF Settle
  <2>2. QED BY <1>2, <1>5, <2>1, ShiftsNothing DEF Moves
<1>6. CASE /\ r = [h |-> r.h, n |-> c] /\ h.parent[pivot] # NULL
           /\ Shifts(h, r.h, {pivot, c})
           /\ r.h.parent[c] # NULL /\ r.h.parent[pivot] = NULL
  <2> DEFINE g == r.h
  <2>1. r = [h |-> g, n |-> c] /\ Shifts(h, g, {pivot, c}) /\ g.parent[c] # NULL
        /\ g.parent[pivot] = NULL
    BY <1>6
  <2>2. Sound(g, D, NULL) /\ c \in g.alive /\ D[g.doc[c]] # "freed"
    BY <1>2, <1>3, <2>1 DEF Placed
  <2> HIDE DEF g
  <2>3. q = Settle([h |-> g, n |-> c], c, k)
    BY <1>4, <2>1
  <2>4. /\ q.n # NULL
        /\ Shifts(g, q.h, {c})
        /\ c \in q.h.alive => q.n = c
        /\ q.h.parent[q.n] # NULL
        /\ \A m \in Node : g.parent[m] = NULL => q.h.parent[m] = NULL
    BY <2>1, <2>2, <2>3, SettleMoves
  <2>5. Shifts(h, q.h, {pivot, c} \cup {c})
    BY <2>1, <2>4, ShiftsCompose
  <2>6. Shifts(h, q.h, Disturbed(pivot, c, "replace"))
    BY <2>5, ShiftsMore DEF Disturbed
  <2>7. QED BY <1>2, <2>1, <2>4, <2>6 DEF Moves
<1>7. QED BY <1>1, <1>5, <1>6

\* Shifts that come before a move that was not refused, or was.
LEMMA MovesAfterShift ==
  ASSUME NEW h, NEW k, Shifts(h, k, {}), NEW q, NEW pivot, NEW c,
         Moves(k, q, pivot, c, "replace"), k.parent[pivot] = h.parent[pivot]
  PROVE  Moves(h, q, pivot, c, "replace")
<1>1. CASE q.n = NULL
  <2>1. Shifts(h, q.h, {} \cup {})
    BY <1>1, ShiftsCompose DEF Moves
  <2>2. Shifts(h, q.h, {})
    BY <2>1, ShiftsMore
  <2>3. QED BY <1>1, <2>2 DEF Moves
<1>2. CASE q.n # NULL
  <2> DEFINE M == Disturbed(pivot, c, "replace")
  <2>1. Shifts(k, q.h, M)
    BY <1>2 DEF Moves
  <2> HIDE DEF M
  <2>2. Shifts(h, q.h, {} \cup M)
    BY <2>1, ShiftsCompose
  <2>3. Shifts(h, q.h, M)
    BY <2>2, ShiftsMore
  <2>4. QED BY <1>2, <2>3 DEF Moves, M
<1>3. QED BY <1>1, <1>2

\* xmlReplaceNodeWrapper.
LEMMA ReplaceWrapperMoves ==
  ASSUME NEW h, NEW D, Sound(h, D, NULL), NEW c, Ready(h, D, c),
         NEW pivot \in h.alive, h.kind[pivot] # Attr, ~IsText(h, pivot), h.doc[pivot] = h.doc[c],
         h.parent[pivot] # NULL => MayContain(h, h.parent[pivot], c),
         NEW q, q = xmlReplaceNodeWrapper(h, pivot, c)
  PROVE  Moves(h, q, pivot, c, "replace")
<1> DEFINE nxt == TextAfter(h, pivot)
           k == UnlinkAndPin(h, nxt)
<1>1. CASE ~(IsText(h, c) /\ nxt # NULL)
  <2>1. q = Settle(xmlReplaceNode(h, pivot, c), c, Blank)
    BY <1>1 DEF xmlReplaceNodeWrapper
  <2>2. QED BY <2>1, ReplaceAndSettleMoves
<1>2. CASE IsText(h, c) /\ nxt # NULL
  <2>1. q = Settle(xmlReplaceNode(k, pivot, c), c, h.kind[nxt])
    BY <1>2 DEF xmlReplaceNodeWrapper
  <2>2. nxt = TextAfter(h, pivot) /\ k = UnlinkAndPin(h, nxt)
    OBVIOUS
  <2> HIDE DEF nxt, k
  <2>3. /\ Sound(k, D, NULL) /\ Keeps(h, k)
        /\ k.alive = h.alive /\ k.kind = h.kind /\ k.doc = h.doc
        /\ Ready(k, D, c) /\ IsText(h, nxt) /\ nxt \in Node
        /\ k.parent[pivot] = NULL \/ k.parent[pivot] = h.parent[pivot]
        /\ pivot # nxt => k.parent[pivot] = h.parent[pivot]
        /\ k.parent[pivot] # NULL => MayContain(k, k.parent[pivot], c)
    BY <1>2, <2>2, NextPinned
  <2>4. pivot \in k.alive /\ k.kind[pivot] # Attr /\ k.doc[pivot] = k.doc[c]
        /\ k.parent[pivot] = h.parent[pivot]
    BY <2>3
  <2> DEFINE kd == h.kind[nxt]
  <2>5. q = Settle(xmlReplaceNode(k, pivot, c), c, kd)
    BY <2>1
  <2> HIDE DEF kd
  <2>6. Moves(k, q, pivot, c, "replace")
    BY <2>3, <2>4, <2>5, ReplaceAndSettleMoves
  <2>7. Shifts(h, k, {})
    BY <2>2, <2>3, SoundIsTree, PinnedOffShifts
  <2>8. QED BY <2>4, <2>6, <2>7, MovesAfterShift
<1>3. QED BY <1>1, <1>2

\* The function that the caller passed to reparent_node_with.
LEMMA PrfMoves ==
  ASSUME NEW h, NEW D, Sound(h, D, NULL), NEW c, Ready(h, D, c),
         NEW pivot, NEW how, PlaceFor(h, D, pivot, c, how),
         how = "replace" => ~IsText(h, pivot)
  PROVE  Moves(h, prf(h, pivot, c, how), pivot, c, how)
<1>1. CASE how = "child"
  <2>1. prf(h, pivot, c, how) = xmlAddChild(h, pivot, c)
    BY <1>1 DEF prf
  <2>2. Moves(h, xmlAddChild(h, pivot, c), pivot, c, "child")
    BY <1>1, AddChildMoves DEF PlaceFor
  <2>3. QED BY <1>1, <2>1, <2>2
<1>2. CASE how = "next"
  <2>1. prf(h, pivot, c, how) = xmlAddSibling(h, pivot, c, 1)
    BY <1>2 DEF prf
  <2>2. Moves(h, xmlAddSibling(h, pivot, c, 1), pivot, c, "next")
    BY <1>2, AddSiblingMoves DEF PlaceFor
  <2>3. QED BY <1>2, <2>1, <2>2
<1>3. CASE how = "prev"
  <2>1. prf(h, pivot, c, how) = xmlAddSibling(h, pivot, c, 0)
    BY <1>3 DEF prf
  <2>2. Moves(h, xmlAddSibling(h, pivot, c, 0), pivot, c, "prev")
    BY <1>3, AddSiblingMoves DEF PlaceFor
  <2>3. QED BY <1>3, <2>1, <2>2
<1>4. CASE how = "replace"
  <2>1. prf(h, pivot, c, how) = xmlReplaceNodeWrapper(h, pivot, c)
    BY <1>4 DEF prf
  <2>2. Moves(h, xmlReplaceNodeWrapper(h, pivot, c), pivot, c, "replace")
    BY <1>4, ReplaceWrapperMoves DEF PlaceFor
  <2>3. QED BY <1>4, <2>1, <2>2
<1>5. QED BY <1>1, <1>2, <1>3, <1>4 DEF PlaceFor

\* The argument of reparent_node_with, or its duplicate, is all that hangs on
\* nothing once the argument is unlinked.
LEMMA ArgumentKept ==
  ASSUME NEW h, NEW D, Sound(h, D, NULL), NEW n \in h.alive, h.kind[n] # Attr,
         NEW w \in Wrapper, h.ptr[w] = n,
         NEW pivot, NEW d \in Doc, DocOf(h, pivot) = d, D[d] = "live",
         NeedsDup(h, pivot, n) => CanCopy(h, n),
         NEW g, g = xmlUnlinkNode(IF NeedsDup(h, pivot, n) THEN Duplicate(h, pivot, n) ELSE h, n),
         Sound(g, D, NULL),
         NEW c, c = IF NeedsDup(h, pivot, n) THEN CopyOf(h, n) ELSE n,
         NEW K, Kept(h, K)
  PROVE  /\ Kept(g, K \cup {c})
         /\ \A m \in h.alive : m # n => g.parent[m] = h.parent[m]
<1>1. IsTree(h) /\ n \in Node /\ h.alive \subseteq Node
  BY SoundIsTree DEF IsTree
<1>2. CASE ~NeedsDup(h, pivot, n)
  <2>1. g = xmlUnlinkNode(h, n) /\ c = n
    BY <1>2
  <2>2. Shifts(h, g, {n}) /\ g.parent = [h.parent EXCEPT ![n] = NULL]
    BY <1>1, <2>1, UnlinkShifts, Z3
  <2>3. Kept(g, K \cup {c})
    BY <2>1, <2>2, SoundShift
  <2>4. QED BY <1>1, <2>2, <2>3 DEF IsTree
<1>3. CASE NeedsDup(h, pivot, n)
  <2> DEFINE h2 == noko_xml_document_pin_node(
                     IF IsText(h, n) THEN [h EXCEPT !.priv[n] = NULL] ELSE h, n)
             h3 == xmlDocCopyNode(h2, n, d)
  <2>1. g = xmlUnlinkNode(h3, n) /\ c = CopyOf(h, n)
    BY <1>3 DEF Duplicate
  <2>2. PICK x \in {n, NULL} :
          /\ Sound(h2, D, x) /\ Keeps(h, h2)
          /\ h2.fresh = h.fresh /\ h2.alive = h.alive /\ h2.kind = h.kind /\ h2.doc = h.doc
          /\ h2.parent = h.parent /\ n \in h2.pinned[h.doc[n]]
    <3>1. h2 = noko_xml_document_pin_node(
                 IF IsText(h, n) THEN [h EXCEPT !.priv[n] = NULL] ELSE h, n)
      OBVIOUS
    <3> HIDE DEF h2
    <3>2. QED BY <3>1, OriginalPinned
  <2> HIDE DEF h2
  <2>3. CanCopy(h2, n) /\ CopyOf(h2, n) = c /\ n \in h2.alive
    BY <1>3, <2>1, <2>2, CopyDependsOn
  <2>4. Kept(h2, K)
    <3>1. Pinned(h) \subseteq Pinned(h2)
      BY <2>2 DEF Keeps, Pinned
    <3>2. QED BY <2>2, <3>1, KeptSame
  <2>5. h3 = xmlDocCopyNode(h2, n, d) /\ c = CopyOf(h2, n)
    BY <2>3
  <2> HIDE DEF h3
  <2>6. /\ Sound(h3, D, x) /\ Keeps(h2, h3)
        /\ \A m \in h2.alive : m \in h3.alive /\ h3.parent[m] = h2.parent[m]
    BY <2>2, <2>3, <2>5, CopyNodeSound
  <2>7. Kept(h3, K \cup {c})
    BY <2>2, <2>3, <2>4, <2>5, KeptNodeCopy
  <2>8. IsTree(h3)
    BY <2>6, SoundIsTree
  <2>9. /\ Shifts(h3, g, {n})
        /\ g.alive = h3.alive /\ g.parent = [h3.parent EXCEPT ![n] = NULL] /\ g.pinned = h3.pinned
    BY <1>1, <2>1, <2>8, UnlinkShifts, Z3
  <2>10. Kept(g, (K \cup {c}) \cup {n})
    BY <2>6, <2>7, <2>9, SoundShift
  <2>11. n \in Pinned(g) /\ g.parent[n] = NULL
    <3>1. h.doc[n] \in Doc
      BY <1>1 DEF IsTree
    <3>2. n \in h3.pinned[h.doc[n]]
      BY <2>2, <2>6, <3>1 DEF Keeps
    <3>3. QED BY <1>1, <2>8, <2>9, <3>1, <3>2 DEF Pinned, IsTree
  <2>12. \A m \in {n} \cap g.alive : /\ g.parent[m] = NULL => m \in Pinned(g)
                                     /\ m \in Rooted(g)
    BY <2>11, RootIsRooted, NullIsNoObject
  <2>13. Kept(g, K \cup {c})
    BY <2>10, <2>12, KeptRooted
  <2>14. \A m \in h.alive : m # n => g.parent[m] = h.parent[m]
    BY <1>1, <2>2, <2>6, <2>8, <2>9 DEF IsTree
  <2>15. QED BY <2>13, <2>14
<1>4. QED BY <1>2, <1>3

\* The wrapper of the node that is now in the tree.
LEMMA RewrapShifts ==
  ASSUME NEW q, IsTree(q.h), NEW w, NEW r, r = Rewrap(w, q)
  PROVE  /\ Shifts(q.h, r.h, {}) /\ r.n = q.n
         /\ r.h.alive = q.h.alive /\ r.h.parent = q.h.parent
<1> DEFINE h == q.h
           h1 == [h EXCEPT !.ptr[w] = q.n]
           pt == [h.ptr EXCEPT ![w] = q.n]
           g == noko_xml_node_wrap(h1, q.n)
<1>1. CASE q.n = NULL
  <2>1. r = q
    BY <1>1 DEF Rewrap
  <2>2. QED BY <2>1, ShiftsNothing
<1>2. CASE q.n # NULL
  <2>1. r = [h |-> g, n |-> q.n]
    BY <1>2 DEF Rewrap
  <2>2. h1 = [fresh |-> h.fresh, alive |-> h.alive, kind |-> h.kind, doc |-> h.doc,
              parent |-> h.parent, kids |-> h.kids, priv |-> h.priv, ptr |-> pt,
              pinned |-> h.pinned, cache |-> h.cache]
    BY DEF IsTree
  <2> HIDE DEF h1, pt
  <2>3. IsTree(h1) /\ Shifts(h, h1, {}) /\ h1.alive = h.alive /\ h1.parent = h.parent
    <3>1. IsTree(h1)
      BY <2>2 DEF IsTree
    <3>2. QED BY <2>2, <3>1 DEF Shifts, Pinned
  <2>4. Shifts(h1, g, {}) /\ g.alive = h1.alive /\ g.parent = h1.parent
    <3>1. CASE h1.priv[q.n] # NULL
      BY <2>3, <3>1, ShiftsNothing DEF noko_xml_node_wrap
    <3>2. CASE h1.priv[q.n] = NULL
      <4>1. g = Bind(h1, NewWrapper(h1), q.n)
        BY <3>2 DEF noko_xml_node_wrap
      <4> HIDE DEF g
      <4>2. Shifts(h1, g, {})
        BY <2>3, <4>1, BindShifts
      <4>3. g.alive = h1.alive /\ g.parent = h1.parent
        BY <2>3, <4>1 DEF Bind, IsTree
      <4>4. QED BY <4>2, <4>3
    <3>3. QED BY <3>1, <3>2
  <2> HIDE DEF h, g
  <2>5. Shifts(h, g, {} \cup {})
    BY <2>3, <2>4, ShiftsCompose
  <2>6. Shifts(h, g, {})
    BY <2>5, ShiftsMore
  <2>7. QED BY <2>1, <2>3, <2>4, <2>6 DEF h
<1>3. QED BY <1>1, <1>2

\* what a call to reparent_node_with that raises, or that ends, has left behind
Remembers(pivot, n, how, r, g, K, L) ==
  \/ /\ g = r.h
     /\ L = K \cup ({pivot, n, r.n} \cap r.h.alive)
  \/ /\ r.n # NULL /\ r.n \in Rooted(r.h)
     /\ g = IF how = "replace" THEN noko_xml_document_pin_node(r.h, pivot) ELSE r.h
     /\ L = IF pivot = n THEN K \cup ({pivot, r.n} \cap r.h.alive) ELSE K

\* A node that was moved hangs on a root, or is remembered.
LEMMA MovedKept ==
  ASSUME NEW k, NEW D, Sound(k, D, NULL), NEW q, Sound(q.h, D, NULL),
         NEW pivot, NEW c, NEW how, NEW n, NEW w, NEW r, r = Rewrap(w, q),
         Moves(k, q, pivot, c, how),
         how = "replace" => pivot \in Node,
         how # "child" /\ k.parent[pivot] = NULL => pivot = n,
         how = "replace" /\ pivot = n => c = n,
         NEW K, Kept(k, K \cup {c}),
         NEW g, NEW L, Remembers(pivot, n, how, r, g, K, L)
  PROVE  Kept(g, L)
<1>1. IsTree(q.h)
  BY SoundIsTree
<1>2. /\ Shifts(q.h, r.h, {}) /\ r.n = q.n
      /\ r.h.alive = q.h.alive /\ r.h.parent = q.h.parent
  BY <1>1, RewrapShifts
<1>3. IsTree(r.h) /\ Pinned(q.h) \subseteq Pinned(r.h)
  BY <1>2 DEF Shifts
<1>4. CASE q.n = NULL
  <2>1. /\ Shifts(k, q.h, {})
        /\ how # "replace" => pivot = c
        /\ how = "replace" => k.parent[pivot] = NULL
    BY <1>4 DEF Moves
  <2>2. Kept(q.h, (K \cup {c}) \cup {})
    BY <2>1, SoundShift
  <2>3. Kept(r.h, (K \cup {c}) \cup {})
    BY <1>2, <1>3, <2>2, KeptSame
  <2>4. c = pivot \/ c = n
    BY <2>1
  <2>5. g = r.h /\ L = K \cup ({pivot, n, r.n} \cap r.h.alive)
    BY <1>2, <1>4 DEF Remembers
  <2>6. QED BY <2>3, <2>4, <2>5, KeptMore
<1>5. CASE q.n # NULL
  <2> DEFINE M == Disturbed(pivot, c, how) \cup {c}
  <2>1. /\ Shifts(k, q.h, Disturbed(pivot, c, how))
        /\ c \in q.h.alive => q.n = c
        /\ q.h.parent[q.n] = NULL => how # "child" /\ k.parent[pivot] = NULL
        /\ how = "replace" => q.h.parent[pivot] = NULL
    BY <1>5 DEF Moves
  <2>2. Kept(q.h, (K \cup {c}) \cup Disturbed(pivot, c, how))
    BY <2>1, SoundShift
  <2>3. Kept(q.h, K \cup M)
    BY <2>2, KeptMore
  <2>4. \A m \in M : m = c \/ (how = "replace" /\ m = pivot)
    BY DEF Disturbed
  <2> HIDE DEF M
  <2>5. Kept(r.h, K \cup M)
    BY <1>2, <1>3, <2>3, KeptSame
  <2>6. CASE g = r.h /\ L = K \cup ({pivot, n, r.n} \cap r.h.alive)
    <3>1. (K \cup M) \cap r.h.alive \subseteq L
      BY <1>2, <2>1, <2>4, <2>6
    <3>2. QED BY <2>5, <2>6, <3>1, KeptMore
  <2>7. CASE /\ r.n # NULL /\ r.n \in Rooted(r.h)
             /\ g = IF how = "replace" THEN noko_xml_document_pin_node(r.h, pivot) ELSE r.h
             /\ L = IF pivot = n THEN K \cup ({pivot, r.n} \cap r.h.alive) ELSE K
    <3>1. /\ g.alive = r.h.alive /\ g.parent = r.h.parent /\ Pinned(r.h) \subseteq Pinned(g)
          /\ how = "replace" => pivot \in Pinned(g)
      <4>1. CASE how = "replace"
        <5>1. g = noko_xml_document_pin_node(r.h, pivot) /\ pivot \in Node
          BY <2>7, <4>1
        <5>2. /\ Shifts(r.h, g, {}) /\ g.alive = r.h.alive /\ g.parent = r.h.parent
              /\ pivot \in Pinned(g)
          BY <1>3, <5>1, PinShifts
        <5>3. QED BY <5>2 DEF Shifts
      <4>2. CASE how # "replace"
        BY <2>7, <4>2
      <4>3. QED BY <4>1, <4>2
    <3>2. Kept(g, K \cup M)
      BY <2>5, <3>1, KeptSame
    <3>3. CASE pivot = n
      <4>1. (K \cup M) \cap g.alive \subseteq L
        BY <1>2, <2>1, <2>4, <2>7, <3>1, <3>3
      <4>2. QED BY <3>2, <4>1, KeptMore
    <3>4. CASE pivot # n
      <4>1. L = K /\ q.h.parent[q.n] # NULL
        BY <2>1, <2>7, <3>4
      <4>2. q.n \in Rooted(g)
        BY <1>2, <2>7, <3>1, SMTT(30) DEF Rooted, Below
      <4>3. ASSUME NEW m \in M \cap g.alive
            PROVE  /\ g.parent[m] = NULL => m \in Pinned(g)
                   /\ m \in Rooted(g)
        <5>1. CASE m = c
          BY <1>2, <2>1, <3>1, <4>1, <4>2, <5>1
        <5>2. CASE how = "replace" /\ m = pivot
          <6>1. g.parent[m] = NULL /\ m \in Pinned(g) /\ m \in g.alive
            BY <1>2, <2>1, <3>1, <5>2
          <6>2. QED BY <6>1, RootIsRooted, NullIsNoObject
        <5>3. QED BY <2>4, <5>1, <5>2
      <4>4. QED BY <3>2, <4>1, <4>3, KeptRooted, SMTT(30)
    <3>5. QED BY <3>3, <3>4
  <2>8. QED BY <2>6, <2>7 DEF Remembers
<1>6. QED BY <1>4, <1>5

\* add_child, add_next_sibling, add_previous_sibling and replace.
LEMMA ReparentKeeps ==
  ASSUME IInv, Kept(heap, lost),
         NEW how \in {"child", "next", "prev", "replace"}, Reparent(how)
  PROVE  Kept(heap', lost')
<1> DEFINE G == Marked(heap, held)
<1>1. PICK pivot \in Pivots, w \in HeldWrappers :
        LET n == heap.ptr[w]
            parent == IF how = "child" THEN pivot ELSE heap.parent[pivot]
        IN  /\ CallerAllows(heap, pivot, n, how)
            /\ MayContain(heap, parent, n)
            /\ NeedsDup(heap, pivot, n) => CanCopy(heap, n) /\ Unborn(heap) # {}
            /\ Reparented(pivot, n, how, reparent_node_with(heap, pivot, w, how))
  BY DEF Reparent
<1> DEFINE n == heap.ptr[w]
           d == DocOf(heap, pivot)
           c == IF NeedsDup(heap, pivot, n) THEN CopyOf(heap, n) ELSE n
           g == xmlUnlinkNode(IF NeedsDup(heap, pivot, n) THEN Duplicate(heap, pivot, n)
                              ELSE heap, n)
           q == prf(g, pivot, c, how)
           r == Rewrap(w, q)
<1>2. /\ heap \in Heap /\ Sound(heap, dstate, NULL) /\ Usable(heap, dstate, G)
      /\ w \in G \cap Wrapper
  BY HeldAreUsable DEF IInv
<1>3. pivot \in G \cap Doc \/ (pivot \in heap.alive /\ heap.doc[pivot] \in G)
  BY PivotIsUsable
<1>4. /\ how = "child" => MayContain(heap, pivot, n)
      /\ how # "child" => /\ pivot \in Node /\ heap.kind[pivot] # Attr
                          /\ MayContain(heap, heap.parent[pivot], n)
                          /\ heap.parent[pivot] # NULL
      /\ how = "replace" => ~IsText(heap, pivot)
      /\ NeedsDup(heap, pivot, n) => CanCopy(heap, n)
  BY <1>1 DEF CallerAllows, SiblingAllowed, ReplaceAllowed
<1>5. Remembers(pivot, n, how, r, heap', lost, lost')
  <2>1. Reparented(pivot, n, how, r)
    BY <1>1 DEF reparent_node_with
  <2> HIDE DEF n, r
  <2>2. QED BY <2>1 DEF Reparented, Remembers
<1>6. /\ n = heap.ptr[w] /\ d = DocOf(heap, pivot)
      /\ c = IF NeedsDup(heap, pivot, n) THEN CopyOf(heap, n) ELSE n
  OBVIOUS
<1>7. /\ g = xmlUnlinkNode(IF NeedsDup(heap, pivot, n) THEN Duplicate(heap, pivot, n) ELSE heap, n)
      /\ q = prf(g, pivot, c, how) /\ r = Rewrap(w, q)
  OBVIOUS
<1> HIDE DEF G, n, d, c, g, q, r
<1>8. /\ n \in heap.alive /\ heap.doc[n] \in G /\ heap.doc[n] \in Doc
      /\ dstate[heap.doc[n]] = "live"
      /\ heap.kind[n] # Attr
      /\ d \in G /\ d \in Doc /\ dstate[d] = "live"
      /\ Sound(g, dstate, NULL) /\ Keeps(heap, g) /\ g.fresh \subseteq heap.fresh
      /\ Ready(g, dstate, c) /\ g.doc[c] = d
      /\ NeedsDup(heap, pivot, n) \/ (~IsText(g, c) /\ g.priv[c] # NULL)
      /\ IsText(heap, n) => n \in g.pinned[heap.doc[n]]
      /\ PlaceFor(g, dstate, pivot, c, how)
      /\ \A m \in heap.alive : g.kind[m] = heap.kind[m]
  BY <1>2, <1>3, <1>4, <1>6, <1>7, ArgumentPlace, Z3T(30)
<1>9. /\ Kept(g, lost \cup {c})
      /\ \A m \in heap.alive : m # n => g.parent[m] = heap.parent[m]
  <2>1. /\ Sound(heap, dstate, NULL) /\ n \in heap.alive /\ heap.kind[n] # Attr
        /\ w \in Wrapper /\ heap.ptr[w] = n
        /\ d \in Doc /\ DocOf(heap, pivot) = d /\ dstate[d] = "live"
        /\ NeedsDup(heap, pivot, n) => CanCopy(heap, n)
        /\ g = xmlUnlinkNode(IF NeedsDup(heap, pivot, n) THEN Duplicate(heap, pivot, n)
                             ELSE heap, n)
        /\ Sound(g, dstate, NULL)
        /\ c = IF NeedsDup(heap, pivot, n) THEN CopyOf(heap, n) ELSE n
        /\ Kept(heap, lost)
    BY <1>2, <1>4, <1>6, <1>7, <1>8
  <2>2. QED BY ONLY <2>1, ArgumentKept, Z3T(30)
<1>10. how # "child" => pivot \in heap.alive /\ pivot \notin Doc
  BY <1>2, <1>3, <1>4, DistinctSorts
<1>11. how = "replace" => ~IsText(g, pivot)
  BY <1>4, <1>8, <1>10 DEF IsText
<1>12. Moves(g, q, pivot, c, how)
  BY <1>7, <1>8, <1>11, PrfMoves
<1>13. Sound(q.h, dstate, NULL)
  BY <1>7, <1>8, PrfPlaced DEF Placed
<1>14. how # "child" /\ g.parent[pivot] = NULL => pivot = n
  BY <1>4, <1>9, <1>10
<1>15. how = "replace" /\ pivot = n => c = n
  BY <1>4, <1>6, <1>10 DEF NeedsDup, DocOf
<1>16. QED
  BY <1>4, <1>5, <1>7, <1>8, <1>9, <1>12, <1>13, <1>14, <1>15, MovedKept

-----------------------------------------------------------------------------
(* The theorem.                                                            *)

\* Every step keeps what hangs on nothing in sight.
LEMMA StepKeeps == IInv /\ Kept(heap, lost) /\ [Next]_vars => Kept(heap, lost)'
<1> SUFFICES ASSUME IInv, Kept(heap, lost), [Next]_vars PROVE Kept(heap', lost')
  OBVIOUS
<1>1. CASE UNCHANGED vars
  BY <1>1 DEF vars
<1>2. CASE CoreNext
  <2>1. ASSUME NEW how \in {"child", "next", "prev", "replace"}, Reparent(how)
        PROVE  Kept(heap', lost')
    BY <2>1, ReparentKeeps
  <2>2. QED
    BY <1>2, <2>1, NavigateKeeps, NewNodeKeeps, UnlinkKeeps, CopyKeeps, RootSetKeeps,
       AttrSetValueKeeps, NativeContentKeeps, XincludeKeeps, NewDocumentKeeps, DupDocumentKeeps,
       ForgetKeeps, CollectKeeps
       DEF CoreNext, add_child, add_next_sibling, add_previous_sibling, replace
<1>3. ASSUME NEW w \in HeldWrappers, OneWrappedChild(w) /\ set(w) PROVE Kept(heap', lost')
  BY <1>3, SetKeeps
<1>4. QED BY <1>1, <1>2, <1>3 DEF Next

\* In every state every node hangs on a document, on a node that is pinned, or on one that a
\* call which raised has left behind.
THEOREM NothingIsLost == Spec => []Kept(heap, lost)
<1>1. Init => Kept(heap, lost)
  BY ParsedKept DEF Init
<1>2. QED BY <1>1, StepKeeps, Inductive, PTL DEF Spec

\* Every node will be freed with its document (NothingLeaks).
THEOREM NoLeak == Spec => []NothingLeaks
<1>1. IInv /\ Kept(heap, lost) => NothingLeaks
  BY KeptIsFreed DEF IInv, Sound, Heap, NothingLeaks
<1>2. QED BY <1>1, Inductive, NothingIsLost, PTL

=============================================================================
