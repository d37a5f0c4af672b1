------------------------- MODULE NodeLifecycleHeap --------------------------
(* What the operators of NodeLifecycle preserve.  First the tools: sequences of *)
(* children, least closed sets, and Sound, what is true of the heap between two *)
(* steps of C code.  Then, for each function of libxml2 that makes, unlinks, *)
(* links, merges, frees or copies a node, and each one of the extension that *)
(* binds a wrapper or moves a node (reparent_node_with): it keeps the heap sound. *)
EXTENDS NodeLifecycle, SequenceTheorems, WellFoundedInduction, TLAPS

-----------------------------------------------------------------------------
(* Sequences of children.                                                  *)

\* The members of a sequence are the values of its indices.
LEMMA MembersOfSeq ==
  ASSUME NEW S, NEW s \in Seq(S)
  PROVE  /\ Len(s) \in Nat /\ DOMAIN s = 1 .. Len(s)
         /\ Members(s) \subseteq S
         /\ \A i \in 1 .. Len(s) : s[i] \in S /\ s[i] \in Members(s)
         /\ \A x : x \in Members(s) <=> \E i \in 1 .. Len(s) : s[i] = x
BY DEF Members

\* Induction over the numbers up to n, with a set for the induction hypothesis.
LEMMA CountingUp ==
  ASSUME NEW n \in Nat, NEW T, 0 \in T, \A i \in 1 .. n : i - 1 \in T => i \in T
  PROVE  0 .. n \subseteq T
<1>1. SUFFICES ASSUME (0 .. n) \ T # {} PROVE FALSE
  OBVIOUS
<1> DEFINE R == OpToRel(<, Nat)
<1>2. IsWellFoundedOn(R, Nat)
  BY NatLessThanWellFounded
<1>3. \A x, y \in Nat : x < y => <<x, y>> \in R
  BY DEF OpToRel
<1> HIDE DEF R
<1>4. PICK x \in (0 .. n) \ T : \A y \in (0 .. n) \ T : ~ (<<y, x>> \in R)
  <2>1. (0 .. n) \ T \subseteq Nat
    OBVIOUS
  <2>2. QED BY <1>1, <1>2, <2>1, WFMin
<1>5. x \in 1 .. n /\ x - 1 \in 0 .. n /\ x - 1 \in Nat /\ x - 1 < x
  BY <1>4, SMTT(20)
<1>6. x - 1 \notin T
  BY <1>4, <1>5
<1>7. x - 1 \in (0 .. n) \ T
  BY <1>5, <1>6
<1>8. <<x - 1, x>> \in R
  BY <1>3, <1>5
<1>9. QED BY <1>4, <1>7, <1>8

\* Position finds a member.
LEMMA PositionOfMember ==
  ASSUME NEW S, NEW s \in Seq(S), NEW x \in Members(s)
  PROVE  Position(s, x) \in 1 .. Len(s) /\ s[Position(s, x)] = x
<1> DEFINE before == {i \in 0 .. Len(s) : \A j \in 1 .. i : s[j] # x}
<1>1. Len(s) \in Nat /\ DOMAIN s = 1 .. Len(s) /\ \E i \in 1 .. Len(s) : s[i] = x
  BY MembersOfSeq
<1>2. 0 \in before /\ Len(s) \notin before
  BY <1>1
<1>3. ~ (0 .. Len(s) \subseteq before)
  BY <1>1, <1>2
<1>4. PICK i \in 1 .. Len(s) : i - 1 \in before /\ i \notin before
  <2> HIDE DEF before
  <2> QED BY <1>1, <1>2, <1>3, CountingUp
<1>5. s[i] = x /\ \A j \in 1 .. i - 1 : s[j] # x
  <2>1. \A j \in 1 .. i - 1 : s[j] # x
    BY <1>4
  <2>2. PICK j \in 1 .. i : s[j] = x
    BY <1>4
  <2>3. j = i
    BY <2>1, <2>2
  <2>4. QED BY <2>1, <2>2, <2>3
<1>6. Position(s, x) \in DOMAIN s /\ s[Position(s, x)] = x
  BY <1>1, <1>5 DEF Position
<1>7. QED
  BY <1>1, <1>6

\* Without removes its argument and keeps the order and the other members.
LEMMA WithoutMember ==
  ASSUME NEW S, NEW s \in Seq(S), NEW x \in S, Injective(s)
  PROVE  /\ Without(s, x) \in Seq(S)
         /\ Injective(Without(s, x))
         /\ Members(Without(s, x)) = Members(s) \ {x}
         /\ x \in Members(s) => Len(Without(s, x)) = Len(s) - 1
<1>1. CASE x \notin Members(s)
  BY <1>1 DEF Without
<1>2. CASE x \in Members(s)
  <2> DEFINE k == Position(s, x)
             t == [i \in 1 .. Len(s) - 1 |-> IF i < k THEN s[i] ELSE s[i + 1]]
  <2>1. Len(s) \in Nat /\ DOMAIN s = 1 .. Len(s) /\ k \in 1 .. Len(s) /\ s[k] = x
    BY <1>2, MembersOfSeq, PositionOfMember
  <2>2. \A i \in 1 .. Len(s) : s[i] \in S
    BY MembersOfSeq
  <2>3. \A i, j \in 1 .. Len(s) : s[i] = s[j] => i = j
    BY <2>1 DEF Injective
  <2>4. Without(s, x) = t
    BY <1>2 DEF Without
  <2> HIDE DEF k
  <2>5. \A i \in 1 .. Len(s) - 1 : t[i] \in S
    BY <2>1, <2>2
  <2>6. Len(s) - 1 \in Nat
    BY <2>1
  <2>7. t \in Seq(S) /\ Len(t) = Len(s) - 1 /\ DOMAIN t = 1 .. Len(s) - 1
    BY <2>5, <2>6, IsASeq
  <2>8. Injective(t)
    BY <2>1, <2>3 DEF Injective
  <2>9. \A y : y \in Members(t) => y \in Members(s) \ {x}
    <3>1. SUFFICES ASSUME NEW i \in 1 .. Len(s) - 1 PROVE t[i] \in Members(s) \ {x}
      BY <2>7 DEF Members
    <3>2. CASE i < k
      BY <2>1, <2>3, <3>2, MembersOfSeq
    <3>3. CASE ~(i < k)
      <4>1. i + 1 \in 1 .. Len(s) /\ i + 1 # k
        BY <2>1, <3>3
      <4>2. s[i + 1] \in Members(s) /\ s[i + 1] # x
        BY <2>1, <2>3, <4>1, MembersOfSeq
      <4>3. QED BY <3>3, <4>2
    <3>4. QED BY <3>2, <3>3
  <2>10. ASSUME NEW y \in Members(s), y # x PROVE y \in Members(t)
    <3>1. PICK i \in 1 .. Len(s) : s[i] = y
      BY MembersOfSeq
    <3>2. CASE i < k
      <4>1. i \in 1 .. Len(s) - 1 /\ t[i] = y
        BY <2>1, <3>1, <3>2
      <4>2. QED BY <4>1, <2>7 DEF Members
    <3>3. CASE ~(i < k)
      <4>1. i - 1 \in 1 .. Len(s) - 1 /\ ~(i - 1 < k) /\ i - 1 + 1 = i
        BY <2>1, <2>10, <3>1, <3>3
      <4>2. t[i - 1] = y
        BY <3>1, <4>1
      <4>3. QED BY <4>1, <4>2, <2>7 DEF Members
    <3>4. QED BY <3>2, <3>3
  <2>11. Members(t) = Members(s) \ {x}
    BY <2>9, <2>10
  <2> HIDE DEF t
  <2>12. QED
    BY <2>4, <2>7, <2>8, <2>11
<1>3. QED
  BY <1>1, <1>2

\* PutAt adds its argument and keeps the order and the other members.
LEMMA PutAtMember ==
  ASSUME NEW S, NEW s \in Seq(S), NEW x \in S, NEW p \in 1 .. Len(s) + 1,
         Injective(s), x \notin Members(s)
  PROVE  /\ PutAt(s, p, x) \in Seq(S)
         /\ Injective(PutAt(s, p, x))
         /\ Members(PutAt(s, p, x)) = Members(s) \cup {x}
<1> DEFINE t == PutAt(s, p, x)
<1>1. Len(s) \in Nat /\ DOMAIN s = 1 .. Len(s) /\ p \in Nat
  BY MembersOfSeq
<1>2. \A i \in 1 .. Len(s) : s[i] \in S /\ s[i] # x /\ s[i] \in Members(s)
  BY MembersOfSeq
<1>3. \A i, j \in 1 .. Len(s) : s[i] = s[j] => i = j
  BY <1>1 DEF Injective
<1>4. t = [j \in 1 .. Len(s) + 1 |-> IF j < p THEN s[j] ELSE IF j = p THEN x ELSE s[j - 1]]
  BY DEF PutAt
<1>5. /\ \A j \in 1 .. Len(s) + 1 : j < p => j \in 1 .. Len(s) /\ t[j] = s[j]
      /\ t[p] = x
      /\ \A j \in 1 .. Len(s) + 1 : j > p => j - 1 \in 1 .. Len(s) /\ t[j] = s[j - 1]
  BY <1>1, <1>4
<1>6. DOMAIN t = 1 .. Len(s) + 1
  BY <1>4
<1> HIDE DEF t
<1>7. \A j \in 1 .. Len(s) + 1 : t[j] \in S /\ t[j] \in Members(s) \cup {x}
  BY <1>1, <1>2, <1>5
<1>8. t \in Seq(S)
  <2>1. t \in [1 .. Len(s) + 1 -> S]
    BY <1>4, <1>7
  <2>2. Len(s) + 1 \in Nat
    BY <1>1
  <2>3. QED BY <2>1, <2>2, SeqDef
<1>9. ASSUME NEW i \in 1 .. Len(s) + 1, NEW j \in 1 .. Len(s) + 1, t[i] = t[j]
      PROVE  i = j
  <2>1. CASE i < p
    BY <1>1, <1>2, <1>3, <1>5, <1>9, <2>1
  <2>2. CASE i = p
    BY <1>1, <1>2, <1>3, <1>5, <1>9, <2>2
  <2>3. CASE i > p
    BY <1>1, <1>2, <1>3, <1>5, <1>9, <2>3
  <2>4. QED BY <1>1, <2>1, <2>2, <2>3
<1>10. ASSUME NEW y \in Members(s) PROVE y \in Members(t)
  <2>1. PICK i \in 1 .. Len(s) : s[i] = y
    BY MembersOfSeq
  <2>2. CASE i < p
    BY <1>1, <1>5, <1>6, <2>1, <2>2 DEF Members
  <2>3. CASE ~(i < p)
    <3>1. i + 1 \in 1 .. Len(s) + 1 /\ i + 1 > p /\ i + 1 - 1 = i
      BY <1>1, <2>3
    <3>2. t[i + 1] = y
      BY <1>5, <2>1, <3>1
    <3>3. QED BY <1>6, <3>1, <3>2 DEF Members
  <2>4. QED BY <2>2, <2>3
<1>11. x \in Members(t)
  BY <1>1, <1>5, <1>6 DEF Members
<1>12. Members(t) = Members(s) \cup {x}
  BY <1>6, <1>7, <1>10, <1>11 DEF Members
<1>13. QED
  BY <1>6, <1>8, <1>9, <1>12 DEF Injective, t

-----------------------------------------------------------------------------
(* The least closed sets: nothing here depends on a recursion.             *)

\* Below holds its roots, is closed under children, and is within every set
\* that is.
LEMMA BelowIsLeast ==
  ASSUME NEW h, NEW R
  PROVE  /\ R \subseteq Below(h, R)
         /\ Below(h, R) \subseteq R \cup h.alive
         /\ \A c \in h.alive : h.parent[c] \in Below(h, R) => c \in Below(h, R)
         /\ \A S : /\ R \subseteq S
                   /\ \A c \in h.alive : h.parent[c] \in S => c \in S
                   => Below(h, R) \subseteq S
<1> DEFINE closed == {S \in SUBSET (h.alive \ R) :
                        \A c \in h.alive : h.parent[c] \in R \cup S => c \in R \cup S}
<1>1. Below(h, R) = R \cup {n \in h.alive : \A S \in closed : n \in S}
  BY DEF Below
<1>2. ASSUME NEW c \in h.alive, h.parent[c] \in Below(h, R) PROVE c \in Below(h, R)
  <2>1. SUFFICES ASSUME c \notin R, NEW S \in closed PROVE c \in S
    BY <1>1
  <2>2. h.parent[c] \in R \cup S
    BY <1>1, <1>2
  <2>3. QED BY <2>1, <2>2
<1>3. ASSUME NEW S, R \subseteq S, \A c \in h.alive : h.parent[c] \in S => c \in S
      PROVE  Below(h, R) \subseteq S
  <2> DEFINE T == (S \cap h.alive) \ R
  <2>1. T \in closed
    BY <1>3
  <2>2. QED BY <1>1, <1>3, <2>1
<1>4. QED
  BY <1>1, <1>2, <1>3

\* Marked holds the roots, is closed under marking, and is within every set of
\* objects that is.
LEMMA MarkedIsLeast ==
  ASSUME NEW h, NEW roots \in SUBSET Objects
  PROVE  /\ roots \subseteq Marked(h, roots)
         /\ Marked(h, roots) \subseteq Objects
         /\ \A G \in SUBSET Objects : roots \subseteq G /\ Marks(h, G) \subseteq G
                                        => Marked(h, roots) \subseteq G
<1> DEFINE closed == {S \in SUBSET (Objects \ roots) : Marks(h, roots \cup S) \subseteq roots \cup S}
<1>1. Marked(h, roots) = roots \cup {o \in Objects : \A S \in closed : o \in S}
  BY DEF Marked
<1>2. ASSUME NEW G \in SUBSET Objects, roots \subseteq G, Marks(h, G) \subseteq G
      PROVE  Marked(h, roots) \subseteq G
  <2>1. roots \cup (G \ roots) = G
    BY <1>2
  <2>2. G \ roots \in closed
    BY <1>2, <2>1
  <2>3. QED BY <1>1, <1>2, <2>2
<1>3. QED BY <1>1, <1>2

-----------------------------------------------------------------------------
(* The sound heap.  D is the function dstate; x is a node that forgot its   *)
(* wrapper before it is unlinked, or NULL.                                  *)

\* no address is both free and allocated
Allocated(h) == h.fresh \cap h.alive = {}

\* the parent of a node is a node that may have it, or its document
Upward(h) ==
  \A n \in h.alive :
    /\ h.parent[n] \in Node => /\ h.parent[n] \in h.alive
                               /\ h.doc[h.parent[n]] = h.doc[n]
                               /\ h.kind[h.parent[n]] \in {Elem, Frag, Attr}
                               /\ h.kind[h.parent[n]] = Attr => h.kind[n] \in {Text, Blank, Ref}
    /\ h.parent[n] \in Doc => h.parent[n] = h.doc[n]

InTree(h, D, p) == p \in h.alive \/ (p \in Doc /\ D[p] # "freed")

\* the children of a node, and of a document, are the nodes that have it as parent
Downward(h, D) ==
  \A p \in Node \cup Doc : InTree(h, D, p) =>
    /\ Injective(h.kids[p])
    /\ \A n \in Node : n \in Members(h.kids[p])
                         <=> n \in h.alive /\ h.parent[n] = p /\ h.kind[n] # Attr

\* no wrapper points at memory that was never allocated
Pointing(h) == \A w \in Wrapper : h.ptr[w] \notin h.fresh

\* the wrapper that a node names is in the cache of its document
Cached(h, D) ==
  \A n \in h.alive : h.priv[n] # NULL /\ D[h.doc[n]] # "freed" => h.priv[n] \in h.cache[h.doc[n]]

\* a node that a wrapper points at and that names none is a text outside the tree
Forgotten(h, x) ==
  \A w \in Wrapper : h.ptr[w] \in h.alive /\ h.priv[h.ptr[w]] = NULL =>
    IsText(h, h.ptr[w]) /\ (h.ptr[w] = x \/ h.parent[h.ptr[w]] = NULL)

\* What a document pins is allocated and its own.  A pinned text or attribute
\* is detached, and a pinned node that has a parent names its wrapper.
Pins(h, x) ==
  \A d \in Doc : \A n \in h.pinned[d] :
    /\ n \in h.alive /\ h.doc[n] = d
    /\ n # x /\ h.parent[n] # NULL => /\ h.kind[n] # Attr /\ ~IsText(h, n)
                                      /\ h.priv[n] # NULL

\* a text in a tree and the wrapper it names point at each other
Agrees(h) ==
  \A n \in h.alive :
    IsText(h, n) /\ h.parent[n] # NULL /\ h.priv[n] # NULL => h.ptr[h.priv[n]] = n

\* a document that does not exist has neither nodes nor wrappers
NotBorn(h, D) ==
  \A d \in Doc : D[d] = "unborn" => h.cache[d] = {} /\ \A n \in h.alive : h.doc[n] # d

Sound(h, D, x) == /\ h \in Heap
                  /\ Allocated(h)
                  /\ Upward(h)
                  /\ Downward(h, D)
                  /\ Pointing(h)
                  /\ Cached(h, D)
                  /\ Forgotten(h, x)
                  /\ Pins(h, x)
                  /\ Agrees(h)
                  /\ NotBorn(h, D)

(* The objects G may be used: what they refer to exists, and they hold what *)
(* they mark.                                                               *)
Usable(h, D, G) ==
  /\ G \subseteq Objects
  /\ \A d \in G \cap Doc : D[d] = "live" /\ h.cache[d] \subseteq G
  /\ \A w \in G \cap Wrapper : h.ptr[w] \in h.alive /\ h.doc[h.ptr[w]] \in G

\* the node m keeps its kind and the wrapper that it names
SameNode(h, g, m) == g.kind[m] = h.kind[m] /\ g.priv[m] = h.priv[m]

\* A step of C code that frees nothing that a wrapper points at: of the nodes
\* that there were, only texts change, into texts.
Keeps(h, g) ==
  /\ g.ptr = h.ptr
  /\ g.cache = h.cache
  /\ g.fresh \subseteq h.fresh
  /\ \A d \in Doc : h.pinned[d] \subseteq g.pinned[d]
  /\ \A m \in Node : m \in h.fresh \/ SameNode(h, g, m) \/ (IsText(h, m) /\ IsText(g, m))
  /\ \A w \in Wrapper : h.ptr[w] \in h.alive =>
       h.ptr[w] \in g.alive /\ g.doc[h.ptr[w]] = h.doc[h.ptr[w]]

\* a node that may be freed: no wrapper points at it, and no document pins it
Spare(h, n) == /\ \A w \in Wrapper : h.ptr[w] # n
               /\ \A d \in Doc : n \notin h.pinned[d]
               /\ h.priv[n] = NULL

\* a node that may be put into the tree
Linkable(h, n) == Spare(h, n) \/ (~IsText(h, n) /\ h.priv[n] # NULL)

\* What is usable stays usable.
LEMMA KeepsUsable ==
  ASSUME NEW h, NEW g, NEW D, NEW G, Keeps(h, g), Usable(h, D, G)
  PROVE  Usable(g, D, G)
BY DEF Keeps, Usable

\* Steps compose.
LEMMA KeepsComposes ==
  ASSUME NEW h, NEW g, NEW k, Keeps(h, g), Keeps(g, k)
  PROVE  Keeps(h, k)
BY DEF Keeps, SameNode, IsText

\* What changes nothing keeps everything.
LEMMA KeepsNothing ==
  ASSUME NEW h, NEW g,
         g.ptr = h.ptr, g.cache = h.cache, g.pinned = h.pinned, g.kind = h.kind, g.priv = h.priv,
         g.fresh = h.fresh, g.alive = h.alive, g.doc = h.doc
  PROVE  Keeps(h, g)
BY DEF Keeps, SameNode

\* Usable objects bound what is marked, and what is marked is usable itself.
LEMMA MarkedIsUsable ==
  ASSUME NEW h \in Heap, NEW D, NEW G, Usable(h, D, G), NEW roots \in SUBSET G
  PROVE  /\ Marked(h, roots) \subseteq G
         /\ Usable(h, D, Marked(h, roots))
<1> DEFINE M == Marked(h, roots)
<1>0. G \subseteq Objects /\ roots \in SUBSET Objects
  BY DEF Usable
<1>1. Marks(h, G) \subseteq G
  <2>1. \A w \in G \cap Wrapper : h.doc[h.ptr[w]] \in G
    BY DEF Usable
  <2>2. \A d \in G \cap Doc : h.cache[d] \subseteq G
    BY DEF Usable
  <2>3. QED BY <2>1, <2>2 DEF Marks
<1>2. M \subseteq G /\ roots \subseteq M /\ M \subseteq Objects
  BY <1>0, <1>1, MarkedIsLeast
<1>3. ASSUME NEW o \in Marks(h, M) PROVE o \in M
  <2> DEFINE closed == {S \in SUBSET (Objects \ roots) :
                          Marks(h, roots \cup S) \subseteq roots \cup S}
  <2>1. M = roots \cup {p \in Objects : \A S \in closed : p \in S}
    BY DEF Marked
  <2>2. ASSUME NEW S \in closed PROVE o \in roots \cup S
    <3>1. M \subseteq roots \cup S
      BY <2>1
    <3>2. Marks(h, M) \subseteq Marks(h, roots \cup S)
      <4> HIDE DEF M, closed
      <4> QED BY <3>1 DEF Marks
    <3>3. QED BY <3>2
  <2>3. o \in Objects
    <3>1. Marks(h, M) \subseteq Marks(h, G)
      <4> HIDE DEF M, closed
      <4> QED BY <1>2 DEF Marks
    <3>2. QED BY <1>0, <1>1, <3>1
  <2>4. QED BY <2>1, <2>2, <2>3
<1>4. \A w \in M \cap Wrapper : h.ptr[w] \in h.alive /\ h.ptr[w] # NULL
  <2> HIDE DEF M
  <2> QED BY <1>2, NullIsNoObject DEF Usable, Heap
<1>5. \A w \in M \cap Wrapper : h.doc[h.ptr[w]] \in Marks(h, M)
  <2> HIDE DEF M
  <2> QED BY <1>4 DEF Marks
<1>6. \A d \in M \cap Doc : h.cache[d] \subseteq Marks(h, M)
  <2> HIDE DEF M
  <2> QED BY DEF Marks
<1>7. \A d \in M \cap Doc : D[d] = "live"
  <2> HIDE DEF M
  <2> QED BY <1>2 DEF Usable
<1>8. Usable(h, D, M)
  <2> HIDE DEF M
  <2> QED BY <1>2, <1>3, <1>4, <1>5, <1>6, <1>7 DEF Usable
<1>9. QED BY <1>2, <1>8

-----------------------------------------------------------------------------
(* A new node.                                                             *)

\* g is h with one more node, of kind k, that belongs to document d and is detached
HasNew(h, g, n, k, d) ==
  /\ g \in Heap
  /\ g.fresh = h.fresh \ {n} /\ g.alive = h.alive \cup {n}
  /\ g.kind = [h.kind EXCEPT ![n] = k] /\ g.doc = [h.doc EXCEPT ![n] = d]
  /\ g.parent = [h.parent EXCEPT ![n] = NULL] /\ g.kids = [h.kids EXCEPT ![n] = <<>>]
  /\ g.priv = [h.priv EXCEPT ![n] = NULL]
  /\ g.ptr = h.ptr /\ g.pinned = h.pinned /\ g.cache = h.cache

\* The fields after xmlNewNode.
LEMMA NewNodeFields ==
  ASSUME NEW h \in Heap, NEW n \in Node, NEW k \in Kind, NEW d \in Doc,
         NEW g, g = xmlNewNode(h, n, k, d)
  PROVE  HasNew(h, g, n, k, d)
<1> DEFINE kind   == [h.kind EXCEPT ![n] = k]
           doc    == [h.doc EXCEPT ![n] = d]
           parent == [h.parent EXCEPT ![n] = NULL]
           kids   == [h.kids EXCEPT ![n] = <<>>]
           priv   == [h.priv EXCEPT ![n] = NULL]
<1>1. g = [fresh |-> h.fresh \ {n}, alive |-> h.alive \cup {n}, kind |-> kind, doc |-> doc,
           parent |-> parent, kids |-> kids, priv |-> priv, ptr |-> h.ptr, pinned |-> h.pinned,
           cache |-> h.cache]
  BY DEF Heap, xmlNewNode
<1>2. kids \in [Node \cup Doc -> Seq(Node)]
  <2>1. <<>> \in Seq(Node)
    OBVIOUS
  <2>2. QED BY <2>1 DEF Heap
<1>3. /\ h.fresh \ {n} \in SUBSET Node /\ h.alive \cup {n} \in SUBSET Node
      /\ kind \in [Node -> Kind] /\ doc \in [Node -> Doc]
      /\ parent \in [Node -> Node \cup Doc \cup {NULL}] /\ priv \in [Node -> Wrapper \cup {NULL}]
      /\ h.ptr \in [Wrapper -> Node \cup {NULL}] /\ h.pinned \in [Doc -> SUBSET Node]
      /\ h.cache \in [Doc -> SUBSET Wrapper]
  BY DEF Heap
<1> HIDE DEF kind, doc, parent, kids, priv
<1>4. g \in Heap
  BY <1>1, <1>2, <1>3 DEF Heap
<1>5. QED BY <1>1, <1>4 DEF HasNew, kind, doc, parent, kids, priv

\* malloc gives an address that is free, and that nothing points at.
LEMMA MallocIsFresh ==
  ASSUME NEW h, NEW D, NEW x, Sound(h, D, x), h.fresh # {}
  PROVE  /\ malloc(h) \in h.fresh /\ malloc(h) \in Node /\ malloc(h) \notin h.alive
         /\ \A n \in h.alive : h.parent[n] # malloc(h)
<1>1. malloc(h) \in h.fresh
  BY DEF malloc
<1>2. QED
  BY <1>1 DEF Sound, Heap, Allocated, Upward

\* A new node of a live document keeps the heap sound.
LEMMA NewNodeSound ==
  ASSUME NEW h, NEW D, NEW x, Sound(h, D, x), NEW n \in h.fresh,
         NEW k \in Kind, NEW d \in Doc, D[d] = "live",
         NEW g, g = xmlNewNode(h, n, k, d)
  PROVE  /\ Sound(g, D, x)
         /\ Keeps(h, g)
         /\ n \in Node /\ n \in g.alive /\ Spare(g, n)
         /\ g.fresh = h.fresh \ {n} /\ g.pinned = h.pinned
         /\ g.parent[n] = NULL /\ g.kind[n] = k /\ g.doc[n] = d /\ g.kids[n] = <<>>
         /\ \A m \in h.alive : /\ m \in g.alive /\ SameNode(h, g, m)
                               /\ g.doc[m] = h.doc[m] /\ g.parent[m] = h.parent[m]
         /\ \A p \in Node \cup Doc : p # n => g.kids[p] = h.kids[p]
<1>1. /\ h \in Heap /\ n \in Node /\ n \notin h.alive
      /\ \A w \in Wrapper : h.ptr[w] # n
      /\ \A m \in h.alive : h.parent[m] # n
  BY DEF Sound, Heap, Allocated, Pointing, Upward
<1>2. /\ g \in Heap
      /\ g.fresh = h.fresh \ {n} /\ g.alive = h.alive \cup {n}
      /\ g.kind = [h.kind EXCEPT ![n] = k] /\ g.doc = [h.doc EXCEPT ![n] = d]
      /\ g.parent = [h.parent EXCEPT ![n] = NULL] /\ g.kids = [h.kids EXCEPT ![n] = <<>>]
      /\ g.priv = [h.priv EXCEPT ![n] = NULL]
      /\ g.ptr = h.ptr /\ g.pinned = h.pinned /\ g.cache = h.cache
  <2>1. h \in Heap /\ n \in Node /\ k \in Kind /\ d \in Doc /\ g = xmlNewNode(h, n, k, d)
    BY <1>1
  <2>2. HasNew(h, g, n, k, d)
    BY <2>1, NewNodeFields
  <2>3. QED BY <2>2 DEF HasNew
<1>3. Allocated(g)
  BY <1>1, <1>2 DEF Sound, Allocated
<1> DEFINE same(m) == /\ m \in Node /\ g.kind[m] = h.kind[m] /\ g.doc[m] = h.doc[m]
                      /\ g.parent[m] = h.parent[m] /\ g.priv[m] = h.priv[m]
<1>a. \A m \in h.alive : same(m)
  BY <1>1, <1>2 DEF Heap
<1>b. g.parent[n] = NULL /\ g.priv[n] = NULL /\ g.doc[n] = d
  BY <1>1, <1>2 DEF Heap
<1>4. Upward(g)
  <2>1. ASSUME NEW m \in h.alive, h.parent[m] \in Node
        PROVE  h.parent[m] \in h.alive /\ same(h.parent[m]) /\ same(m)
    BY <1>a, <2>1 DEF Sound, Upward
  <2> HIDE DEF same
  <2>2. QED BY <1>a, <1>b, <1>2, <2>1, NullIsNoObject DEF Sound, Upward, same
<1>5. Downward(g, D)
  <2>1. Injective(<<>>) /\ Members(<<>>) = {}
    BY DEF Injective, Members
  <2>2. SUFFICES ASSUME NEW p \in Node \cup Doc, InTree(g, D, p)
                 PROVE  /\ Injective(g.kids[p])
                        /\ \A m \in Node : m \in Members(g.kids[p])
                             <=> m \in g.alive /\ g.parent[m] = p /\ g.kind[m] # Attr
    BY DEF Downward
  <2>3. CASE p = n
    BY <1>1, <1>2, <2>1, <2>3, NullIsNoObject DEF Heap
  <2>4. CASE p # n
    <3>1. InTree(h, D, p) /\ g.kids[p] = h.kids[p]
      BY <1>1, <1>2, <2>2, <2>4 DEF InTree, Heap
    <3>2. \A m \in Node : m \in g.alive /\ g.parent[m] = p /\ g.kind[m] # Attr
                          <=> m \in h.alive /\ h.parent[m] = p /\ h.kind[m] # Attr
      BY <1>1, <1>2, <2>4, NullIsNoObject, SMTT(30) DEF Heap
    <3>3. QED BY <3>1, <3>2 DEF Sound, Downward
  <2>5. QED BY <2>3, <2>4
<1>6. Pointing(g)
  BY <1>1, <1>2 DEF Sound, Pointing
<1>7. Cached(g, D)
  BY <1>2, <1>a, <1>b DEF Sound, Cached
<1>8. Forgotten(g, x)
  <2>1. SUFFICES ASSUME NEW w \in Wrapper, g.ptr[w] \in g.alive, g.priv[g.ptr[w]] = NULL
                 PROVE  IsText(g, g.ptr[w]) /\ (g.ptr[w] = x \/ g.parent[g.ptr[w]] = NULL)
    BY DEF Forgotten
  <2>2. g.ptr[w] \in h.alive /\ g.ptr[w] = h.ptr[w]
    BY <1>1, <1>2, <2>1
  <2>3. QED BY <1>a, <2>1, <2>2 DEF Sound, Forgotten, IsText
<1>9. Pins(g, x)
  <2> HIDE DEF same
  <2>1. ASSUME NEW e \in Doc, NEW m \in h.pinned[e]
        PROVE  /\ m \in h.alive /\ h.doc[m] = e
               /\ m # x /\ h.parent[m] # NULL => /\ h.kind[m] # Attr /\ ~IsText(h, m)
                                                 /\ h.priv[m] # NULL
    BY DEF Sound, Pins
  <2>2. QED BY <1>2, <1>a, <2>1 DEF Pins, IsText, same
<1>10. NotBorn(g, D)
  <2>1. NotBorn(h, D)
    BY DEF Sound
  <2>2. \A m \in h.alive : g.doc[m] = h.doc[m]
    BY <1>a
  <2>3. QED BY <1>2, <1>b, <2>1, <2>2 DEF NotBorn
<1>11. Keeps(h, g)
  <2>1. \A m \in Node : m # n => SameNode(h, g, m)
    BY <1>1, <1>2 DEF Heap, SameNode
  <2>2. \A w \in Wrapper : h.ptr[w] \in h.alive =>
          h.ptr[w] \in g.alive /\ g.doc[h.ptr[w]] = h.doc[h.ptr[w]]
    BY <1>2, <1>a
  <2>3. QED BY <1>1, <1>2, <2>1, <2>2 DEF Keeps
<1>12. Agrees(g)
  <2> HIDE DEF same
  <2>1. QED BY <1>2, <1>a, <1>b DEF Sound, Agrees, IsText, same
<1>13. Spare(g, n)
  <2>1. \A e \in Doc : n \notin h.pinned[e]
    BY <1>1 DEF Sound, Pins
  <2>2. QED BY <1>1, <1>2, <1>b, <2>1 DEF Spare
<1>14. /\ g.kind[n] = k /\ g.kids[n] = <<>>
       /\ \A p \in Node \cup Doc : p # n => g.kids[p] = h.kids[p]
  BY <1>1, <1>2 DEF Heap
<1>15. Sound(g, D, x)
  BY <1>2, <1>3, <1>4, <1>5, <1>6, <1>7, <1>8, <1>9, <1>10, <1>12 DEF Sound
<1>16. QED
  BY <1>1, <1>2, <1>a, <1>b, <1>11, <1>13, <1>14, <1>15 DEF SameNode

-----------------------------------------------------------------------------
(* Unlinking and pinning.                                                  *)

\* An unlinked node has no parent; nothing else changes for the others.
LEMMA UnlinkSound ==
  ASSUME NEW h, NEW D, NEW x, Sound(h, D, x), NEW n \in h.alive, D[h.doc[n]] # "freed",
         NEW g, g = xmlUnlinkNode(h, n)
  PROVE  /\ Sound(g, D, x)
         /\ Keeps(h, g)
         /\ g.fresh = h.fresh /\ g.alive = h.alive /\ g.kind = h.kind /\ g.doc = h.doc
         /\ g.priv = h.priv /\ g.pinned = h.pinned
         /\ g.parent = [h.parent EXCEPT ![n] = NULL]
         /\ \A p \in Node \cup Doc : p # h.parent[n] => g.kids[p] = h.kids[p]
         /\ h.parent[n] # NULL => g.kids[h.parent[n]] = Without(h.kids[h.parent[n]], n)
<1>1. h \in Heap /\ n \in Node
  BY DEF Sound, Heap
<1>2. CASE h.parent[n] = NULL
  <2>1. g = h
    BY <1>2 DEF xmlUnlinkNode
  <2>2. h.parent = [h.parent EXCEPT ![n] = NULL]
    BY <1>1, <1>2 DEF Heap
  <2>3. Keeps(h, g)
    BY <2>1, KeepsNothing
  <2>4. QED BY <1>2, <2>1, <2>2, <2>3
<1>3. CASE h.parent[n] # NULL
  <2> DEFINE q == h.parent[n]
             s == h.kids[q]
             t == Without(s, n)
  <2>1. q \in Node \cup Doc /\ InTree(h, D, q) /\ s \in Seq(Node)
    BY <1>1, <1>3 DEF Heap, Sound, Upward, InTree
  <2>2. /\ Injective(s)
        /\ \A m \in Node : m \in Members(s) <=> m \in h.alive /\ h.parent[m] = q /\ h.kind[m] # Attr
    BY <2>1 DEF Sound, Downward
  <2>3. t \in Seq(Node) /\ Injective(t) /\ Members(t) = Members(s) \ {n}
    BY <1>1, <2>1, <2>2, WithoutMember
  <2> HIDE DEF t
  <2>4. /\ g.fresh = h.fresh /\ g.alive = h.alive /\ g.kind = h.kind /\ g.doc = h.doc
        /\ g.parent = [h.parent EXCEPT ![n] = NULL]
        /\ g.kids = [h.kids EXCEPT ![q] = t]
        /\ g.priv = h.priv /\ g.ptr = h.ptr /\ g.pinned = h.pinned /\ g.cache = h.cache
        /\ g \in Heap
    BY <1>1, <1>3, <2>1, <2>3 DEF Heap, xmlUnlinkNode, t
  <2>5. Upward(g)
    BY <1>1, <2>4, NullIsNoObject DEF Sound, Upward, Heap
  <2>6. Downward(g, D)
    <3>1. SUFFICES ASSUME NEW p \in Node \cup Doc, InTree(g, D, p)
                   PROVE  /\ Injective(g.kids[p])
                          /\ \A m \in Node : m \in Members(g.kids[p])
                               <=> m \in g.alive /\ g.parent[m] = p /\ g.kind[m] # Attr
      BY DEF Downward
    <3>2. CASE p = q
      <4>1. g.kids[p] = t
        BY <1>1, <2>1, <2>4, <3>2 DEF Heap
      <4>2. \A m \in Node : m \in g.alive /\ g.parent[m] = p /\ g.kind[m] # Attr
                            <=> m # n /\ m \in h.alive /\ h.parent[m] = q /\ h.kind[m] # Attr
        BY <1>1, <1>3, <2>4, <3>2 DEF Heap
      <4>3. QED BY <2>2, <2>3, <4>1, <4>2
    <3>3. CASE p # q
      <4>1. g.kids[p] = h.kids[p] /\ InTree(h, D, p)
        BY <1>1, <2>1, <2>4, <3>1, <3>3 DEF Heap, InTree
      <4>2. \A m \in Node : g.parent[m] = p <=> h.parent[m] = p
        BY <1>1, <2>4, <3>3, NullIsNoObject DEF Heap
      <4>3. QED BY <2>4, <4>1, <4>2 DEF Sound, Downward
    <3>4. QED BY <3>2, <3>3
  <2>7. Allocated(g) /\ Pointing(g) /\ Cached(g, D) /\ NotBorn(g, D)
    BY <2>4 DEF Sound, Allocated, Pointing, Cached, NotBorn
  <2>a. /\ \A m \in h.alive : m \in Node
        /\ \A m \in Node : g.parent[m] # NULL => g.parent[m] = h.parent[m]
    BY <1>1, <2>4 DEF Heap
  <2>b. Pins(g, x)
    <3>1. ASSUME NEW e \in Doc, NEW m \in h.pinned[e]
          PROVE  /\ m \in h.alive /\ h.doc[m] = e
                 /\ m # x /\ h.parent[m] # NULL => /\ h.kind[m] # Attr /\ ~IsText(h, m)
                                                   /\ h.priv[m] # NULL
      BY DEF Sound, Pins
    <3>2. QED BY <2>4, <2>a, <3>1 DEF Pins, IsText
  <2>c. Agrees(g)
    BY <2>4, <2>a DEF Sound, Agrees, IsText
  <2>8. Forgotten(g, x)
    <3>1. \A m \in Node : h.parent[m] = NULL => g.parent[m] = NULL
      BY <1>1, <2>4 DEF Heap
    <3>2. \A m \in h.alive : m \in Node
      BY <1>1 DEF Heap
    <3>3. QED BY <2>4, <3>1, <3>2 DEF Sound, Forgotten, IsText
  <2>9. Keeps(h, g)
    BY <2>4, KeepsNothing
  <2>10. /\ \A p \in Node \cup Doc : p # h.parent[n] => g.kids[p] = h.kids[p]
         /\ g.kids[q] = t
    BY <1>1, <2>1, <2>4 DEF Heap
  <2>11. QED
    BY <2>4, <2>5, <2>6, <2>7, <2>b, <2>c, <2>8, <2>9, <2>10 DEF Sound, t
<1>4. QED
  BY <1>2, <1>3

\* A node that was unlinked is no exception any more.
LEMMA SoundAfterUnlink ==
  ASSUME NEW h, NEW D, NEW x, Sound(h, D, x), x \in h.alive => h.parent[x] = NULL
  PROVE  Sound(h, D, NULL)
BY DEF Sound, Forgotten, Pins

\* Pinning a node in its document.
LEMMA PinSound ==
  ASSUME NEW h, NEW D, NEW x, Sound(h, D, x), NEW n \in h.alive,
         n # x /\ h.parent[n] # NULL => h.kind[n] # Attr /\ ~IsText(h, n) /\ h.priv[n] # NULL,
         NEW g, g = noko_xml_document_pin_node(h, n)
  PROVE  /\ Sound(g, D, x)
         /\ Keeps(h, g)
         /\ g.fresh = h.fresh /\ g.alive = h.alive /\ g.kind = h.kind /\ g.doc = h.doc
         /\ g.priv = h.priv /\ g.parent = h.parent /\ g.kids = h.kids
         /\ g.pinned = [h.pinned EXCEPT ![h.doc[n]] = @ \cup {n}]
         /\ n \in g.pinned[h.doc[n]]
<1>1. h \in Heap /\ n \in Node /\ h.doc[n] \in Doc
  BY DEF Sound, Heap
<1>2. /\ g.fresh = h.fresh /\ g.alive = h.alive /\ g.kind = h.kind /\ g.doc = h.doc
      /\ g.parent = h.parent /\ g.kids = h.kids /\ g.priv = h.priv
      /\ g.ptr = h.ptr /\ g.cache = h.cache
      /\ g.pinned = [h.pinned EXCEPT ![h.doc[n]] = @ \cup {n}]
      /\ g \in Heap
  BY <1>1 DEF Heap, noko_xml_document_pin_node
<1>3. /\ \A e \in Doc, m \in Node : m \in g.pinned[e] =>
           m \in h.pinned[e] \/ (m = n /\ e = h.doc[n])
      /\ \A e \in Doc : h.pinned[e] \subseteq g.pinned[e]
      /\ n \in g.pinned[h.doc[n]]
  BY <1>1, <1>2 DEF Heap
<1>4. Pins(g, x)
  <2>1. SUFFICES ASSUME NEW e \in Doc, NEW m \in g.pinned[e]
                 PROVE  /\ m \in h.alive /\ h.doc[m] = e
                        /\ m # x /\ h.parent[m] # NULL => /\ h.kind[m] # Attr /\ ~IsText(h, m)
                                                          /\ h.priv[m] # NULL
    BY <1>2 DEF Pins, IsText
  <2>2. m \in Node
    BY <1>2 DEF Heap
  <2>3. QED BY <1>3, <2>2 DEF Sound, Pins
<1>5. Downward(g, D)
  BY <1>2 DEF Sound, Downward, InTree
<1>6. Keeps(h, g)
  BY <1>2, <1>3 DEF Keeps, SameNode
<1>7. Allocated(g) /\ Upward(g) /\ Pointing(g) /\ Cached(g, D) /\ Forgotten(g, x)
  BY <1>2 DEF Sound, Allocated, Upward, Pointing, Cached, Forgotten, IsText
<1>8. NotBorn(g, D) /\ Agrees(g)
  BY <1>2 DEF Sound, NotBorn, Agrees, IsText
<1>9. QED
  BY <1>2, <1>3, <1>4, <1>5, <1>6, <1>7, <1>8 DEF Sound

-----------------------------------------------------------------------------
(* Linking, merging and freeing.                                           *)

\* A detached node is put below a parent that may have it.
LEMMA LinkSound ==
  ASSUME NEW h, NEW D, NEW x, Sound(h, D, x), NEW n \in h.alive, h.parent[n] = NULL,
         Linkable(h, n), NEW p \in Node \cup Doc, InTree(h, D, p), DocOf(h, p) = h.doc[n], MayContain(h, p, n),
         NEW i \in 1 .. Len(h.kids[p]) + 1,
         NEW g, g = Link(h, p, i, n)
  PROVE  /\ Sound(g, D, x)
         /\ Keeps(h, g)
         /\ g.fresh = h.fresh /\ g.alive = h.alive /\ g.kind = h.kind /\ g.doc = h.doc
         /\ g.priv = h.priv /\ g.pinned = h.pinned
         /\ g.parent = [h.parent EXCEPT ![n] = p]
<1> DEFINE t == PutAt(h.kids[p], i, n)
<1>1. h \in Heap /\ n \in Node /\ n # NULL /\ p # NULL
  BY NullIsNoObject DEF Sound, Heap
<1>2. /\ Injective(h.kids[p])
      /\ \A m \in Node : m \in Members(h.kids[p])
           <=> m \in h.alive /\ h.parent[m] = p /\ h.kind[m] # Attr
  BY DEF Sound, Downward
<1>3. h.kids[p] \in Seq(Node) /\ n \notin Members(h.kids[p])
  BY <1>1, <1>2 DEF Heap
<1>4. t \in Seq(Node) /\ Injective(t) /\ Members(t) = Members(h.kids[p]) \cup {n}
  BY <1>1, <1>2, <1>3, PutAtMember
<1> HIDE DEF t
<1>5. /\ g.fresh = h.fresh /\ g.alive = h.alive /\ g.kind = h.kind /\ g.doc = h.doc
      /\ g.parent = [h.parent EXCEPT ![n] = p]
      /\ g.kids = [h.kids EXCEPT ![p] = t]
      /\ g.priv = h.priv /\ g.ptr = h.ptr /\ g.pinned = h.pinned /\ g.cache = h.cache
      /\ g \in Heap
  BY <1>1, <1>4 DEF Heap, Link, t
<1>6. g.parent[n] = p /\ \A m \in Node : m # n => g.parent[m] = h.parent[m]
  BY <1>1, <1>5 DEF Heap
<1>7. h.kind[n] # Attr
  BY DEF MayContain, Text, Blank, Ref, Attr
<1>8. Upward(g)
  <2>1. \A m \in h.alive : m \in Node
    BY <1>1 DEF Heap
  <2>2. p \in Node => /\ p \in h.alive /\ h.doc[p] = h.doc[n]
                      /\ h.kind[p] \in {Elem, Frag, Attr}
                      /\ h.kind[p] = Attr => h.kind[n] \in {Text, Blank, Ref}
    BY DistinctSorts DEF InTree, DocOf, MayContain, Elem, Frag, Attr
  <2>3. p \in Doc => p = h.doc[n]
    BY DEF DocOf
  <2>4. QED BY <1>5, <1>6, <2>1, <2>2, <2>3 DEF Sound, Upward
<1>9. Downward(g, D)
  <2>1. SUFFICES ASSUME NEW q \in Node \cup Doc, InTree(g, D, q)
                 PROVE  /\ Injective(g.kids[q])
                        /\ \A m \in Node : m \in Members(g.kids[q])
                             <=> m \in g.alive /\ g.parent[m] = q /\ g.kind[m] # Attr
    BY DEF Downward
  <2>2. CASE q = p
    <3>1. g.kids[q] = t
      BY <1>1, <1>5, <2>2 DEF Heap
    <3>2. \A m \in Node : m \in Members(t) <=> m \in g.alive /\ g.parent[m] = p /\ g.kind[m] # Attr
      BY <1>2, <1>4, <1>5, <1>6, <1>7
    <3>3. QED BY <1>4, <2>2, <3>1, <3>2
  <2>3. CASE q # p
    <3>1. g.kids[q] = h.kids[q] /\ InTree(h, D, q)
      BY <1>1, <1>5, <2>1, <2>3 DEF Heap, InTree
    <3>2. \A m \in Node : g.parent[m] = q <=> h.parent[m] = q
      BY <1>1, <1>6, <2>3, NullIsNoObject
    <3>3. QED BY <1>5, <3>1, <3>2 DEF Sound, Downward
  <2>4. QED BY <2>2, <2>3
<1>10. Allocated(g) /\ Pointing(g) /\ Cached(g, D) /\ NotBorn(g, D)
  BY <1>5 DEF Sound, Allocated, Pointing, Cached, NotBorn
<1>a. \A m \in h.alive : m \in Node
  BY <1>1 DEF Heap
<1>11. Forgotten(g, x)
  <2>1. \A w \in Wrapper : h.ptr[w] = n => h.priv[n] # NULL
    BY DEF Linkable, Spare
  <2>2. QED BY <1>5, <1>6, <1>a, <2>1 DEF Sound, Forgotten, IsText
<1>12. Keeps(h, g)
  BY <1>5, KeepsNothing
<1>13. Pins(g, x)
  <2>1. ASSUME NEW e \in Doc, NEW m \in h.pinned[e]
        PROVE  /\ m \in h.alive /\ h.doc[m] = e
               /\ m # x /\ h.parent[m] # NULL => /\ h.kind[m] # Attr /\ ~IsText(h, m)
                                                 /\ h.priv[m] # NULL
               /\ m = n => h.kind[m] # Attr /\ ~IsText(h, m) /\ h.priv[m] # NULL
    BY <1>7 DEF Sound, Pins, Linkable, Spare
  <2>2. QED BY <1>5, <1>6, <1>a, <2>1 DEF Pins, IsText
<1>14. Agrees(g)
  <2>1. IsText(h, n) => h.priv[n] = NULL
    BY DEF Linkable, Spare
  <2>2. QED BY <1>5, <1>6, <1>a, <2>1 DEF Sound, Agrees, IsText
<1>15. QED
  BY <1>5, <1>8, <1>9, <1>10, <1>11, <1>12, <1>13, <1>14 DEF Sound

\* A text may become blank or stop being blank.
LEMMA RetextSound ==
  ASSUME NEW h, NEW D, NEW x, Sound(h, D, x), NEW n \in h.alive, IsText(h, n),
         NEW k \in {Text, Blank}, NEW g, g = [h EXCEPT !.kind[n] = k]
  PROVE  /\ Sound(g, D, x)
         /\ Keeps(h, g)
         /\ g.fresh = h.fresh /\ g.alive = h.alive /\ g.doc = h.doc
         /\ g.priv = h.priv /\ g.pinned = h.pinned /\ g.parent = h.parent /\ g.kids = h.kids
         /\ IsText(g, n) /\ \A m \in Node : m # n => g.kind[m] = h.kind[m]
<1>1. h \in Heap /\ n \in Node /\ k \in Kind
  BY DEF Sound, Heap, Kind
<1>2. /\ g.fresh = h.fresh /\ g.alive = h.alive /\ g.doc = h.doc /\ g.parent = h.parent
      /\ g.kind = [h.kind EXCEPT ![n] = k]
      /\ g.kids = h.kids /\ g.priv = h.priv /\ g.ptr = h.ptr
      /\ g.pinned = h.pinned /\ g.cache = h.cache
      /\ g \in Heap
  BY <1>1 DEF Heap
<1>3. g.kind[n] = k /\ \A m \in Node : m # n => g.kind[m] = h.kind[m]
  BY <1>1, <1>2 DEF Heap
<1>4. h.kind[n] \in {Text, Blank} /\ g.kind[n] \in {Text, Blank}
  BY <1>3 DEF IsText
<1>5. \A m \in h.alive : m \in Node
  BY <1>1 DEF Heap
<1>6. Upward(g)
  BY <1>2, <1>3, <1>4, <1>5 DEF Sound, Upward, Elem, Frag, Attr, Text, Blank, Ref
<1>7. Downward(g, D)
  <2>1. \A m \in Node : g.kind[m] = Attr <=> h.kind[m] = Attr
    BY <1>3, <1>4 DEF Attr, Text, Blank
  <2>2. QED BY <1>2, <2>1 DEF Sound, Downward, InTree
<1>8. Forgotten(g, x)
  BY <1>2, <1>3, <1>4, <1>5 DEF Sound, Forgotten, IsText
<1>9. \A m \in Node : IsText(g, m) <=> IsText(h, m)
  BY <1>3, <1>4 DEF IsText
<1>10. Pins(g, x)
  <2>1. ASSUME NEW e \in Doc, NEW m \in h.pinned[e]
        PROVE  /\ m \in h.alive /\ m \in Node /\ h.doc[m] = e
               /\ m # x /\ h.parent[m] # NULL => /\ h.kind[m] # Attr /\ ~IsText(h, m)
                                                 /\ h.priv[m] # NULL
    BY <1>5 DEF Sound, Pins
  <2>2. \A m \in Node : g.kind[m] = Attr <=> h.kind[m] = Attr
    BY <1>3, <1>4 DEF Attr, Text, Blank
  <2>3. QED BY <1>2, <1>9, <2>1, <2>2 DEF Pins
<1>11. Agrees(g)
  BY <1>2, <1>5, <1>9 DEF Sound, Agrees
<1>12. Keeps(h, g)
  <2>1. \A m \in Node : SameNode(h, g, m) \/ (IsText(h, m) /\ IsText(g, m))
    BY <1>2, <1>3, <1>4 DEF SameNode, IsText
  <2>2. QED BY <1>2, <2>1 DEF Keeps
<1>13. Allocated(g) /\ Pointing(g) /\ Cached(g, D) /\ NotBorn(g, D)
  BY <1>2 DEF Sound, Allocated, Pointing, Cached, NotBorn
<1>14. QED
  BY <1>2, <1>3, <1>4, <1>6, <1>7, <1>8, <1>10, <1>11, <1>12, <1>13 DEF Sound, IsText

\* A detached node without children, and that no wrapper points at, is freed.
LEMMA FreeSound ==
  ASSUME NEW h, NEW D, NEW x, Sound(h, D, x), NEW n \in h.alive, h.parent[n] = NULL,
         IsText(h, n), Spare(h, n), NEW g, g = xmlFree(h, {n})
  PROVE  /\ Sound(g, D, x)
         /\ Keeps(h, g)
         /\ g.fresh = h.fresh /\ g.alive = h.alive \ {n} /\ g.kind = h.kind /\ g.doc = h.doc
         /\ g.priv = h.priv /\ g.parent = h.parent
<1>1. h \in Heap /\ n \in Node
  BY DEF Sound, Heap
<1>2. /\ g.fresh = h.fresh /\ g.alive = h.alive \ {n} /\ g.kind = h.kind /\ g.doc = h.doc
      /\ g.parent = h.parent /\ g.kids = h.kids /\ g.priv = h.priv /\ g.ptr = h.ptr
      /\ g.pinned = h.pinned /\ g.cache = h.cache
      /\ g \in Heap
  BY <1>1 DEF Heap, xmlFree
<1>3. \A m \in h.alive : h.parent[m] # n
  BY <1>1 DEF Sound, Upward, IsText, Text, Blank, Elem, Frag, Attr
<1>4. Upward(g)
  BY <1>2, <1>3 DEF Sound, Upward
<1>5. Downward(g, D)
  <2>1. \A p \in Node \cup Doc : InTree(g, D, p) => InTree(h, D, p)
    BY <1>2 DEF InTree
  <2>2. \A p \in Node \cup Doc : h.parent[n] # p
    BY NullIsNoObject
  <2>3. \A p \in Node \cup Doc, m \in Node :
          m \in g.alive /\ g.parent[m] = p /\ g.kind[m] # Attr
            <=> m \in h.alive /\ h.parent[m] = p /\ h.kind[m] # Attr
    BY <1>2, <2>2
  <2>4. Downward(h, D)
    BY DEF Sound
  <2>5. QED BY ONLY <1>2, <2>1, <2>3, <2>4, Z3T(30) DEF Downward
<1>a. \A m : m \in g.alive => m \in h.alive
  BY <1>2
<1>6. Allocated(g) /\ Pointing(g)
  BY <1>2, <1>a DEF Sound, Allocated, Pointing
<1>b. Pins(g, x)
  <2>1. ASSUME NEW e \in Doc, NEW m \in h.pinned[e]
        PROVE  /\ m \in h.alive /\ m # n /\ h.doc[m] = e
               /\ m # x /\ h.parent[m] # NULL => /\ h.kind[m] # Attr /\ ~IsText(h, m)
                                                 /\ h.priv[m] # NULL
    BY DEF Sound, Pins, Spare
  <2>2. QED BY <1>2, <2>1 DEF Pins, IsText
<1>d. Agrees(g)
  BY <1>2, <1>a DEF Sound, Agrees, IsText
<1>7. Cached(g, D)
  BY <1>2, <1>a DEF Sound, Cached
<1>c. NotBorn(g, D)
  <2>1. NotBorn(h, D)
    BY DEF Sound
  <2>2. g.cache = h.cache /\ g.doc = h.doc /\ g.alive \subseteq h.alive
    BY <1>2
  <2>3. SUFFICES ASSUME NEW d \in Doc, D[d] = "unborn"
                 PROVE  h.cache[d] = {} /\ \A m \in g.alive : h.doc[m] # d
    BY <2>2, SMTT(30) DEF NotBorn
  <2>4. h.cache[d] = {} /\ \A m \in h.alive : h.doc[m] # d
    BY <2>1, <2>3 DEF NotBorn
  <2>5. QED BY <2>2, <2>4
<1>8. Forgotten(g, x)
  BY <1>2 DEF Sound, Forgotten, IsText
<1>9. Keeps(h, g)
  BY <1>2 DEF Keeps, Spare, SameNode
<1>10. QED
  BY <1>2, <1>4, <1>5, <1>6, <1>7, <1>8, <1>9, <1>b, <1>c, <1>d DEF Sound

\* A text is merged into another one, and freed.
LEMMA TextMergeSound ==
  ASSUME NEW h, NEW D, NEW x, Sound(h, D, x), NEW left \in h.alive, NEW right \in h.alive,
         left # right, IsText(h, left), IsText(h, right), Spare(h, right),
         D[h.doc[right]] # "freed", NEW g, g = xmlTextMerge(h, left, right)
  PROVE  /\ Sound(g, D, x)
         /\ Keeps(h, g)
         /\ g.fresh = h.fresh /\ g.doc = h.doc /\ left \in g.alive
         /\ IsText(g, left)
<1> DEFINE k == IF h.kind[left] = Blank /\ h.kind[right] = Blank THEN Blank ELSE Text
           h1 == xmlUnlinkNode(h, right)
           h2 == [h1 EXCEPT !.kind[left] = k]
<1>0. left \in Node /\ right \in Node
  BY DEF Sound, Heap
<1>1. /\ Sound(h1, D, x) /\ Keeps(h, h1)
      /\ h1.fresh = h.fresh /\ h1.alive = h.alive /\ h1.kind = h.kind /\ h1.doc = h.doc
      /\ h1.priv = h.priv /\ h1.pinned = h.pinned
      /\ h1.parent = [h.parent EXCEPT ![right] = NULL]
  BY UnlinkSound
<1>2. h1.parent[right] = NULL
  BY <1>0, <1>1 DEF Sound, Heap
<1>3. k \in {Text, Blank} /\ IsText(h1, left)
  BY <1>1 DEF IsText
<1> HIDE DEF h1, k
<1>4. /\ Sound(h2, D, x) /\ Keeps(h1, h2)
      /\ h2.fresh = h1.fresh /\ h2.alive = h1.alive /\ h2.doc = h1.doc
      /\ h2.parent = h1.parent /\ h2.priv = h1.priv /\ h2.pinned = h1.pinned
      /\ IsText(h2, left) /\ h2.kind[right] = h1.kind[right]
  BY <1>0, <1>1, <1>3, RetextSound
<1>5. g = xmlFree(h2, {right})
  BY DEF xmlTextMerge, h1, k
<1> HIDE DEF h2
<1>6. IsText(h2, right) /\ Spare(h2, right)
  BY <1>1, <1>4 DEF IsText, Spare, Keeps
<1>7. /\ Sound(g, D, x) /\ Keeps(h2, g)
      /\ g.fresh = h2.fresh /\ g.alive = h2.alive \ {right} /\ g.kind = h2.kind /\ g.doc = h2.doc
  <2>1. right \in h2.alive /\ h2.parent[right] = NULL
    BY <1>1, <1>2, <1>4
  <2>2. QED BY <1>4, <1>5, <1>6, <2>1, FreeSound
<1>8. Keeps(h, g)
  BY <1>1, <1>4, <1>7, KeepsComposes
<1>9. QED
  BY <1>1, <1>4, <1>7, <1>8 DEF IsText

-----------------------------------------------------------------------------
(* Wrappers.                                                               *)

\* nothing but wrappers has changed
SameTree(h, g) ==
  /\ g.fresh = h.fresh /\ g.alive = h.alive /\ g.kind = h.kind /\ g.doc = h.doc
  /\ g.parent = h.parent /\ g.kids = h.kids /\ g.pinned = h.pinned
  /\ \A m \in Node : h.priv[m] # NULL => g.priv[m] = h.priv[m]

\* A new wrapper is bound to a node of a live document.
LEMMA BindSound ==
  ASSUME NEW h, NEW D, NEW x, Sound(h, D, x), NEW n \in h.alive, D[h.doc[n]] = "live",
         h.priv[n] = NULL, NEW w \in Wrapper, h.ptr[w] = NULL,
         NEW G, Usable(h, D, G), h.doc[n] \in G,
         NEW g, g = Bind(h, w, n)
  PROVE  /\ Sound(g, D, x)
         /\ Usable(g, D, G \cup {w})
         /\ SameTree(h, g)
         /\ g.priv[n] = w
<1>1. h \in Heap /\ n \in Node /\ n \notin h.fresh /\ h.doc[n] \in Doc /\ w # NULL /\ n # NULL
  BY NullIsNoObject DEF Sound, Heap, Allocated
<1>2. /\ g.fresh = h.fresh /\ g.alive = h.alive /\ g.kind = h.kind /\ g.doc = h.doc
      /\ g.parent = h.parent /\ g.kids = h.kids /\ g.pinned = h.pinned
      /\ g.priv = [h.priv EXCEPT ![n] = w] /\ g.ptr = [h.ptr EXCEPT ![w] = n]
      /\ g.cache = [h.cache EXCEPT ![h.doc[n]] = @ \cup {w}]
      /\ g \in Heap
  BY <1>1 DEF Heap, Bind
<1>3. /\ g.priv[n] = w /\ \A m \in Node : m # n => g.priv[m] = h.priv[m]
      /\ g.ptr[w] = n /\ \A v \in Wrapper : v # w => g.ptr[v] = h.ptr[v]
      /\ g.cache[h.doc[n]] = h.cache[h.doc[n]] \cup {w}
      /\ \A d \in Doc : d # h.doc[n] => g.cache[d] = h.cache[d]
  BY <1>1, <1>2 DEF Heap
<1>4. /\ \A m \in h.alive : m \in Node /\ h.doc[m] \in Doc
      /\ \A v \in Wrapper : h.ptr[v] \in Node \cup {NULL}
  BY <1>1 DEF Heap
<1>5. Allocated(g) /\ Upward(g) /\ Downward(g, D)
  BY <1>2 DEF Sound, Allocated, Upward, Downward, InTree
<1>a. Pins(g, x)
  <2>1. ASSUME NEW e \in Doc, NEW m \in h.pinned[e]
        PROVE  /\ m \in h.alive /\ h.doc[m] = e
               /\ m # x /\ h.parent[m] # NULL => /\ h.kind[m] # Attr /\ ~IsText(h, m)
                                                 /\ h.priv[m] # NULL
    BY DEF Sound, Pins
  <2>2. QED BY <1>1, <1>2, <1>3, <1>4, <2>1 DEF Pins, IsText
<1>b. Agrees(g)
  <2>1. SUFFICES ASSUME NEW m \in h.alive, IsText(h, m), h.parent[m] # NULL, g.priv[m] # NULL
                 PROVE  g.ptr[g.priv[m]] = m
    BY <1>2 DEF Agrees, IsText
  <2>2. CASE m = n
    BY <1>3, <2>2
  <2>3. CASE m # n
    <3>1. g.priv[m] = h.priv[m] /\ h.priv[m] \in Wrapper /\ h.ptr[h.priv[m]] = m /\ m # NULL
      BY <1>1, <1>3, <1>4, <2>1, <2>3, NullIsNoObject DEF Sound, Agrees, Heap
    <3>2. h.priv[m] # w
      BY <3>1
    <3>3. QED BY <1>3, <3>1, <3>2
  <2>4. QED BY <2>2, <2>3
<1>6. Pointing(g)
  BY <1>1, <1>2, <1>3 DEF Sound, Pointing
<1>7. Cached(g, D)
  BY <1>2, <1>3, <1>4 DEF Sound, Cached
<1>8. Forgotten(g, x)
  BY <1>1, <1>2, <1>3, <1>4 DEF Sound, Forgotten, IsText
<1>9. NotBorn(g, D)
  BY <1>2, <1>3 DEF Sound, NotBorn
<1>10. Usable(g, D, G \cup {w})
  <2>1. w \in Objects /\ w \notin Doc
    BY DistinctSorts DEF Objects
  <2>2. w \notin G
    BY NullIsNoObject, <1>1 DEF Usable, Heap
  <2>3. \A v \in (G \cup {w}) \cap Wrapper : g.ptr[v] \in g.alive /\ g.doc[g.ptr[v]] \in G
    BY <1>2, <1>3 DEF Usable
  <2>4. \A d \in G \cap Doc : D[d] = "live" /\ g.cache[d] \subseteq G \cup {w}
    BY <1>3 DEF Usable
  <2>5. QED BY <2>1, <2>3, <2>4 DEF Usable
<1>11. QED
  BY <1>2, <1>3, <1>5, <1>6, <1>7, <1>8, <1>9, <1>10, <1>a, <1>b DEF Sound, SameTree

\* NewWrapper is an object that no wrapper has yet.
LEMMA NewWrapperIsUnborn ==
  ASSUME NEW h, Unborn(h) # {}
  PROVE  NewWrapper(h) \in Wrapper /\ h.ptr[NewWrapper(h)] = NULL
BY DEF Unborn, NewWrapper

\* Wrapping a node gives a wrapper that may be used.
LEMMA WrapSound ==
  ASSUME NEW h, NEW D, NEW x, Sound(h, D, x), NEW n \in h.alive, D[h.doc[n]] = "live",
         CanWrap(h, n), NEW G, Usable(h, D, G), h.doc[n] \in G,
         NEW g, g = noko_xml_node_wrap(h, n)
  PROVE  /\ Sound(g, D, x)
         /\ Usable(g, D, G \cup {g.priv[n]})
         /\ g.priv[n] \in Wrapper
         /\ SameTree(h, g)
<1>1. h \in Heap /\ n \in Node /\ h.doc[n] \in Doc
  BY DEF Sound, Heap
<1>2. CASE h.priv[n] # NULL
  <2>1. g = h
    BY <1>2 DEF noko_xml_node_wrap
  <2>2. h.priv[n] \in h.cache[h.doc[n]]
    BY <1>2 DEF Sound, Cached
  <2>3. h.priv[n] \in G
    BY <1>1, <2>2 DEF Usable
  <2>4. h.priv[n] \in Wrapper /\ G \cup {h.priv[n]} = G
    BY <1>1, <1>2, <2>3 DEF Heap
  <2>5. QED BY <2>1, <2>4 DEF SameTree
<1>3. CASE h.priv[n] = NULL
  <2> DEFINE w == NewWrapper(h)
  <2>1. w \in Wrapper /\ h.ptr[w] = NULL
    BY <1>3, NewWrapperIsUnborn DEF CanWrap
  <2>2. g = Bind(h, w, n)
    BY <1>3 DEF noko_xml_node_wrap
  <2> HIDE DEF w
  <2>3. /\ Sound(g, D, x) /\ Usable(g, D, G \cup {w})
        /\ SameTree(h, g) /\ g.priv[n] = w
    BY <1>3, <2>1, <2>2, BindSound
  <2>4. QED BY <2>1, <2>3
<1>4. QED
  BY <1>2, <1>3

\* The wrapper of an argument is made to point at the node now in the tree.
LEMMA RetargetSound ==
  ASSUME NEW h, NEW D, NEW x, Sound(h, D, x), NEW n \in h.alive, h.priv[n] # NULL,
         NEW G, Usable(h, D, G), h.doc[n] \in G, NEW w \in G \cap Wrapper,
         \A m \in h.alive : IsText(h, m) /\ h.parent[m] # NULL /\ h.priv[m] = w => m = n,
         NEW g, g = [h EXCEPT !.ptr[w] = n]
  PROVE  /\ Sound(g, D, x)
         /\ Usable(g, D, G)
         /\ SameTree(h, g)
         /\ g.priv[n] = h.priv[n]
<1>1. h \in Heap /\ n \in Node /\ n \notin h.fresh
  BY DEF Sound, Heap, Allocated
<1>2. /\ g.fresh = h.fresh /\ g.alive = h.alive /\ g.kind = h.kind /\ g.doc = h.doc
      /\ g.parent = h.parent /\ g.kids = h.kids /\ g.pinned = h.pinned
      /\ g.priv = h.priv /\ g.ptr = [h.ptr EXCEPT ![w] = n] /\ g.cache = h.cache
      /\ g \in Heap
  BY <1>1 DEF Heap
<1>3. g.ptr[w] = n /\ \A v \in Wrapper : v # w => g.ptr[v] = h.ptr[v]
  BY <1>1, <1>2 DEF Heap
<1>4. Allocated(g) /\ Upward(g) /\ Downward(g, D) /\ Cached(g, D) /\ NotBorn(g, D)
  BY <1>2 DEF Sound, Allocated, Upward, Downward, InTree, Cached, NotBorn
<1>a. Pins(g, x)
  BY <1>2 DEF Sound, Pins, IsText
<1>b. Agrees(g)
  <2>1. SUFFICES ASSUME NEW m \in h.alive, IsText(h, m), h.parent[m] # NULL, h.priv[m] # NULL
                 PROVE  g.ptr[h.priv[m]] = m
    BY <1>2 DEF Agrees, IsText
  <2>2. h.priv[m] \in Wrapper /\ h.ptr[h.priv[m]] = m
    BY <1>1, <2>1 DEF Sound, Agrees, Heap
  <2>3. QED BY <1>3, <2>1, <2>2
<1>5. Pointing(g)
  BY <1>1, <1>2, <1>3 DEF Sound, Pointing
<1>6. Forgotten(g, x)
  BY <1>2, <1>3 DEF Sound, Forgotten, IsText
<1>7. Usable(g, D, G)
  BY <1>2, <1>3 DEF Usable
<1>8. QED
  BY <1>2, <1>4, <1>5, <1>6, <1>7, <1>a, <1>b DEF Sound, SameTree

\* Rewrap: the node in the tree has a wrapper, and w points at it.
LEMMA RewrapSound ==
  ASSUME NEW r, NEW D, NEW x, Sound(r.h, D, x), r.n \in r.h.alive, D[r.h.doc[r.n]] = "live",
         CanWrap(r.h, r.n), NEW G, Usable(r.h, D, G), r.h.doc[r.n] \in G,
         NEW w \in G \cap Wrapper,
         \A m \in r.h.alive :
           IsText(r.h, m) /\ r.h.parent[m] # NULL /\ r.h.priv[m] = w => m = r.n,
         NEW g, g = Rewrap(w, r).h
  PROVE  /\ Sound(g, D, x)
         /\ Usable(g, D, G \cup {g.priv[r.n]})
         /\ g.priv[r.n] \in Wrapper
         /\ SameTree(r.h, g)
<1> DEFINE h == r.h
           n == r.n
           h1 == [h EXCEPT !.ptr[w] = n]
<1>1. h \in Heap /\ n \in Node /\ n # NULL /\ h.ptr[w] # NULL
  BY NullIsNoObject DEF Sound, Heap, Usable
<1>2. g = noko_xml_node_wrap(h1, n)
  BY <1>1 DEF Rewrap
<1>3. h1.priv = h.priv /\ h1.doc = h.doc /\ h1.ptr = [h.ptr EXCEPT ![w] = n]
  BY <1>1 DEF Heap
<1>4. CASE h.priv[n] # NULL
  <2>1. g = h1
    BY <1>2, <1>3, <1>4 DEF noko_xml_node_wrap
  <2> HIDE DEF h, n
  <2>2. /\ Sound(g, D, x) /\ Usable(g, D, G)
        /\ SameTree(h, g) /\ g.priv[n] = h.priv[n]
    BY <1>4, <2>1, RetargetSound DEF h, n
  <2>3. h.priv[n] \in h.cache[h.doc[n]]
    BY <1>4 DEF Sound, Cached, h, n
  <2>4. h.priv[n] \in G
    BY <1>1, <2>3 DEF Usable, Heap, h, n
  <2>5. h.priv[n] \in Wrapper /\ G \cup {h.priv[n]} = G
    BY <1>1, <1>4, <2>4 DEF Heap
  <2>6. QED BY <2>2, <2>5 DEF h, n
<1>5. CASE h.priv[n] = NULL
  <2> DEFINE v == NewWrapper(h)
             k == Bind(h, v, n)
  <2>1. Unborn(h1) = Unborn(h)
    <3>1. \A u \in Wrapper : h1.ptr[u] = NULL <=> h.ptr[u] = NULL
      BY <1>1, <1>3 DEF Heap
    <3>2. QED BY <3>1 DEF Unborn
  <2>2. v \in Wrapper /\ h.ptr[v] = NULL /\ v # w /\ NewWrapper(h1) = v
    <3>1. Unborn(h) # {}
      BY <1>5 DEF CanWrap
    <3>2. NewWrapper(h1) = v
      BY <2>1 DEF NewWrapper
    <3>3. QED BY <1>1, <3>1, <3>2, NewWrapperIsUnborn
  <2>3. g = Bind(h1, v, n)
    BY <1>2, <1>3, <1>5, <2>2 DEF noko_xml_node_wrap
  <2> HIDE DEF v
  <2>4. Bind(h1, v, n) = [k EXCEPT !.ptr[w] = n]
    <3>1. [[h.ptr EXCEPT ![w] = n] EXCEPT ![v] = n] = [[h.ptr EXCEPT ![v] = n] EXCEPT ![w] = n]
      BY <1>1, <2>2 DEF Heap
    <3> HIDE DEF h, n
    <3>2. QED BY <1>1, <2>2, <3>1 DEF Bind, Heap
  <2>5. g = [k EXCEPT !.ptr[w] = n]
    BY <2>3, <2>4
  <2>6. /\ Sound(k, D, x) /\ Usable(k, D, G \cup {v})
        /\ SameTree(h, k) /\ k.priv[n] = v
    <3> HIDE DEF h, n, k
    <3>1. k = Bind(h, v, n)
      BY DEF k
    <3>2. Sound(h, D, x) /\ n \in h.alive /\ D[h.doc[n]] = "live" /\ Usable(h, D, G) /\ h.doc[n] \in G
      BY DEF h, n
    <3>3. QED BY ONLY <1>5, <2>2, <3>1, <3>2, BindSound, Z3T(30)
  <2>7. v # NULL
    BY <2>2, NullIsNoObject
  <2>8. /\ Sound(g, D, x) /\ Usable(g, D, G \cup {v})
        /\ SameTree(k, g) /\ g.priv[n] = k.priv[n]
    <3>1. n \in k.alive /\ k.doc[n] \in G \cup {v} /\ w \in (G \cup {v}) \cap Wrapper
      BY <2>6 DEF SameTree
    <3>2. \A m \in h.alive : IsText(h, m) /\ h.parent[m] # NULL /\ h.priv[m] = w => m = n
      OBVIOUS
    <3>3. \A m \in h.alive : m \in Node
      BY <1>1 DEF Heap
    <3> HIDE DEF h, n, k
    <3>4. k.priv = [h.priv EXCEPT ![n] = v]
      BY <1>1 DEF k, Bind, Heap
    <3>5. \A m \in h.alive : m # n => k.priv[m] = h.priv[m]
      BY <1>1, <3>3, <3>4 DEF Heap
    <3>6. \A m \in k.alive : IsText(k, m) /\ k.parent[m] # NULL /\ k.priv[m] = w => m = n
      BY <2>6, <3>2, <3>5 DEF SameTree, IsText
    <3>7. QED BY <2>5, <2>6, <2>7, <3>1, <3>6, RetargetSound, Z3
  <2>9. QED BY <2>2, <2>6, <2>7, <2>8 DEF SameTree
<1>6. QED
  BY <1>4, <1>5

-----------------------------------------------------------------------------
(* Copies.                                                                 *)

\* g is h with a copy, in document d, of the nodes that f maps to free addresses
Copies(h, g, f, d) ==
  /\ g \in Heap
  /\ g.ptr = h.ptr /\ g.cache = h.cache /\ g.pinned = h.pinned
  /\ g.fresh \subseteq h.fresh /\ h.alive \subseteq g.alive
  /\ \A m \in g.alive : m \in h.alive \/ \E y \in DOMAIN f : m = f[y]
  /\ \A m \in Node \ h.fresh :
       /\ g.kind[m] = h.kind[m] /\ g.doc[m] = h.doc[m]
       /\ g.parent[m] = h.parent[m] /\ g.priv[m] = h.priv[m]
  /\ \A p \in Node \cup Doc : p \notin h.fresh => g.kids[p] = h.kids[p]
  /\ \A y \in DOMAIN f :
       /\ f[y] \in Node /\ f[y] \in h.fresh /\ f[y] \notin g.fresh /\ f[y] \in g.alive
       /\ g.kind[f[y]] = h.kind[y] /\ g.doc[f[y]] = d /\ g.priv[f[y]] = NULL
       /\ g.parent[f[y]] = IF h.parent[y] \in DOMAIN f THEN f[h.parent[y]] ELSE NULL
       /\ g.kids[f[y]] = [i \in DOMAIN h.kids[y] |-> f[h.kids[y][i]]]

\* A sequence mapped by an injection.
LEMMA MappedSeq ==
  ASSUME NEW S, NEW s \in Seq(S), NEW T, NEW f, \A y \in Members(s) : f[y] \in T
  PROVE  /\ [i \in DOMAIN s |-> f[s[i]]] \in Seq(T)
         /\ Members([i \in DOMAIN s |-> f[s[i]]]) = {f[y] : y \in Members(s)}
         /\ (Injective(s) /\ \A y, z \in Members(s) : f[y] = f[z] => y = z)
              => Injective([i \in DOMAIN s |-> f[s[i]]])
<1> DEFINE t == [i \in DOMAIN s |-> f[s[i]]]
<1>1. Len(s) \in Nat /\ DOMAIN s = 1 .. Len(s) /\ \A i \in DOMAIN s : s[i] \in Members(s)
  BY MembersOfSeq
<1>2. t \in [1 .. Len(s) -> T]
  BY <1>1
<1>3. t \in Seq(T)
  BY <1>1, <1>2, SeqDef
<1>4. DOMAIN t = DOMAIN s /\ \A i \in DOMAIN s : t[i] = f[s[i]]
  OBVIOUS
<1> HIDE DEF t
<1>5. Members(t) = {f[y] : y \in Members(s)}
  BY <1>4 DEF Members
<1>6. (Injective(s) /\ \A y, z \in Members(s) : f[y] = f[z] => y = z) => Injective(t)
  BY <1>1, <1>4 DEF Injective
<1>7. QED
  BY <1>3, <1>5, <1>6 DEF t

\* The fields after a copy.
LEMMA CopyFields ==
  ASSUME NEW h, NEW D, NEW x, Sound(h, D, x), NEW S \in SUBSET h.alive,
         \A c \in h.alive : h.parent[c] \in S => c \in S,
         NEW f \in [S -> h.fresh], Injective(f), NEW d \in Doc,
         NEW g, g = CopyBy(h, f, d)
  PROVE  Copies(h, g, f, d)
<1> DEFINE new == {f[y] : y \in S}
           src(n) == CHOOSE y \in S : f[y] = n
           parentOf(y) == IF h.parent[y] \in S THEN f[h.parent[y]] ELSE NULL
<1>1. /\ h \in Heap /\ DOMAIN f = S /\ h.fresh \subseteq Node /\ h.alive \subseteq Node
      /\ h.fresh \cap h.alive = {}
  BY DEF Sound, Heap, Allocated
<1>2. \A y \in S : src(f[y]) = y
  BY <1>1 DEF Injective
<1>3. new \subseteq h.fresh /\ new \subseteq Node
  BY <1>1
<1>4. \A n \in new : src(n) \in S /\ f[src(n)] = n
  BY <1>2
<1>5. \A y \in S : parentOf(y) \in Node \cup Doc \cup {NULL}
  BY <1>1
<1>6. \A y \in S : /\ [i \in DOMAIN h.kids[y] |-> f[h.kids[y][i]]] \in Seq(Node)
  <2>1. SUFFICES ASSUME NEW y \in S PROVE [i \in DOMAIN h.kids[y] |-> f[h.kids[y][i]]] \in Seq(Node)
    OBVIOUS
  <2>2. y \in Node /\ InTree(h, D, y) /\ h.kids[y] \in Seq(Node)
    BY <1>1 DEF InTree, Heap
  <2>3. \A c \in Members(h.kids[y]) : c \in S
    BY <2>2, MembersOfSeq DEF Sound, Downward
  <2>4. \A c \in Members(h.kids[y]) : f[c] \in Node
    BY <1>1, <2>3
  <2>5. QED BY <2>2, <2>4, MappedSeq
<1> DEFINE kind1   == [n \in Node |-> IF n \in new THEN h.kind[src(n)] ELSE h.kind[n]]
           doc1    == [n \in Node |-> IF n \in new THEN d ELSE h.doc[n]]
           parent1 == [n \in Node |-> IF n \in new THEN parentOf(src(n)) ELSE h.parent[n]]
           priv1   == [n \in Node |-> IF n \in new THEN NULL ELSE h.priv[n]]
           kids1   == [p \in Node \cup Doc |->
                         IF p \in new THEN [i \in DOMAIN h.kids[src(p)] |-> f[h.kids[src(p)][i]]]
                         ELSE h.kids[p]]
<1>7. g = [h EXCEPT !.fresh = h.fresh \ new, !.alive = h.alive \cup new, !.kind = kind1,
                    !.doc = doc1, !.parent = parent1, !.priv = priv1, !.kids = kids1]
  BY <1>1 DEF CopyBy
<1>8. /\ kind1 \in [Node -> Kind] /\ doc1 \in [Node -> Doc]
      /\ parent1 \in [Node -> Node \cup Doc \cup {NULL}]
      /\ priv1 \in [Node -> Wrapper \cup {NULL}]
      /\ kids1 \in [Node \cup Doc -> Seq(Node)]
  <2>1. \A n \in new : src(n) \in Node
    BY <1>1, <1>4
  <2>2. kind1 \in [Node -> Kind] /\ doc1 \in [Node -> Doc] /\ priv1 \in [Node -> Wrapper \cup {NULL}]
    <3> HIDE DEF new, src
    <3> QED BY <1>1, <2>1 DEF Heap
  <2>3. parent1 \in [Node -> Node \cup Doc \cup {NULL}]
    <3> HIDE DEF new, src, parentOf
    <3> QED BY <1>1, <1>4, <1>5 DEF Heap
  <2>4. kids1 \in [Node \cup Doc -> Seq(Node)]
    <3> HIDE DEF new, src
    <3> QED BY <1>1, <1>4, <1>6 DEF Heap
  <2>5. QED BY <2>2, <2>3, <2>4
<1>9. /\ \A n \in Node \ h.fresh : /\ kind1[n] = h.kind[n] /\ doc1[n] = h.doc[n]
                                   /\ parent1[n] = h.parent[n] /\ priv1[n] = h.priv[n]
      /\ \A p \in Node \cup Doc : p \notin h.fresh => kids1[p] = h.kids[p]
  <2> HIDE DEF new, src, parentOf
  <2> QED BY <1>3
<1>10. \A y \in S : /\ kind1[f[y]] = h.kind[y] /\ doc1[f[y]] = d /\ priv1[f[y]] = NULL
                    /\ parent1[f[y]] = parentOf(y)
                    /\ kids1[f[y]] = [i \in DOMAIN h.kids[y] |-> f[h.kids[y][i]]]
  <2>1. \A y \in S : f[y] \in new /\ f[y] \in Node
    BY <1>3
  <2> HIDE DEF new, src, parentOf
  <2> QED BY <1>2, <2>1
<1> HIDE DEF kind1, doc1, parent1, priv1, kids1
<1>11. /\ g \in Heap
       /\ g.fresh = h.fresh \ new /\ g.alive = h.alive \cup new
       /\ g.kind = kind1 /\ g.doc = doc1 /\ g.parent = parent1 /\ g.priv = priv1 /\ g.kids = kids1
       /\ g.ptr = h.ptr /\ g.pinned = h.pinned /\ g.cache = h.cache
  <2> HIDE DEF new
  <2>1. g = [fresh |-> h.fresh \ new, alive |-> h.alive \cup new, kind |-> kind1, doc |-> doc1,
             parent |-> parent1, kids |-> kids1, priv |-> priv1, ptr |-> h.ptr,
             pinned |-> h.pinned, cache |-> h.cache]
    BY <1>1, <1>7 DEF Heap
  <2>2. /\ g.fresh = h.fresh \ new /\ g.alive = h.alive \cup new
        /\ g.kind = kind1 /\ g.doc = doc1 /\ g.parent = parent1 /\ g.priv = priv1 /\ g.kids = kids1
        /\ g.ptr = h.ptr /\ g.pinned = h.pinned /\ g.cache = h.cache
    BY <2>1
  <2>3. /\ h.alive \cup new \subseteq Node /\ h.fresh \ new \subseteq Node
        /\ h.ptr \in [Wrapper -> Node \cup {NULL}] /\ h.pinned \in [Doc -> SUBSET Node]
        /\ h.cache \in [Doc -> SUBSET Wrapper]
    BY <1>1, <1>3 DEF Heap
  <2>4. g \in Heap
    BY <1>8, <2>1, <2>3 DEF Heap
  <2>5. QED BY <2>2, <2>4
<1>12. QED
  BY <1>1, <1>9, <1>10, <1>11 DEF Copies

\* A copy keeps the heap sound.
LEMMA CopySound ==
  ASSUME NEW h, NEW D, NEW x, Sound(h, D, x), NEW S \in SUBSET h.alive,
         \A c \in h.alive : h.parent[c] \in S => c \in S,
         NEW f \in [S -> h.fresh], Injective(f), NEW d \in Doc, D[d] = "live",
         NEW g, Copies(h, g, f, d)
  PROVE  /\ Sound(g, D, x)
         /\ Keeps(h, g)
         /\ \A y \in S : Spare(g, f[y])
<1>1. /\ h \in Heap /\ DOMAIN f = S /\ h.alive \subseteq Node /\ h.fresh \subseteq Node
      /\ \A m \in h.alive : m \notin h.fresh /\ h.parent[m] \notin h.fresh
      /\ \A w \in Wrapper : h.ptr[w] \notin h.fresh
  BY DistinctSorts, NullIsNoObject DEF Sound, Heap, Allocated, Upward, Pointing
<1>2. \A y, z \in S : f[y] = f[z] => y = z
  BY <1>1 DEF Injective
<1>3. /\ g \in Heap
      /\ g.ptr = h.ptr /\ g.cache = h.cache /\ g.pinned = h.pinned
      /\ g.fresh \subseteq h.fresh /\ h.alive \subseteq g.alive
      /\ \A m \in g.alive : m \in h.alive \/ \E y \in S : m = f[y]
  BY <1>1 DEF Copies
<1>4. /\ \A m \in h.alive : /\ g.kind[m] = h.kind[m] /\ g.doc[m] = h.doc[m]
                            /\ g.parent[m] = h.parent[m] /\ g.priv[m] = h.priv[m]
      /\ \A p \in Node \cup Doc : p \notin h.fresh => g.kids[p] = h.kids[p]
  BY <1>1 DEF Copies
<1>5. \A y \in S : /\ f[y] \in Node /\ f[y] \in h.fresh /\ f[y] \notin g.fresh /\ f[y] \in g.alive
                   /\ g.kind[f[y]] = h.kind[y] /\ g.doc[f[y]] = d /\ g.priv[f[y]] = NULL
                   /\ g.parent[f[y]] = IF h.parent[y] \in S THEN f[h.parent[y]] ELSE NULL
                   /\ g.kids[f[y]] = [i \in DOMAIN h.kids[y] |-> f[h.kids[y][i]]]
  BY <1>1 DEF Copies
<1>6. Allocated(g)
  <2>1. SUFFICES ASSUME NEW m \in g.alive, m \in g.fresh PROVE FALSE
    BY DEF Allocated
  <2>2. CASE m \in h.alive
    BY <1>1, <1>3, <2>1, <2>2
  <2>3. ASSUME NEW y \in S, m = f[y] PROVE FALSE
    BY <1>5, <2>1, <2>3
  <2>4. QED BY <1>3, <2>2, <2>3
<1>7. Upward(g)
  <2>1. SUFFICES ASSUME NEW n \in g.alive
                 PROVE  /\ g.parent[n] \in Node =>
                             /\ g.parent[n] \in g.alive
                             /\ g.doc[g.parent[n]] = g.doc[n]
                             /\ g.kind[g.parent[n]] \in {Elem, Frag, Attr}
                             /\ g.kind[g.parent[n]] = Attr => g.kind[n] \in {Text, Blank, Ref}
                        /\ g.parent[n] \in Doc => g.parent[n] = g.doc[n]
    BY DEF Upward
  <2>2. CASE n \in h.alive
    <3>1. g.parent[n] \in Node => h.parent[n] \in h.alive
      BY <1>4, <2>2 DEF Sound, Upward
    <3>2. QED BY <1>3, <1>4, <2>2, <3>1 DEF Sound, Upward
  <2>3. ASSUME NEW y \in S, n = f[y]
        PROVE  /\ g.parent[n] \in Node =>
                    /\ g.parent[n] \in g.alive
                    /\ g.doc[g.parent[n]] = g.doc[n]
                    /\ g.kind[g.parent[n]] \in {Elem, Frag, Attr}
                    /\ g.kind[g.parent[n]] = Attr => g.kind[n] \in {Text, Blank, Ref}
               /\ g.parent[n] \in Doc => g.parent[n] = g.doc[n]
    <3>1. CASE h.parent[y] \in S
      <4>1. h.parent[y] \in Node /\ f[h.parent[y]] \notin Doc
        BY <1>1, <1>5, <3>1, DistinctSorts
      <4>2. g.parent[n] = f[h.parent[y]]
        BY <1>5, <2>3, <3>1
      <4>3. /\ h.kind[h.parent[y]] \in {Elem, Frag, Attr}
            /\ h.kind[h.parent[y]] = Attr => h.kind[y] \in {Text, Blank, Ref}
        BY <4>1 DEF Sound, Upward
      <4>4. QED BY <1>5, <2>3, <3>1, <4>1, <4>2, <4>3
    <3>2. CASE h.parent[y] \notin S
      BY <1>5, <2>3, <3>2, NullIsNoObject
    <3>3. QED BY <3>1, <3>2
  <2>4. QED BY <1>3, <2>2, <2>3
<1>8. Downward(g, D)
  <2>1. SUFFICES ASSUME NEW p \in Node \cup Doc, InTree(g, D, p)
                 PROVE  /\ Injective(g.kids[p])
                        /\ \A m \in Node : m \in Members(g.kids[p])
                             <=> m \in g.alive /\ g.parent[m] = p /\ g.kind[m] # Attr
    BY DEF Downward
  <2>2. CASE \E y \in S : p = f[y]
    <3>1. PICK y \in S : p = f[y]
      BY <2>2
    <3> DEFINE s == h.kids[y]
    <3>2. y \in Node /\ InTree(h, D, y) /\ s \in Seq(Node)
      BY <1>1 DEF InTree, Heap
    <3>3. /\ Injective(s)
          /\ \A m \in Node : m \in Members(s) <=> m \in h.alive /\ h.parent[m] = y /\ h.kind[m] # Attr
      BY <3>2 DEF Sound, Downward
    <3>4. Members(s) \subseteq S
      BY <3>2, <3>3, MembersOfSeq
    <3>5. /\ g.kids[p] = [i \in DOMAIN s |-> f[s[i]]]
          /\ \A c \in Members(s) : f[c] \in Node
      BY <1>5, <3>1, <3>4
    <3>6. Members(g.kids[p]) = {f[c] : c \in Members(s)} /\ Injective(g.kids[p])
      <4> HIDE DEF s
      <4>1. \A c, e \in Members(s) : f[c] = f[e] => c = e
        BY <1>2, <3>4
      <4> DEFINE t == [i \in DOMAIN s |-> f[s[i]]]
      <4>2. Members(t) = {f[c] : c \in Members(s)} /\ Injective(t)
        <5>1. /\ t \in Seq(Node)
              /\ Members(t) = {f[c] : c \in Members(s)}
              /\ (Injective(s) /\ \A c, e \in Members(s) : f[c] = f[e] => c = e) => Injective(t)
          <6> HIDE DEF t
          <6>1. s \in Seq(Node) /\ \A c \in Members(s) : f[c] \in Node
            BY <3>2, <3>5
          <6>2. QED BY ONLY <6>1, MappedSeq, Z3T(30) DEF t
        <5>2. QED BY <3>3, <4>1, <5>1
      <4>3. QED BY <3>5, <4>2
    <3>7. ASSUME NEW c \in Members(s) PROVE f[c] \in g.alive /\ g.parent[f[c]] = p /\ g.kind[f[c]] # Attr
      <4>1. c \in S /\ h.parent[c] = y /\ h.kind[c] # Attr
        BY <1>1, <3>3, <3>4, <3>7
      <4>2. f[c] \in g.alive /\ g.parent[f[c]] = f[h.parent[c]] /\ g.kind[f[c]] = h.kind[c]
        BY <1>5, <4>1
      <4>3. QED BY <3>1, <4>1, <4>2
    <3>8. ASSUME NEW m \in Node, m \in g.alive, g.parent[m] = p, g.kind[m] # Attr
          PROVE  m \in {f[c] : c \in Members(s)}
      <4>1. p \in h.fresh
        BY <1>5, <3>1
      <4>2. m \notin h.alive
        BY <1>1, <1>4, <3>8, <4>1
      <4>3. PICK c \in S : m = f[c]
        BY <1>3, <3>8, <4>2
      <4>4. h.parent[c] \in S /\ f[h.parent[c]] = f[y]
        <5>1. g.parent[m] = IF h.parent[c] \in S THEN f[h.parent[c]] ELSE NULL
          BY <1>5, <4>3
        <5>2. g.parent[m] = f[y] /\ f[y] # NULL
          BY <1>5, <3>1, <3>8, NullIsNoObject
        <5>3. QED BY <5>1, <5>2
      <4>5. h.parent[c] = y /\ h.kind[c] # Attr
        BY <1>2, <1>5, <3>8, <4>3, <4>4
      <4>6. c \in Members(s)
        BY <1>1, <3>3, <4>5
      <4>7. QED BY <4>3, <4>6
    <3>9. QED BY <3>6, <3>7, <3>8
  <2>3. CASE ~\E y \in S : p = f[y]
    <3>1. InTree(h, D, p) /\ p \notin h.fresh
      BY <1>1, <1>3, <2>1, <2>3, DistinctSorts DEF InTree
    <3>2. g.kids[p] = h.kids[p]
      BY <1>4, <3>1
    <3>3. ASSUME NEW m \in Node
          PROVE  m \in g.alive /\ g.parent[m] = p /\ g.kind[m] # Attr
                   <=> m \in h.alive /\ h.parent[m] = p /\ h.kind[m] # Attr
      <4>1. CASE m \in h.alive
        BY <1>3, <1>4, <4>1
      <4>2. CASE m \notin h.alive
        <5>1. SUFFICES ASSUME NEW y \in S, m = f[y], g.parent[m] = p PROVE FALSE
          BY <1>3, <4>2
        <5>2. p # NULL
          BY NullIsNoObject
        <5>3. QED BY <1>5, <2>3, <5>1, <5>2
      <4>3. QED BY <4>1, <4>2
    <3>4. QED BY <3>1, <3>2, <3>3 DEF Sound, Downward
  <2>4. QED BY <2>2, <2>3
<1>9. Pointing(g)
  BY <1>1, <1>3 DEF Pointing
<1>10. Cached(g, D)
  <2>1. SUFFICES ASSUME NEW m \in g.alive, g.priv[m] # NULL, D[g.doc[m]] # "freed"
                 PROVE  g.priv[m] \in g.cache[g.doc[m]]
    BY DEF Cached
  <2>2. CASE m \in h.alive
    BY <1>3, <1>4, <2>1, <2>2 DEF Sound, Cached
  <2>3. ASSUME NEW y \in S, m = f[y] PROVE FALSE
    BY <1>5, <2>1, <2>3
  <2>4. QED BY <1>3, <2>2, <2>3
<1>11. Forgotten(g, x)
  <2>1. \A w \in Wrapper : g.ptr[w] \in g.alive => g.ptr[w] \in h.alive
    BY <1>1, <1>3, <1>5
  <2>2. QED BY <1>3, <1>4, <2>1 DEF Sound, Forgotten, IsText
<1>12. Pins(g, x)
  <2>1. ASSUME NEW e \in Doc, NEW m \in h.pinned[e]
        PROVE  /\ m \in h.alive /\ h.doc[m] = e
               /\ m # x /\ h.parent[m] # NULL => /\ h.kind[m] # Attr /\ ~IsText(h, m)
                                                 /\ h.priv[m] # NULL
    BY DEF Sound, Pins
  <2>2. QED BY <1>3, <1>4, <2>1 DEF Pins, IsText
<1>13. NotBorn(g, D)
  <2>1. ASSUME NEW n \in g.alive, n \notin h.alive PROVE g.doc[n] = d
    <3>1. PICK y \in S : n = f[y]
      BY <1>3, <2>1
    <3>2. QED BY <1>5, <3>1
  <2>2. QED BY <1>3, <1>4, <2>1 DEF Sound, NotBorn
<1>14. Keeps(h, g)
  <2>1. \A m \in Node : m \in h.fresh \/ SameNode(h, g, m)
    BY DEF Copies, SameNode
  <2>2. QED BY <1>3, <1>4, <2>1 DEF Keeps
<1>15. \A y \in S : Spare(g, f[y])
  <2>1. \A e \in Doc : \A m \in h.pinned[e] : m \notin h.fresh
    BY <1>1 DEF Sound, Pins
  <2>2. SUFFICES ASSUME NEW y \in S PROVE Spare(g, f[y])
    OBVIOUS
  <2>3. f[y] \in h.fresh /\ g.priv[f[y]] = NULL
    BY <1>5
  <2>4. QED BY <1>1, <1>3, <2>1, <2>3 DEF Spare
<1>16. Agrees(g)
  <2>1. SUFFICES ASSUME NEW m \in g.alive, IsText(g, m), g.parent[m] # NULL, g.priv[m] # NULL
                 PROVE  g.ptr[g.priv[m]] = m
    BY DEF Agrees
  <2>2. m \in h.alive
    <3>1. \A y \in S : g.priv[f[y]] = NULL
      BY <1>5
    <3>2. QED BY <1>3, <2>1, <3>1
  <2>3. QED BY <1>3, <1>4, <2>1, <2>2 DEF Sound, Agrees, IsText
<1>17. QED
  BY <1>3, <1>6, <1>7, <1>8, <1>9, <1>10, <1>11, <1>12, <1>13, <1>14, <1>15, <1>16 DEF Sound

\* What CanCopy allows to be copied is a set that has room, and a copy of n is
\* a detached node.
LEMMA CopyNodeSound ==
  ASSUME NEW h, NEW D, NEW x, Sound(h, D, x), NEW n \in h.alive, CanCopy(h, n),
         NEW d \in Doc, D[d] = "live",
         NEW g, g = xmlDocCopyNode(h, n, d), NEW c, c = CopyOf(h, n)
  PROVE  /\ Sound(g, D, x)
         /\ Keeps(h, g)
         /\ c \in g.alive /\ c \notin h.alive /\ g.doc[c] = d /\ g.parent[c] = NULL
         /\ g.kind[c] = h.kind[n]
         /\ Spare(g, c)
         /\ \A m \in h.alive : /\ m \in g.alive
                               /\ g.kind[m] = h.kind[m] /\ g.doc[m] = h.doc[m]
                               /\ g.parent[m] = h.parent[m] /\ g.priv[m] = h.priv[m]
         /\ g.fresh \subseteq h.fresh
         /\ \A p \in Node \cup Doc : p \notin h.fresh => g.kids[p] = h.kids[p]
<1> DEFINE S == Subtree(h, n)
           f == CopyMap(h, S)
<1>1. /\ h \in Heap /\ n \in Node
      /\ \A m \in h.alive : m \in Node /\ m \notin h.fresh
  BY DEF Sound, Heap, Allocated
<1>2. /\ S \in SUBSET h.alive /\ n \in S
      /\ \A m \in h.alive : h.parent[m] \in S => m \in S
  BY BelowIsLeast DEF Subtree
<1>3. h.parent[n] \notin S /\ RoomFor(h, S)
  BY DEF CanCopy, IsAncestorOfSelf
<1> HIDE DEF S
<1>4. f \in [S -> h.fresh] /\ Injective(f)
  BY <1>3 DEF RoomFor, CopyMap
<1>5. g = CopyBy(h, f, d) /\ c = f[n]
  BY DEF xmlDocCopyNode, CopyOf, S
<1> HIDE DEF f
<1>6. Copies(h, g, f, d)
  BY <1>2, <1>4, <1>5, CopyFields
<1>7. Sound(g, D, x) /\ Keeps(h, g) /\ Spare(g, c)
  BY <1>2, <1>4, <1>5, <1>6, CopySound
<1>8. DOMAIN f = S
  BY <1>4
<1>9. /\ c \in g.alive /\ c \in h.fresh /\ g.doc[c] = d /\ g.parent[c] = NULL
      /\ g.kind[c] = h.kind[n] /\ g.priv[c] = NULL
  <2>1. \A y \in S : /\ f[y] \in h.fresh /\ f[y] \in g.alive
                     /\ g.kind[f[y]] = h.kind[y] /\ g.doc[f[y]] = d /\ g.priv[f[y]] = NULL
                     /\ g.parent[f[y]] = IF h.parent[y] \in S THEN f[h.parent[y]] ELSE NULL
    BY <1>6, <1>8 DEF Copies
  <2>2. QED BY <1>2, <1>3, <1>5, <2>1
<1>10. \A m \in h.alive : /\ m \in g.alive
                          /\ g.kind[m] = h.kind[m] /\ g.doc[m] = h.doc[m]
                          /\ g.parent[m] = h.parent[m] /\ g.priv[m] = h.priv[m]
  BY <1>1, <1>6 DEF Copies
<1>11. /\ g.fresh \subseteq h.fresh
       /\ \A p \in Node \cup Doc : p \notin h.fresh => g.kids[p] = h.kids[p]
  BY <1>6 DEF Copies
<1>12. QED
  BY <1>1, <1>7, <1>9, <1>10, <1>11

-----------------------------------------------------------------------------
(* The functions of libxml2 that link a node.                              *)

\* What the tree says of a node that has a parent.
LEMMA ParentOf ==
  ASSUME NEW h, NEW D, NEW x, Sound(h, D, x), NEW n \in h.alive, h.parent[n] # NULL,
         D[h.doc[n]] # "freed", NEW p, p = h.parent[n]
  PROVE  /\ n \in Node /\ p \in Node \cup Doc
         /\ InTree(h, D, p)
         /\ DocOf(h, p) = h.doc[n]
         /\ h.kids[p] \in Seq(Node) /\ Injective(h.kids[p])
         /\ h.kind[n] # Attr => n \in Members(h.kids[p])
<1>1. n \in Node /\ h \in Heap /\ p \in Node \cup Doc /\ h.kids[p] \in Seq(Node)
  BY DEF Sound, Heap
<1>2. /\ p \in Node => p \in h.alive /\ h.doc[p] = h.doc[n]
      /\ p \in Doc => p = h.doc[n]
  BY DEF Sound, Upward
<1>3. InTree(h, D, p) /\ DocOf(h, p) = h.doc[n]
  BY <1>1, <1>2, DistinctSorts DEF InTree, DocOf
<1>4. QED
  BY <1>1, <1>3 DEF Sound, Downward

\* What the tree says of the children of a node or document.
LEMMA ChildOf ==
  ASSUME NEW h, NEW D, NEW x, Sound(h, D, x), NEW p \in Node \cup Doc, InTree(h, D, p),
         NEW c \in Members(h.kids[p])
  PROVE  /\ c \in Node /\ c \in h.alive /\ h.parent[c] = p /\ h.kind[c] # Attr
         /\ h.doc[c] = DocOf(h, p)
<1>1. h.kids[p] \in Seq(Node)
  BY DEF Sound, Heap
<1>2. c \in Node
  BY <1>1, MembersOfSeq
<1>3. c \in h.alive /\ h.parent[c] = p /\ h.kind[c] # Attr
  BY <1>2 DEF Sound, Downward
<1>4. QED
  BY <1>2, <1>3, DistinctSorts DEF Sound, Upward, DocOf

\* n is detached and may be linked, or freed if it is a text
Ready(h, D, n) ==
  n \in h.alive /\ h.parent[n] = NULL /\ D[h.doc[n]] = "live" /\ Linkable(h, n)

\* r is what a function that links n makes of the heap h
Placed(h, D, n, r) ==
  /\ Sound(r.h, D, NULL)
  /\ Keeps(h, r.h)
  /\ r.n # NULL => /\ r.n \in r.h.alive /\ r.h.doc[r.n] = h.doc[n]
                   /\ IsText(h, n) \/ r.h.priv[r.n] = h.priv[n]

\* Nothing has happened.
LEMMA NothingPlaced ==
  ASSUME NEW h, NEW D, NEW n, Sound(h, D, NULL)
  PROVE  /\ Placed(h, D, n, [h |-> h, n |-> NULL])
         /\ n \in h.alive => Placed(h, D, n, [h |-> h, n |-> n])
<1>1. Keeps(h, h)
  BY KeepsNothing
<1>2. QED BY <1>1 DEF Placed

\* A text that no wrapper points at is merged into another one.
LEMMA MergePlaced ==
  ASSUME NEW h, NEW D, Sound(h, D, NULL), NEW n \in h.alive, IsText(h, n), Spare(h, n),
         D[h.doc[n]] = "live", NEW left \in h.alive, left # n, IsText(h, left),
         h.doc[left] = h.doc[n]
  PROVE  /\ Placed(h, D, n, [h |-> xmlTextMerge(h, left, n), n |-> left])
         /\ IsText(xmlTextMerge(h, left, n), left)
<1> DEFINE g == xmlTextMerge(h, left, n)
<1>1. /\ Sound(g, D, NULL) /\ Keeps(h, g)
      /\ g.fresh = h.fresh /\ g.doc = h.doc /\ left \in g.alive /\ IsText(g, left)
  BY TextMergeSound
<1> HIDE DEF g
<1>2. Placed(h, D, n, [h |-> g, n |-> left])
  BY <1>1 DEF Placed
<1>3. QED BY <1>1, <1>2 DEF g

\* A node is linked where it may be.
LEMMA LinkPlaced ==
  ASSUME NEW h, NEW D, Sound(h, D, NULL), NEW n, Ready(h, D, n),
         NEW p \in Node \cup Doc, InTree(h, D, p), DocOf(h, p) = h.doc[n], MayContain(h, p, n),
         NEW i \in 1 .. Len(h.kids[p]) + 1
  PROVE  /\ Placed(h, D, n, [h |-> Link(h, p, i, n), n |-> n])
         /\ LET g == Link(h, p, i, n)
            IN  /\ g.alive = h.alive /\ g.kind = h.kind /\ g.doc = h.doc /\ g.ptr = h.ptr
                /\ g.priv = h.priv /\ g.pinned = h.pinned /\ g.parent[n] = p
<1> DEFINE g == Link(h, p, i, n)
<1>1. n \in Node /\ n \in h.alive /\ h.parent[n] = NULL /\ Linkable(h, n)
  BY DEF Ready, Sound, Heap
<1>2. /\ Sound(g, D, NULL) /\ Keeps(h, g)
      /\ g.fresh = h.fresh /\ g.alive = h.alive /\ g.kind = h.kind /\ g.doc = h.doc
      /\ g.priv = h.priv /\ g.pinned = h.pinned
      /\ g.parent = [h.parent EXCEPT ![n] = p]
  BY <1>1, LinkSound
<1>3. h.parent \in [Node -> Node \cup Doc \cup {NULL}]
  BY DEF Sound, Heap
<1> HIDE DEF g
<1>4. Placed(h, D, n, [h |-> g, n |-> n])
  BY <1>1, <1>2 DEF Placed
<1>5. QED BY <1>1, <1>2, <1>3, <1>4 DEF g, Keeps

\* xmlAddChild.
LEMMA AddChildPlaced ==
  ASSUME NEW h, NEW D, Sound(h, D, NULL), NEW n, Ready(h, D, n),
         NEW p \in Node \cup Doc, InTree(h, D, p), DocOf(h, p) = h.doc[n], MayContain(h, p, n)
  PROVE  Placed(h, D, n, xmlAddChild(h, p, n))
<1> DEFINE s == h.kids[p]
<1>1. CASE p = n
  BY <1>1, NothingPlaced DEF xmlAddChild
<1>2. ASSUME p # n, IsText(h, n), Len(s) > 0, IsText(h, s[Len(s)])
      PROVE  Placed(h, D, n, xmlAddChild(h, p, n))
  <2>1. s \in Seq(Node) /\ Len(s) \in Nat
    BY MembersOfSeq DEF Sound, Heap
  <2>2. s[Len(s)] \in Members(s)
    BY <1>2, <2>1, MembersOfSeq
  <2>3. s[Len(s)] \in h.alive /\ h.parent[s[Len(s)]] = p /\ h.doc[s[Len(s)]] = h.doc[n]
    BY <2>2, ChildOf
  <2>4. s[Len(s)] # n
    <3> DEFINE last == s[Len(s)]
    <3>1. h.parent[last] = p /\ h.parent[n] = NULL
      BY <2>3 DEF Ready
    <3> HIDE DEF last
    <3>2. last # n
      BY <3>1, NullIsNoObject
    <3>3. QED BY <3>2 DEF last
  <2>5. xmlAddChild(h, p, n) = [h |-> xmlTextMerge(h, s[Len(s)], n), n |-> s[Len(s)]]
    BY <1>2 DEF xmlAddChild
  <2> HIDE DEF s
  <2>6. QED BY <1>2, <2>3, <2>4, <2>5, MergePlaced DEF Ready, Linkable
<1>3. ASSUME p # n, ~(IsText(h, n) /\ Len(s) > 0 /\ IsText(h, s[Len(s)]))
      PROVE  Placed(h, D, n, xmlAddChild(h, p, n))
  <2>1. s \in Seq(Node) /\ Len(s) \in Nat
    BY MembersOfSeq DEF Sound, Heap
  <2>2. Len(s) + 1 \in 1 .. Len(s) + 1
    BY <2>1
  <2>3. xmlAddChild(h, p, n) = [h |-> Link(h, p, Len(s) + 1, n), n |-> n]
    BY <1>3 DEF xmlAddChild
  <2> DEFINE i == Len(s) + 1
  <2> HIDE DEF i
  <2>4. i \in 1 .. Len(h.kids[p]) + 1
    BY <2>2 DEF i
  <2>5. Placed(h, D, n, [h |-> Link(h, p, i, n), n |-> n])
    BY <2>4, LinkPlaced
  <2>6. QED BY <2>3, <2>5 DEF i
<1>4. QED BY <1>1, <1>2, <1>3

\* xmlAddNextSibling and xmlAddPrevSibling.
LEMMA AddSiblingPlaced ==
  ASSUME NEW h, NEW D, Sound(h, D, NULL), NEW n, Ready(h, D, n),
         NEW pivot \in h.alive, h.kind[pivot] # Attr, h.doc[pivot] = h.doc[n],
         h.parent[pivot] # NULL => MayContain(h, h.parent[pivot], n),
         NEW offset \in {0, 1}
  PROVE  Placed(h, D, n, xmlAddSibling(h, pivot, n, offset))
<1> DEFINE p == h.parent[pivot]
           r == xmlAddSibling(h, pivot, n, offset)
<1>1. CASE pivot = n
  BY <1>1, NothingPlaced DEF xmlAddSibling
<1>2. CASE pivot # n /\ SiblingsMerge /\ IsText(h, n) /\ IsText(h, pivot)
  <2>1. r = [h |-> xmlTextMerge(h, pivot, n), n |-> pivot]
    BY <1>2 DEF xmlAddSibling
  <2>2. QED BY <1>2, <2>1, MergePlaced DEF Ready, Linkable
<1>3. CASE pivot # n /\ ~(SiblingsMerge /\ IsText(h, n) /\ IsText(h, pivot)) /\ p = NULL
  <2>1. r = [h |-> h, n |-> n]
    BY <1>3 DEF xmlAddSibling
  <2>2. QED BY <2>1, NothingPlaced DEF Ready
<1>4. CASE pivot # n /\ ~(SiblingsMerge /\ IsText(h, n) /\ IsText(h, pivot)) /\ p # NULL
  <2>1. r = [h |-> Link(h, p, Position(h.kids[p], pivot) + offset, n), n |-> n]
    BY <1>4 DEF xmlAddSibling
  <2>2. D[h.doc[pivot]] # "freed"
    BY DEF Ready
  <2>3. /\ p \in Node \cup Doc /\ InTree(h, D, p) /\ DocOf(h, p) = h.doc[n]
        /\ h.kids[p] \in Seq(Node) /\ pivot \in Members(h.kids[p])
    BY <1>4, <2>2, ParentOf
  <2> HIDE DEF p
  <2>4. /\ Position(h.kids[p], pivot) \in 1 .. Len(h.kids[p]) /\ Len(h.kids[p]) \in Nat
    BY <2>3, PositionOfMember, MembersOfSeq
  <2>5. Position(h.kids[p], pivot) + offset \in 1 .. Len(h.kids[p]) + 1
    BY <2>4
  <2>6. QED BY <1>4, <2>1, <2>3, <2>5, LinkPlaced DEF p
<1>5. QED BY <1>1, <1>2, <1>3, <1>4

\* xmlReplaceNode: the node is in the tree, or it is refused.
LEMMA ReplaceNodePlaced ==
  ASSUME NEW h, NEW D, Sound(h, D, NULL), NEW n, Ready(h, D, n),
         NEW pivot \in h.alive, h.kind[pivot] # Attr, h.doc[pivot] = h.doc[n],
         h.parent[pivot] # NULL => MayContain(h, h.parent[pivot], n),
         NEW r, r = xmlReplaceNode(h, pivot, n)
  PROVE  /\ Placed(h, D, n, r)
         /\ r.n = NULL \/ /\ r.n = n /\ r.h.parent[n] # NULL
                          /\ r.h.alive = h.alive /\ r.h.kind = h.kind /\ r.h.doc = h.doc
                          /\ r.h.ptr = h.ptr /\ r.h.priv = h.priv /\ r.h.pinned = h.pinned
<1> DEFINE p == h.parent[pivot]
           k == xmlUnlinkNode(h, pivot)
           i == Position(h.kids[p], pivot)
<1>1. CASE p = NULL
  <2>1. r = [h |-> h, n |-> NULL]
    BY <1>1 DEF xmlReplaceNode
  <2>2. Placed(h, D, n, [h |-> h, n |-> NULL])
    BY NothingPlaced
  <2>3. QED BY <2>1, <2>2
<1>2. CASE p # NULL
  <2>1. r = [h |-> Link(k, p, i, n), n |-> n]
    BY <1>2 DEF xmlReplaceNode
  <2>2. D[h.doc[pivot]] # "freed" /\ pivot # n
    <3>1. D[h.doc[n]] = "live" /\ h.parent[n] = NULL
      BY DEF Ready
    <3>2. QED BY <1>2, <3>1
  <2>3. /\ pivot \in Node /\ p \in Node \cup Doc /\ InTree(h, D, p) /\ DocOf(h, p) = h.doc[n]
        /\ h.kids[p] \in Seq(Node) /\ Injective(h.kids[p]) /\ pivot \in Members(h.kids[p])
    BY <1>2, <2>2, ParentOf
  <2>4. /\ Sound(k, D, NULL) /\ Keeps(h, k)
        /\ k.fresh = h.fresh /\ k.alive = h.alive /\ k.kind = h.kind /\ k.doc = h.doc
        /\ k.priv = h.priv /\ k.pinned = h.pinned
        /\ k.parent = [h.parent EXCEPT ![pivot] = NULL]
        /\ k.kids[p] = Without(h.kids[p], pivot)
    BY <1>2, <2>2, UnlinkSound, Z3
  <2>5. k.ptr = h.ptr /\ h.parent \in [Node -> Node \cup Doc \cup {NULL}] /\ n \in Node
    BY <2>4 DEF Keeps, Sound, Heap, Ready
  <2> HIDE DEF k, p, i
  <2>6. Len(k.kids[p]) = Len(h.kids[p]) - 1
    BY <2>3, <2>4, WithoutMember
  <2>7. i \in 1 .. Len(h.kids[p]) /\ Len(h.kids[p]) \in Nat
    BY <2>3, PositionOfMember, MembersOfSeq DEF i
  <2>8. i \in 1 .. Len(k.kids[p]) + 1
    BY <2>6, <2>7
  <2>9. Ready(k, D, n)
    BY <2>2, <2>4, <2>5 DEF Ready, IsText, Linkable, Spare
  <2>10. InTree(k, D, p) /\ DocOf(k, p) = k.doc[n] /\ MayContain(k, p, n)
    BY <1>2, <2>3, <2>4 DEF InTree, DocOf, MayContain, p
  <2> DEFINE g == Link(k, p, i, n)
  <2>11. /\ Placed(k, D, n, [h |-> g, n |-> n])
         /\ g.alive = k.alive /\ g.kind = k.kind /\ g.doc = k.doc /\ g.ptr = k.ptr
         /\ g.priv = k.priv /\ g.pinned = k.pinned /\ g.parent[n] = p
    BY <2>3, <2>4, <2>8, <2>9, <2>10, LinkPlaced
  <2> HIDE DEF g
  <2>12. r = [h |-> g, n |-> n]
    BY <2>1 DEF g
  <2>13. Keeps(h, g)
    BY <2>4, <2>11, KeepsComposes DEF Placed
  <2>14. Placed(h, D, n, [h |-> g, n |-> n])
    BY <2>4, <2>11, <2>13 DEF Placed, IsText
  <2>15. QED BY <1>2, <2>4, <2>5, <2>11, <2>12, <2>14
<1>3. QED BY <1>1, <1>2

\* The text before a text, if there is one, is another text of the document.
LEMMA TextBeforePlace ==
  ASSUME NEW h, NEW D, Sound(h, D, NULL), NEW n \in h.alive, h.parent[n] # NULL,
         D[h.doc[n]] # "freed", NEW left, left = TextBefore(h, n), left # n
  PROVE  /\ IsText(h, n) /\ IsText(h, left) /\ left \in h.alive /\ h.doc[left] = h.doc[n]
         /\ h.parent[left] = h.parent[n]
<1> DEFINE p == h.parent[n]
           s == h.kids[p]
           i == Position(s, n)
<1>1. IsText(h, n) /\ left = PrevSibling(h, n) /\ left # NULL /\ IsText(h, left)
  BY DEF TextBefore
<1>2. left = s[i - 1] /\ i > 1
  BY <1>1 DEF PrevSibling
<1>3. /\ p \in Node \cup Doc /\ InTree(h, D, p) /\ DocOf(h, p) = h.doc[n]
      /\ s \in Seq(Node) /\ n \in Members(s)
  BY <1>1, ParentOf DEF IsText, Attr, Text, Blank
<1>4. i \in 1 .. Len(s) /\ Len(s) \in Nat
  BY <1>3, PositionOfMember, MembersOfSeq
<1>5. left \in Members(s)
  <2>1. i - 1 \in 1 .. Len(s)
    BY <1>2, <1>4, SMTT(30)
  <2>2. QED BY <1>2, <1>3, <2>1, MembersOfSeq
<1>6. QED BY <1>1, <1>3, <1>5, ChildOf

\* The text after a node, if there is one, is another text of the document.
LEMMA TextAfterPlace ==
  ASSUME NEW h, NEW D, Sound(h, D, NULL), NEW n \in h.alive, h.kind[n] # Attr,
         D[h.doc[n]] # "freed", NEW nxt, nxt = TextAfter(h, n), nxt # NULL
  PROVE  IsText(h, nxt) /\ nxt \in h.alive /\ h.doc[nxt] = h.doc[n] /\ h.parent[nxt] # NULL
<1> DEFINE p == h.parent[n]
           s == h.kids[p]
           i == Position(s, n)
<1>1. p # NULL /\ nxt = NextSibling(h, n) /\ IsText(h, nxt)
  BY DEF TextAfter
<1>2. nxt = s[i + 1] /\ i < Len(s)
  BY <1>1 DEF NextSibling
<1>3. /\ p \in Node \cup Doc /\ InTree(h, D, p) /\ DocOf(h, p) = h.doc[n]
      /\ s \in Seq(Node) /\ n \in Members(s)
  BY <1>1, ParentOf
<1>4. i \in 1 .. Len(s) /\ Len(s) \in Nat
  BY <1>3, PositionOfMember, MembersOfSeq
<1>5. nxt \in Members(s)
  <2>1. i + 1 \in 1 .. Len(s)
    BY <1>2, <1>4
  <2>2. QED BY <1>2, <1>3, <2>1, MembersOfSeq
<1>6. QED BY <1>1, <1>3, <1>5, ChildOf

\* The merges that follow a replacement.
LEMMA SettlePlaced ==
  ASSUME NEW h, NEW D, Sound(h, D, NULL), NEW n \in h.alive, h.parent[n] # NULL,
         D[h.doc[n]] = "live", IsText(h, n) => Spare(h, n),
         NEW k \in {Text, Blank}, k = Text => IsText(h, n)
  PROVE  Placed(h, D, n, Settle([h |-> h, n |-> n], n, k))
<1> DEFINE left == TextBefore(h, n)
           h1 == IF left # n THEN xmlTextMerge(h, left, n) ELSE h
           g == IF k = Text THEN [h1 EXCEPT !.kind[left] = Text] ELSE h1
<1>1. n # NULL
  BY NullIsNoObject DEF Sound, Heap
<1>2. Settle([h |-> h, n |-> n], n, k) = [h |-> g, n |-> left]
  BY <1>1 DEF Settle, MergeInto
<1>3. /\ Placed(h, D, n, [h |-> h1, n |-> left]) /\ left # NULL
      /\ IsText(h, n) => IsText(h1, left)
  <2>1. CASE left # n
    <3> HIDE DEF left
    <3>1. IsText(h, n) /\ IsText(h, left) /\ left \in h.alive /\ h.doc[left] = h.doc[n]
      BY <2>1, TextBeforePlace DEF left
    <3>2. left # NULL
      BY <3>1, NullIsNoObject DEF Sound, Heap
    <3>3. QED BY <2>1, <3>1, <3>2, MergePlaced
  <2>2. CASE left = n
    <3> HIDE DEF left
    <3>1. QED BY <1>1, <2>2, NothingPlaced
  <2>3. QED BY <2>1, <2>2
<1> HIDE DEF h1, left
<1>4. CASE k # Text
  BY <1>2, <1>3, <1>4
<1>5. CASE k = Text
  <2>1. g = [h1 EXCEPT !.kind[left] = Text]
    BY <1>5
  <2>2. IsText(h, n) /\ IsText(h1, left) /\ Sound(h1, D, NULL) /\ left \in h1.alive
    BY <1>3, <1>5 DEF Placed
  <2> HIDE DEF g
  <2>3. /\ Sound(g, D, NULL) /\ Keeps(h1, g)
        /\ g.alive = h1.alive /\ g.doc = h1.doc
    BY <2>1, <2>2, RetextSound
  <2>4. Keeps(h, g)
    BY <1>3, <2>3, KeepsComposes DEF Placed
  <2>5. Placed(h, D, n, [h |-> g, n |-> left])
    BY <1>3, <2>2, <2>3, <2>4 DEF Placed
  <2>6. QED BY <1>2, <2>5
<1>6. QED BY <1>4, <1>5

\* What is placed after nothing was taken away is placed.
LEMMA PlacedComposes ==
  ASSUME NEW h, NEW D, NEW n, NEW g, NEW r, Keeps(h, g), Placed(g, D, n, r),
         g.doc[n] = h.doc[n],
         IsText(h, n) \/ (~IsText(g, n) /\ g.priv[n] = h.priv[n])
  PROVE  Placed(h, D, n, r)
<1>1. Keeps(h, r.h)
  BY KeepsComposes DEF Placed
<1>2. QED BY <1>1 DEF Placed

\* A replacement and the merges that follow it.
LEMMA ReplaceAndSettlePlaced ==
  ASSUME NEW h, NEW D, Sound(h, D, NULL), NEW n, Ready(h, D, n),
         NEW pivot \in h.alive, h.kind[pivot] # Attr, h.doc[pivot] = h.doc[n],
         h.parent[pivot] # NULL => MayContain(h, h.parent[pivot], n),
         NEW k \in {Text, Blank}, k = Text => IsText(h, n)
  PROVE  Placed(h, D, n, Settle(xmlReplaceNode(h, pivot, n), n, k))
<1> DEFINE r == xmlReplaceNode(h, pivot, n)
           g == r.h
<1>1. /\ Placed(h, D, n, r)
      /\ r.n = NULL \/ /\ r.n = n /\ g.parent[n] # NULL
                       /\ g.alive = h.alive /\ g.kind = h.kind /\ g.doc = h.doc
                       /\ g.ptr = h.ptr /\ g.priv = h.priv /\ g.pinned = h.pinned
  BY ReplaceNodePlaced
<1>2. CASE r.n = NULL
  BY <1>1, <1>2 DEF Settle
<1>3. CASE r.n # NULL
  <2>1. r = [h |-> g, n |-> n]
    BY <1>1, <1>3 DEF xmlReplaceNode
  <2> HIDE DEF r, g
  <2>2. /\ Sound(g, D, NULL) /\ Keeps(h, g)
        /\ IsText(h, n) \/ g.priv[n] = h.priv[n]
    BY <1>1, <1>3 DEF Placed, g
  <2>3. n \in g.alive /\ g.parent[n] # NULL /\ D[g.doc[n]] = "live"
        /\ IsText(g, n) = IsText(h, n) /\ (IsText(g, n) => Spare(g, n))
    BY <1>1, <1>3 DEF Ready, IsText, Linkable, Spare
  <2>4. Placed(g, D, n, Settle([h |-> g, n |-> n], n, k))
    BY <2>2, <2>3, SettlePlaced
  <2>5. Placed(h, D, n, Settle([h |-> g, n |-> n], n, k))
    BY <1>1, <1>3, <2>2, <2>3, <2>4, PlacedComposes
  <2>6. QED BY <2>1, <2>5 DEF r
<1>4. QED BY <1>2, <1>3

\* The text after the pivot is taken out of the tree and pinned.
LEMMA NextPinned ==
  ASSUME NEW h, NEW D, Sound(h, D, NULL), NEW n, Ready(h, D, n), IsText(h, n),
         NEW pivot \in h.alive, h.kind[pivot] # Attr, h.doc[pivot] = h.doc[n],
         h.parent[pivot] # NULL => MayContain(h, h.parent[pivot], n),
         NEW nxt, nxt = TextAfter(h, pivot), nxt # NULL,
         NEW k, k = UnlinkAndPin(h, nxt)
  PROVE  /\ Sound(k, D, NULL) /\ Keeps(h, k)
         /\ k.alive = h.alive /\ k.kind = h.kind /\ k.doc = h.doc
         /\ Ready(k, D, n) /\ IsText(h, nxt) /\ nxt \in Node
         /\ k.parent[pivot] = NULL \/ k.parent[pivot] = h.parent[pivot]
         /\ pivot # nxt => k.parent[pivot] = h.parent[pivot]
         /\ k.parent[pivot] # NULL => MayContain(k, k.parent[pivot], n)
<1> DEFINE g == xmlUnlinkNode(h, nxt)
<1>1. D[h.doc[n]] = "live" /\ h.parent[n] = NULL /\ n \in h.alive /\ Spare(h, n)
  BY DEF Ready, Linkable
<1>2. k = noko_xml_document_pin_node(g, nxt)
  BY DEF UnlinkAndPin
<1>3. IsText(h, nxt) /\ nxt \in h.alive /\ h.doc[nxt] = h.doc[pivot] /\ h.parent[nxt] # NULL
  BY <1>1, TextAfterPlace
<1>4. /\ Sound(g, D, NULL) /\ Keeps(h, g)
      /\ g.fresh = h.fresh /\ g.alive = h.alive /\ g.kind = h.kind /\ g.doc = h.doc
      /\ g.priv = h.priv /\ g.pinned = h.pinned
      /\ g.parent = [h.parent EXCEPT ![nxt] = NULL]
  <2>1. D[h.doc[nxt]] # "freed" /\ nxt \in h.alive /\ g = xmlUnlinkNode(h, nxt)
    BY <1>1, <1>3
  <2> HIDE DEF g
  <2>2. /\ Sound(g, D, NULL)
        /\ Keeps(h, g)
        /\ g.fresh = h.fresh /\ g.alive = h.alive /\ g.kind = h.kind /\ g.doc = h.doc
        /\ g.priv = h.priv /\ g.pinned = h.pinned
        /\ g.parent = [h.parent EXCEPT ![nxt] = NULL]
        /\ \A q \in Node \cup Doc : q # h.parent[nxt] => g.kids[q] = h.kids[q]
        /\ h.parent[nxt] # NULL => g.kids[h.parent[nxt]] = Without(h.kids[h.parent[nxt]], nxt)
    BY <2>1, UnlinkSound, Z3
  <2>3. QED BY <2>2
<1>5. /\ nxt \in Node /\ nxt \notin h.fresh /\ n \in Node /\ pivot \in Node
      /\ h.parent \in [Node -> Node \cup Doc \cup {NULL}]
  BY <1>1, <1>3 DEF Sound, Heap, Allocated
<1> HIDE DEF g
<1>6. /\ Sound(k, D, NULL) /\ Keeps(g, k)
      /\ k.fresh = g.fresh /\ k.alive = g.alive /\ k.kind = g.kind /\ k.doc = g.doc
      /\ k.priv = g.priv /\ k.parent = g.parent
      /\ k.pinned = [g.pinned EXCEPT ![g.doc[nxt]] = @ \cup {nxt}]
  <2>1. nxt \in g.alive /\ g.parent[nxt] = NULL
    BY <1>3, <1>4, <1>5
  <2>2. /\ Sound(k, D, NULL)
        /\ Keeps(g, k)
        /\ k.fresh = g.fresh /\ k.alive = g.alive /\ k.kind = g.kind /\ k.doc = g.doc
        /\ k.priv = g.priv /\ k.parent = g.parent /\ k.kids = g.kids
        /\ k.pinned = [g.pinned EXCEPT ![g.doc[nxt]] = @ \cup {nxt}]
        /\ nxt \in k.pinned[g.doc[nxt]]
    <3>1. k = noko_xml_document_pin_node(g, nxt) /\ Sound(g, D, NULL)
      BY <1>2, <1>4
    <3>2. QED BY <2>1, <3>1, PinSound
  <2>3. QED BY <2>2
<1>7. Keeps(h, k)
  BY <1>4, <1>6, KeepsComposes
<1>8. /\ k.ptr = h.ptr /\ k.parent[n] = NULL
      /\ k.parent[pivot] = NULL \/ k.parent[pivot] = h.parent[pivot]
      /\ pivot # nxt => k.parent[pivot] = h.parent[pivot]
  BY <1>1, <1>4, <1>5, <1>6, <1>7 DEF Keeps
<1>9. Ready(k, D, n)
  <2>1. n # nxt
    BY <1>1, <1>3
  <2>2. \A d \in Doc : n \notin k.pinned[d]
    BY <1>1, <1>4, <1>6, <2>1, SMTT(30) DEF Spare, Sound, Heap
  <2>3. QED BY <1>1, <1>4, <1>6, <1>8, <2>2 DEF Ready, Linkable, Spare
<1>10. k.parent[pivot] # NULL => MayContain(k, k.parent[pivot], n)
  BY <1>4, <1>6, <1>8 DEF MayContain
<1>11. QED BY <1>3, <1>4, <1>5, <1>6, <1>7, <1>8, <1>9, <1>10

\* xmlReplaceNodeWrapper.
LEMMA ReplaceWrapperPlaced ==
  ASSUME NEW h, NEW D, Sound(h, D, NULL), NEW n, Ready(h, D, n),
         NEW pivot \in h.alive, h.kind[pivot] # Attr, h.doc[pivot] = h.doc[n],
         h.parent[pivot] # NULL => MayContain(h, h.parent[pivot], n)
  PROVE  Placed(h, D, n, xmlReplaceNodeWrapper(h, pivot, n))
<1> DEFINE nxt == TextAfter(h, pivot)
           k == UnlinkAndPin(h, nxt)
<1>1. ASSUME ~(IsText(h, n) /\ nxt # NULL)
      PROVE  Placed(h, D, n, xmlReplaceNodeWrapper(h, pivot, n))
  <2>1. xmlReplaceNodeWrapper(h, pivot, n) = Settle(xmlReplaceNode(h, pivot, n), n, Blank)
    BY <1>1 DEF xmlReplaceNodeWrapper
  <2>2. QED BY <2>1, ReplaceAndSettlePlaced DEF Blank, Text
<1>2. ASSUME IsText(h, n), nxt # NULL
      PROVE  Placed(h, D, n, xmlReplaceNodeWrapper(h, pivot, n))
  <2>1. xmlReplaceNodeWrapper(h, pivot, n) = Settle(xmlReplaceNode(k, pivot, n), n, h.kind[nxt])
    BY <1>2 DEF xmlReplaceNodeWrapper
  <2>2. nxt = TextAfter(h, pivot) /\ k = UnlinkAndPin(h, nxt)
    OBVIOUS
  <2> HIDE DEF nxt, k
  <2>3. /\ Sound(k, D, NULL) /\ Keeps(h, k)
        /\ k.alive = h.alive /\ k.kind = h.kind /\ k.doc = h.doc
        /\ Ready(k, D, n) /\ IsText(h, nxt) /\ nxt \in Node
        /\ k.parent[pivot] = NULL \/ k.parent[pivot] = h.parent[pivot]
        /\ pivot # nxt => k.parent[pivot] = h.parent[pivot]
        /\ k.parent[pivot] # NULL => MayContain(k, k.parent[pivot], n)
    BY <1>2, <2>2, NextPinned
  <2>4. h.kind[nxt] \in {Text, Blank} /\ IsText(k, n)
    BY <1>2, <2>3 DEF IsText
  <2>5. pivot \in k.alive /\ k.kind[pivot] # Attr /\ k.doc[pivot] = k.doc[n]
    BY <2>3
  <2>6. Placed(k, D, n, Settle(xmlReplaceNode(k, pivot, n), n, h.kind[nxt]))
    BY <2>3, <2>4, <2>5, ReplaceAndSettlePlaced
  <2>7. Placed(h, D, n, Settle(xmlReplaceNode(k, pivot, n), n, h.kind[nxt]))
    BY <1>2, <2>3, <2>6, PlacedComposes
  <2>8. QED BY <2>1, <2>7
<1>3. QED BY <1>1, <1>2

\* where a function that links n may put it
PlaceFor(h, D, pivot, n, how) ==
  /\ how \in {"child", "next", "prev", "replace"}
  /\ how = "child" => /\ pivot \in Node \cup Doc /\ InTree(h, D, pivot)
                      /\ DocOf(h, pivot) = h.doc[n] /\ MayContain(h, pivot, n)
  /\ how # "child" => /\ pivot \in h.alive /\ h.kind[pivot] # Attr /\ h.doc[pivot] = h.doc[n]
                      /\ h.parent[pivot] # NULL => MayContain(h, h.parent[pivot], n)

\* The function that the caller passed to reparent_node_with.
LEMMA PrfPlaced ==
  ASSUME NEW h, NEW D, Sound(h, D, NULL), NEW n, Ready(h, D, n),
         NEW pivot, NEW how, PlaceFor(h, D, pivot, n, how)
  PROVE  Placed(h, D, n, prf(h, pivot, n, how))
<1>1. CASE how = "child"
  <2>1. prf(h, pivot, n, how) = xmlAddChild(h, pivot, n)
    BY <1>1 DEF prf
  <2>2. QED BY <1>1, <2>1, AddChildPlaced DEF PlaceFor
<1>2. CASE how = "next"
  <2>1. prf(h, pivot, n, how) = xmlAddSibling(h, pivot, n, 1)
    BY <1>2 DEF prf
  <2>2. QED BY <1>2, <2>1, AddSiblingPlaced DEF PlaceFor
<1>3. CASE how = "prev"
  <2>1. prf(h, pivot, n, how) = xmlAddSibling(h, pivot, n, 0)
    BY <1>3 DEF prf
  <2>2. QED BY <1>3, <2>1, AddSiblingPlaced DEF PlaceFor
<1>4. CASE how = "replace"
  <2>1. prf(h, pivot, n, how) = xmlReplaceNodeWrapper(h, pivot, n)
    BY <1>4 DEF prf
  <2>2. QED BY <1>4, <2>1, ReplaceWrapperPlaced DEF PlaceFor
<1>5. QED BY <1>1, <1>2, <1>3, <1>4 DEF PlaceFor

-----------------------------------------------------------------------------
(* reparent_node_with.                                                     *)

\* A text may forget its wrapper before it is unlinked.
LEMMA ForgetSound ==
  ASSUME NEW h, NEW D, Sound(h, D, NULL), NEW n \in h.alive, IsText(h, n),
         NEW g, g = [h EXCEPT !.priv[n] = NULL]
  PROVE  /\ Sound(g, D, n)
         /\ Keeps(h, g)
         /\ g.fresh = h.fresh /\ g.alive = h.alive /\ g.kind = h.kind /\ g.doc = h.doc
         /\ g.parent = h.parent /\ g.kids = h.kids /\ g.pinned = h.pinned
<1>1. h \in Heap /\ n \in Node
  BY DEF Sound, Heap
<1>2. /\ g.fresh = h.fresh /\ g.alive = h.alive /\ g.kind = h.kind /\ g.doc = h.doc
      /\ g.parent = h.parent /\ g.kids = h.kids /\ g.pinned = h.pinned
      /\ g.priv = [h.priv EXCEPT ![n] = NULL] /\ g.ptr = h.ptr /\ g.cache = h.cache
      /\ g \in Heap
  BY <1>1 DEF Heap
<1>3. g.priv[n] = NULL /\ \A m \in Node : m # n => g.priv[m] = h.priv[m]
  BY <1>1, <1>2 DEF Heap
<1>4. Allocated(g) /\ Upward(g) /\ Downward(g, D) /\ NotBorn(g, D) /\ Pointing(g)
  BY <1>2 DEF Sound, Allocated, Upward, Downward, InTree, NotBorn, Pointing
<1>5. \A m \in h.alive : m \in Node /\ m # NULL
  BY <1>1, NullIsNoObject DEF Heap
<1>6. Cached(g, D)
  BY <1>2, <1>3, <1>5 DEF Sound, Cached
<1>7. Forgotten(g, n)
  <2>1. ASSUME NEW w \in Wrapper, g.ptr[w] \in g.alive, g.priv[g.ptr[w]] = NULL
        PROVE  IsText(g, g.ptr[w]) /\ (g.ptr[w] = n \/ g.parent[g.ptr[w]] = NULL)
    <3>1. CASE h.ptr[w] = n
      BY <1>2, <3>1 DEF IsText
    <3>2. CASE h.ptr[w] # n
      <4>1. h.ptr[w] \in h.alive /\ h.priv[h.ptr[w]] = NULL
        BY <1>2, <1>3, <1>5, <2>1, <3>2
      <4>2. IsText(h, h.ptr[w]) /\ (h.ptr[w] = NULL \/ h.parent[h.ptr[w]] = NULL)
        BY <4>1 DEF Sound, Forgotten
      <4>3. h.ptr[w] # NULL
        BY <1>5, <4>1, NullIsNoObject
      <4>4. QED BY <1>2, <4>2, <4>3 DEF IsText
    <3>3. QED BY <3>1, <3>2
  <2>2. QED BY <2>1 DEF Forgotten
<1>8. Keeps(h, g)
  BY <1>2, <1>3 DEF Keeps, SameNode, IsText
<1>9. Pins(g, n)
  <2>1. Pins(h, NULL)
    BY DEF Sound
  <2>2. QED BY <1>2, <1>3, <1>5, <2>1 DEF Pins, IsText
<1>10. Agrees(g)
  <2>1. Agrees(h)
    BY DEF Sound
  <2>2. QED BY <1>2, <1>3, <1>5, <2>1 DEF Agrees, IsText
<1>11. QED
  BY <1>2, <1>4, <1>6, <1>7, <1>8, <1>9, <1>10 DEF Sound

\* A copy depends on the addresses and the parents of nodes only.
LEMMA CopyDependsOn ==
  ASSUME NEW h, NEW g, NEW n,
         g.fresh = h.fresh, g.alive = h.alive, g.parent = h.parent
  PROVE  /\ CanCopy(g, n) <=> CanCopy(h, n)
         /\ CopyOf(g, n) = CopyOf(h, n)
<1>1. Subtree(g, n) = Subtree(h, n)
  BY DEF Subtree, Below
<1>2. IsAncestorOfSelf(g, n) <=> IsAncestorOfSelf(h, n)
  BY <1>1 DEF IsAncestorOfSelf
<1>3. \A S : (RoomFor(g, S) <=> RoomFor(h, S)) /\ CopyMap(g, S) = CopyMap(h, S)
  BY DEF RoomFor, CopyMap
<1>4. QED BY <1>1, <1>2, <1>3 DEF CanCopy, CopyOf

\* The original of a duplicate is pinned; a text has forgotten its wrapper.
LEMMA OriginalPinned ==
  ASSUME NEW h, NEW D, Sound(h, D, NULL), NEW n \in h.alive, h.kind[n] # Attr,
         NEW w \in Wrapper, h.ptr[w] = n,
         NEW k, k = noko_xml_document_pin_node(
                      IF IsText(h, n) THEN [h EXCEPT !.priv[n] = NULL] ELSE h, n)
  PROVE  \E x \in {n, NULL} :
           /\ Sound(k, D, x) /\ Keeps(h, k)
           /\ k.fresh = h.fresh /\ k.alive = h.alive /\ k.kind = h.kind /\ k.doc = h.doc
           /\ k.parent = h.parent /\ n \in k.pinned[h.doc[n]]
<1> DEFINE g == IF IsText(h, n) THEN [h EXCEPT !.priv[n] = NULL] ELSE h
<1>0. k = noko_xml_document_pin_node(g, n)
  OBVIOUS
<1>1. PICK x \in {n, NULL} :
        /\ Sound(g, D, x) /\ Keeps(h, g)
        /\ g.fresh = h.fresh /\ g.alive = h.alive /\ g.kind = h.kind /\ g.doc = h.doc
        /\ g.parent = h.parent
        /\ x # n => ~IsText(g, n) /\ g.priv[n] # NULL
  <2>1. CASE IsText(h, n)
    BY <2>1, ForgetSound
  <2>2. CASE ~IsText(h, n)
    <3>1. h.priv[n] # NULL
      BY <2>2 DEF Sound, Forgotten
    <3>2. g = h /\ Keeps(h, h)
      BY <2>2, KeepsNothing
    <3>3. QED BY <2>2, <3>1, <3>2
  <2>3. QED BY <2>1, <2>2
<1> HIDE DEF g
<1>2. n \in g.alive /\ g.kind[n] # Attr
  BY <1>1
<1>3. n # x /\ g.parent[n] # NULL => g.kind[n] # Attr /\ ~IsText(g, n) /\ g.priv[n] # NULL
  BY <1>1, <1>2
<1>4. /\ Sound(k, D, x)
      /\ Keeps(g, k)
      /\ k.fresh = g.fresh /\ k.alive = g.alive /\ k.kind = g.kind /\ k.doc = g.doc
      /\ k.priv = g.priv /\ k.parent = g.parent /\ k.kids = g.kids
      /\ k.pinned = [g.pinned EXCEPT ![g.doc[n]] = @ \cup {n}]
      /\ n \in k.pinned[g.doc[n]]
  <2>1. Sound(g, D, x) /\ n \in g.alive /\ k = noko_xml_document_pin_node(g, n)
    BY <1>0, <1>1, <1>2
  <2>2. QED BY <1>3, <2>1, PinSound, Z3
<1>5. Keeps(h, k)
  BY <1>1, <1>4, KeepsComposes
<1>6. QED BY <1>1, <1>4, <1>5

\* What reparent_node_with links, and the heap in which it does, once the
\* argument is unlinked.
LEMMA ArgumentReady ==
  ASSUME NEW h, NEW D, Sound(h, D, NULL), NEW n \in h.alive, D[h.doc[n]] = "live",
         h.kind[n] # Attr, NEW w \in Wrapper, h.ptr[w] = n,
         NEW pivot, NEW d \in Doc, DocOf(h, pivot) = d, D[d] = "live",
         NeedsDup(h, pivot, n) => CanCopy(h, n),
         NEW g, g = xmlUnlinkNode(IF NeedsDup(h, pivot, n) THEN Duplicate(h, pivot, n) ELSE h, n),
         NEW c, c = IF NeedsDup(h, pivot, n) THEN CopyOf(h, n) ELSE n
  PROVE  /\ Sound(g, D, NULL)
         /\ Keeps(h, g)
         /\ g.fresh \subseteq h.fresh
         /\ Ready(g, D, c)
         /\ g.doc[c] = d /\ g.kind[c] = h.kind[n]
         /\ NeedsDup(h, pivot, n) \/ (~IsText(g, c) /\ g.priv[c] # NULL)
         /\ IsText(h, n) => n \in g.pinned[h.doc[n]]
         /\ \A m \in h.alive : /\ m \in g.alive /\ g.kind[m] = h.kind[m] /\ g.doc[m] = h.doc[m]
                               /\ g.parent[m] = h.parent[m] \/ g.parent[m] = NULL
<1>1. /\ h \in Heap /\ n \in Node /\ n \notin h.fresh /\ n # NULL
      /\ \A m \in h.alive : m \in Node
  BY NullIsNoObject DEF Sound, Heap, Allocated
<1>2. CASE ~NeedsDup(h, pivot, n)
  <2>1. g = xmlUnlinkNode(h, n) /\ c = n /\ ~IsText(h, n) /\ h.doc[n] = d
    BY <1>2 DEF NeedsDup
  <2>2. h.priv[n] # NULL
    BY <2>1 DEF Sound, Forgotten
  <2>3. D[h.doc[n]] # "freed" /\ h.parent \in [Node -> Node \cup Doc \cup {NULL}]
    BY <1>1 DEF Heap
  <2>4. /\ Sound(g, D, NULL)
        /\ Keeps(h, g)
        /\ g.fresh = h.fresh /\ g.alive = h.alive /\ g.kind = h.kind /\ g.doc = h.doc
        /\ g.priv = h.priv /\ g.pinned = h.pinned
        /\ g.parent = [h.parent EXCEPT ![n] = NULL]
        /\ \A p \in Node \cup Doc : p # h.parent[n] => g.kids[p] = h.kids[p]
        /\ h.parent[n] # NULL => g.kids[h.parent[n]] = Without(h.kids[h.parent[n]], n)
    <3>1. g = xmlUnlinkNode(h, n) /\ D[h.doc[n]] # "freed"
      BY <2>1, <2>3
    <3>2. QED BY <3>1, UnlinkSound, Z3
  <2>5. g.parent[n] = NULL /\ \A m \in Node : m # n => g.parent[m] = h.parent[m]
    BY <1>1, <2>3, <2>4
  <2>6. Ready(g, D, n)
    BY <2>1, <2>2, <2>4, <2>5 DEF Ready, Linkable, IsText
  <2>7. QED BY <1>1, <2>1, <2>2, <2>4, <2>5, <2>6 DEF IsText
<1>3. CASE NeedsDup(h, pivot, n)
  <2> DEFINE h1 == IF IsText(h, n) THEN [h EXCEPT !.priv[n] = NULL] ELSE h
             h2 == noko_xml_document_pin_node(h1, n)
             h3 == xmlDocCopyNode(h2, n, d)
  <2>1. g = xmlUnlinkNode(h3, n) /\ c = CopyOf(h, n)
    BY <1>3 DEF Duplicate
  <2>2. PICK x \in {n, NULL} :
          /\ Sound(h2, D, x) /\ Keeps(h, h2)
          /\ h2.fresh = h.fresh /\ h2.alive = h.alive /\ h2.kind = h.kind /\ h2.doc = h.doc
          /\ h2.parent = h.parent /\ n \in h2.pinned[h.doc[n]]
    <3>1. h2 = noko_xml_document_pin_node(
                 IF IsText(h, n) THEN [h EXCEPT !.priv[n] = NULL] ELSE h, n)
      OBVIOUS
    <3> HIDE DEF h1, h2
    <3>2. QED BY <3>1, OriginalPinned
  <2> HIDE DEF h1, h2
  <2>4. CanCopy(h2, n) /\ CopyOf(h2, n) = c /\ n \in h2.alive
    BY <1>3, <2>1, <2>2, CopyDependsOn
  <2>5. /\ Sound(h3, D, x)
        /\ Keeps(h2, h3)
        /\ c \in h3.alive /\ c \notin h2.alive /\ h3.doc[c] = d /\ h3.parent[c] = NULL
        /\ h3.kind[c] = h2.kind[n]
        /\ Spare(h3, c)
        /\ \A m \in h2.alive : /\ m \in h3.alive
                               /\ h3.kind[m] = h2.kind[m] /\ h3.doc[m] = h2.doc[m]
                               /\ h3.parent[m] = h2.parent[m] /\ h3.priv[m] = h2.priv[m]
        /\ h3.fresh \subseteq h2.fresh
        /\ \A p \in Node \cup Doc : p \notin h2.fresh => h3.kids[p] = h2.kids[p]
    BY <2>2, <2>4, CopyNodeSound
  <2> HIDE DEF h3
  <2>6. D[h3.doc[n]] # "freed" /\ n \in h3.alive
    BY <2>2, <2>4, <2>5
  <2>7. /\ Sound(g, D, x)
        /\ Keeps(h3, g)
        /\ g.fresh = h3.fresh /\ g.alive = h3.alive /\ g.kind = h3.kind /\ g.doc = h3.doc
        /\ g.priv = h3.priv /\ g.pinned = h3.pinned
        /\ g.parent = [h3.parent EXCEPT ![n] = NULL]
        /\ \A p \in Node \cup Doc : p # h3.parent[n] => g.kids[p] = h3.kids[p]
        /\ h3.parent[n] # NULL => g.kids[h3.parent[n]] = Without(h3.kids[h3.parent[n]], n)
    <3>1. g = xmlUnlinkNode(h3, n) /\ Sound(h3, D, x)
      BY <2>1, <2>5
    <3>2. QED BY ONLY <2>6, <3>1, UnlinkSound, Z3T(30)
  <2>8. h3.parent \in [Node -> Node \cup Doc \cup {NULL}] /\ \A m \in h3.alive : m \in Node
    BY <2>5 DEF Sound, Heap
  <2>9. g.parent[n] = NULL /\ \A m \in Node : m # n => g.parent[m] = h3.parent[m]
    BY <1>1, <2>7, <2>8
  <2>10. Sound(g, D, NULL)
    <3>1. x \in g.alive => g.parent[x] = NULL
      BY <1>1, <2>2, <2>8, <2>7, <2>9, NullIsNoObject
    <3>2. QED BY <2>7, <3>1, SoundAfterUnlink
  <2>11. Keeps(h, g)
    <3>1. Keeps(h, h3)
      BY <2>2, <2>5, KeepsComposes
    <3>2. QED BY <2>7, <3>1, KeepsComposes
  <2>12. c # n /\ c \in Node
    BY <2>4, <2>5, <2>8
  <2>13. Ready(g, D, c)
    <3>1. Spare(g, c)
      BY <2>5, <2>7 DEF Spare, Keeps
    <3>2. QED BY <2>5, <2>7, <2>9, <2>12, <3>1 DEF Ready, Linkable
  <2>14. \A m \in h.alive : /\ m \in g.alive /\ g.kind[m] = h.kind[m] /\ g.doc[m] = h.doc[m]
                            /\ g.parent[m] = h.parent[m] \/ g.parent[m] = NULL
    BY <1>1, <2>2, <2>5, <2>7, <2>9
  <2>15. n \in g.pinned[h.doc[n]]
    <3>1. h.doc[n] \in Doc
      BY <1>1, SMTT(30) DEF Heap
    <3>2. QED BY <2>2, <2>5, <2>7, <3>1 DEF Keeps
  <2>16. QED
    BY <1>3, <2>2, <2>5, <2>7, <2>10, <2>11, <2>13, <2>14, <2>15
<1>4. QED BY <1>2, <1>3

\* What a move leaves behind: a sound heap in which the node moved has a wrapper, if it was moved,
\* and in which no element under a wrapper has gone.
MovedSoundly(h, D, G, r) ==
  /\ Sound(r.h, D, NULL)
  /\ r.h.fresh \subseteq h.fresh
  /\ \/ r.n = NULL /\ Usable(r.h, D, G)
     \/ /\ r.n # NULL /\ r.h.priv[r.n] \in Wrapper
        /\ Usable(r.h, D, G \cup {r.h.priv[r.n]})
  /\ \A v \in Wrapper : h.ptr[v] \in h.alive /\ ~IsText(h, h.ptr[v]) =>
       /\ h.ptr[v] \in r.h.alive /\ r.h.kind[h.ptr[v]] = h.kind[h.ptr[v]]
       /\ r.h.priv[h.ptr[v]] # NULL

\* The argument n of reparent_node_with, or its duplicate, is detached, and may be
\* put where the pivot tells.
LEMMA ArgumentPlace ==
  ASSUME NEW h, NEW D, Sound(h, D, NULL), NEW G, Usable(h, D, G), NEW w, w \in G \cap Wrapper,
         NEW n, n = h.ptr[w],
         NEW pivot, NEW how, how \in {"child", "next", "prev", "replace"},
         pivot \in G \cap Doc \/ (pivot \in h.alive /\ h.doc[pivot] \in G),
         how = "child" => MayContain(h, pivot, n),
         how # "child" => /\ pivot \in Node /\ h.kind[pivot] # Attr
                          /\ MayContain(h, h.parent[pivot], n),
         NeedsDup(h, pivot, n) => CanCopy(h, n),
         NEW d, d = DocOf(h, pivot),
         NEW g, g = xmlUnlinkNode(IF NeedsDup(h, pivot, n) THEN Duplicate(h, pivot, n) ELSE h, n),
         NEW c, c = IF NeedsDup(h, pivot, n) THEN CopyOf(h, n) ELSE n
  PROVE  /\ n \in h.alive /\ h.doc[n] \in G /\ h.doc[n] \in Doc /\ D[h.doc[n]] = "live"
         /\ h.kind[n] # Attr
         /\ d \in G /\ d \in Doc /\ D[d] = "live"
         /\ Sound(g, D, NULL) /\ Keeps(h, g) /\ g.fresh \subseteq h.fresh
         /\ Ready(g, D, c) /\ g.doc[c] = d
         /\ NeedsDup(h, pivot, n) \/ (~IsText(g, c) /\ g.priv[c] # NULL)
         /\ IsText(h, n) => n \in g.pinned[h.doc[n]]
         /\ PlaceFor(g, D, pivot, c, how)
         /\ \A m \in h.alive : g.kind[m] = h.kind[m]
<1>1. h \in Heap /\ \A m \in h.alive : m \in Node /\ h.doc[m] \in Doc
  BY DEF Sound, Heap
<1>2. /\ n \in h.alive /\ h.doc[n] \in G /\ h.doc[n] \in Doc /\ D[h.doc[n]] = "live"
      /\ h.kind[n] # Attr
  <2>1. h.kind[n] # Attr
    BY DEF MayContain, Text, Blank, Ref, Attr
  <2>2. QED BY <1>1, <2>1 DEF Usable
<1>3. d \in G /\ d \in Doc /\ D[d] = "live" /\ pivot \in Node \cup Doc
      /\ (pivot \in Node => pivot \in h.alive /\ h.doc[pivot] = d)
      /\ (pivot \in Doc => pivot = d)
  BY <1>1, DistinctSorts, SMTT(30) DEF Usable, DocOf
<1>4. /\ Sound(g, D, NULL)
      /\ Keeps(h, g)
      /\ g.fresh \subseteq h.fresh
      /\ Ready(g, D, c)
      /\ g.doc[c] = d /\ g.kind[c] = h.kind[n]
      /\ NeedsDup(h, pivot, n) \/ (~IsText(g, c) /\ g.priv[c] # NULL)
      /\ IsText(h, n) => n \in g.pinned[h.doc[n]]
      /\ \A m \in h.alive : /\ m \in g.alive /\ g.kind[m] = h.kind[m] /\ g.doc[m] = h.doc[m]
                            /\ g.parent[m] = h.parent[m] \/ g.parent[m] = NULL
  BY <1>2, <1>3, ArgumentReady, Z3T(30)
<1>5. CASE how = "child"
  <2>1. MayContain(g, pivot, c)
    BY <1>1, <1>3, <1>4, <1>5 DEF MayContain
  <2>2. InTree(g, D, pivot) /\ DocOf(g, pivot) = d
    BY <1>3, <1>4, DistinctSorts DEF InTree, DocOf
  <2>3. PlaceFor(g, D, pivot, c, how)
    BY <1>3, <1>4, <1>5, <2>1, <2>2 DEF PlaceFor
  <2>4. QED BY <1>2, <1>3, <1>4, <2>3
<1>6. CASE how # "child"
  <2>1. /\ pivot \in h.alive /\ h.kind[pivot] # Attr /\ h.doc[pivot] = d
        /\ MayContain(h, h.parent[pivot], n)
    BY <1>3, <1>6
  <2>2. /\ pivot \in g.alive /\ g.kind[pivot] # Attr /\ g.doc[pivot] = g.doc[c]
        /\ g.parent[pivot] = h.parent[pivot] \/ g.parent[pivot] = NULL
    BY <1>4, <2>1
  <2>3. h.parent[pivot] \in Node => /\ h.parent[pivot] \in h.alive
                                    /\ g.kind[h.parent[pivot]] = h.kind[h.parent[pivot]]
    BY <1>4, <2>1 DEF Sound, Upward
  <2>4. g.parent[pivot] # NULL => MayContain(g, g.parent[pivot], c)
    BY <1>4, <2>1, <2>2, <2>3 DEF MayContain
  <2>5. PlaceFor(g, D, pivot, c, how)
    BY <1>6, <2>2, <2>4 DEF PlaceFor
  <2>6. QED BY <1>2, <1>3, <1>4, <2>5
<1>7. QED BY <1>5, <1>6

\* reparent_node_with: the argument w and the pivot are usable, and so is the
\* node that is now in the tree.
LEMMA ReparentSound ==
  ASSUME NEW h, NEW D, Sound(h, D, NULL), NEW G, Usable(h, D, G), NEW w, w \in G \cap Wrapper,
         NEW pivot, NEW how, how \in {"child", "next", "prev", "replace"},
         pivot \in G \cap Doc \/ (pivot \in h.alive /\ h.doc[pivot] \in G),
         how = "child" => MayContain(h, pivot, h.ptr[w]),
         how # "child" => /\ pivot \in Node /\ h.kind[pivot] # Attr
                          /\ MayContain(h, h.parent[pivot], h.ptr[w]),
         NeedsDup(h, pivot, h.ptr[w]) => CanCopy(h, h.ptr[w]) /\ Unborn(h) # {},
         NEW r, r = reparent_node_with(h, pivot, w, how)
  PROVE  MovedSoundly(h, D, G, r)
<1> DEFINE n == h.ptr[w]
           d == DocOf(h, pivot)
           c == IF NeedsDup(h, pivot, n) THEN CopyOf(h, n) ELSE n
           g == xmlUnlinkNode(IF NeedsDup(h, pivot, n) THEN Duplicate(h, pivot, n) ELSE h, n)
           q == prf(g, pivot, c, how)
<1>1. r = Rewrap(w, q)
  BY DEF reparent_node_with
<1>2. h \in Heap /\ \A m \in h.alive : m \in Node /\ h.doc[m] \in Doc
  BY DEF Sound, Heap
<1>3. /\ n = h.ptr[w] /\ d = DocOf(h, pivot)
      /\ c = IF NeedsDup(h, pivot, n) THEN CopyOf(h, n) ELSE n
  OBVIOUS
<1>4. /\ g = xmlUnlinkNode(IF NeedsDup(h, pivot, n) THEN Duplicate(h, pivot, n) ELSE h, n)
      /\ q = prf(g, pivot, c, how)
      /\ how = "child" => MayContain(h, pivot, n)
      /\ how # "child" => MayContain(h, h.parent[pivot], n)
      /\ NeedsDup(h, pivot, n) => CanCopy(h, n)
  OBVIOUS
<1> HIDE DEF n, d, c, g, q
<1>5. /\ n \in h.alive /\ h.doc[n] \in G /\ h.doc[n] \in Doc /\ D[h.doc[n]] = "live"
      /\ h.kind[n] # Attr
      /\ d \in G /\ d \in Doc /\ D[d] = "live"
      /\ Sound(g, D, NULL) /\ Keeps(h, g) /\ g.fresh \subseteq h.fresh
      /\ Ready(g, D, c) /\ g.doc[c] = d
      /\ NeedsDup(h, pivot, n) \/ (~IsText(g, c) /\ g.priv[c] # NULL)
      /\ IsText(h, n) => n \in g.pinned[h.doc[n]]
      /\ PlaceFor(g, D, pivot, c, how)
      /\ \A m \in h.alive : g.kind[m] = h.kind[m]
  BY <1>3, <1>4, ArgumentPlace, Z3T(30)
<1>7. Placed(g, D, c, q)
  BY <1>4, <1>5, PrfPlaced
<1>8. Sound(q.h, D, NULL) /\ Keeps(h, q.h) /\ q.h.fresh \subseteq h.fresh
  <2>1. Sound(q.h, D, NULL) /\ Keeps(g, q.h)
    BY <1>7 DEF Placed
  <2>2. Keeps(h, q.h)
    BY <1>5, <2>1, KeepsComposes
  <2>3. QED BY <2>1, <2>2 DEF Keeps
<1>9. Usable(q.h, D, G)
  BY <1>8, KeepsUsable
<1>10. \A m \in h.alive : ~IsText(h, m) => SameNode(h, q.h, m) /\ ~IsText(q.h, m)
  <2>1. \A m \in h.alive : m \in Node /\ m \notin h.fresh
    BY <1>2 DEF Sound, Allocated
  <2>2. QED BY <1>8, <2>1 DEF Keeps, SameNode, IsText
<1>11. \A v \in Wrapper : h.ptr[v] \in h.alive /\ ~IsText(h, h.ptr[v]) =>
         /\ h.ptr[v] \in q.h.alive /\ q.h.kind[h.ptr[v]] = h.kind[h.ptr[v]]
         /\ q.h.priv[h.ptr[v]] # NULL
  <2>1. \A v \in Wrapper : h.ptr[v] \in h.alive /\ ~IsText(h, h.ptr[v]) => h.priv[h.ptr[v]] # NULL
    BY DEF Sound, Forgotten
  <2>2. QED BY <1>8, <1>10, <2>1 DEF Keeps, SameNode
<1>12. CASE q.n = NULL
  <2>1. r = q
    BY <1>1, <1>12 DEF Rewrap
  <2>2. QED BY <1>8, <1>9, <1>12, <1>11, <2>1 DEF MovedSoundly
<1>13. CASE q.n # NULL
  <2>1. q.n \in q.h.alive /\ q.h.doc[q.n] = d /\ (IsText(g, c) \/ q.h.priv[q.n] = g.priv[c])
    BY <1>5, <1>7, <1>13 DEF Placed
  <2>2. CanWrap(q.h, q.n)
    <3>1. CASE NeedsDup(h, pivot, n)
      <4>1. Unborn(h) # {}
        BY <1>3, <3>1
      <4>2. Unborn(q.h) # {}
        BY <1>8, <4>1 DEF Unborn, Keeps
      <4>3. QED BY <4>2 DEF CanWrap
    <3>2. CASE ~NeedsDup(h, pivot, n)
      BY <1>5, <2>1, <3>2 DEF CanWrap
    <3>3. QED BY <3>1, <3>2
  <2>3. r.n = q.n
    BY <1>1, <1>13 DEF Rewrap
  <2>4. D[q.h.doc[q.n]] = "live" /\ q.h.doc[q.n] \in G
    BY <1>5, <2>1
  <2>5. ASSUME NEW m \in q.h.alive, IsText(q.h, m), q.h.parent[m] # NULL, q.h.priv[m] = w
        PROVE  m = q.n
    <3>1. q.h.ptr[w] = m
      BY <1>8, <2>5, NullIsNoObject DEF Sound, Agrees
    <3>2. m = n
      BY <1>3, <1>8, <3>1 DEF Keeps
    <3>3. IsText(h, n)
      BY <1>5, <1>10, <2>5, <3>2
    <3>4. n \in q.h.pinned[h.doc[n]] /\ h.doc[n] \in Doc /\ n # NULL
      <4>1. Keeps(g, q.h)
        BY <1>7 DEF Placed
      <4>2. QED BY <1>2, <1>5, <3>3, <4>1, NullIsNoObject DEF Keeps
    <3>5. Pins(q.h, NULL)
      BY <1>8 DEF Sound
    <3>6. QED BY <2>5, <3>2, <3>4, <3>5 DEF Pins
  <2> DEFINE k == r.h
  <2>6. k = Rewrap(w, q).h
    BY <1>1
  <2> HIDE DEF k
  <2>7. /\ Sound(k, D, NULL)
        /\ Usable(k, D, G \cup {k.priv[q.n]})
        /\ k.priv[q.n] \in Wrapper
        /\ SameTree(q.h, k)
    BY <1>8, <1>9, <2>1, <2>2, <2>4, <2>6, <2>5, RewrapSound, Z3
  <2>8. \A v \in Wrapper : h.ptr[v] \in h.alive /\ ~IsText(h, h.ptr[v]) =>
          /\ h.ptr[v] \in k.alive /\ k.kind[h.ptr[v]] = h.kind[h.ptr[v]]
          /\ k.priv[h.ptr[v]] # NULL
    BY <1>2, <1>11, <2>7 DEF SameTree
  <2>9. QED BY <1>8, <1>13, <2>3, <2>7, <2>8 DEF k, SameTree, MovedSoundly
<1>14. QED BY <1>12, <1>13

=============================================================================
