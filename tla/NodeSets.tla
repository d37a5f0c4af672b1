------------------------------ MODULE NodeSets ------------------------------
(***************************************************************************)
(* Node sets and the namespaces found by XPath (ext/nokogiri/              *)
(* xml_node_set.c, xml_namespace.c, xml_xpath_context.c).                  *)
(*                                                                         *)
(* A Ruby NodeSet owns an array of raw pointers.  Of the nodes it names it *)
(* frees none and keeps alive what their wrappers keep alive, and it keeps *)
(* its own document.  A namespace in the array is a copy that libxml2 made *)
(* for the query: it belongs to the Ruby object made for it, which frees   *)
(* it, and its "next" field points at the element where it was found.      *)
(*                                                                         *)
(* The module adds the sets, the copies and one XPath evaluation that has  *)
(* called a Ruby function to the heap of NodeLifecycle, whose operations   *)
(* go on beside them.  Every element has one namespace in scope.  A        *)
(* document node and a namespace that a document declares, which the code  *)
(* also lets a set hold, are left out.                                     *)
(***************************************************************************)
EXTENDS NodeLifecycle

CONSTANTS SetId,     \* Ruby objects of class XML::NodeSet
          Copy       \* addresses of copied namespaces, each allocated once

ASSUME CopiesAreNoObjects == (Copy \cup SetId) \cap (Node \cup Doc \cup Wrapper \cup {NULL}) = {}

\* There are as many addresses as a pointer has values.
ASSUME FiniteMemory == IsFiniteSet(Node) /\ IsFiniteSet(Copy) /\ IsFiniteSet(Wrapper)

VARIABLES sets,      \* the node sets that Ruby can reach, and NULL for the others
          copies,    \* the copied namespaces
          keptCopies,  \* the copies whose Ruby object the program refers to
          call       \* the evaluation that waits for a Ruby function, or NULL

setVars == <<sets, copies, keptCopies, call>>
allVars == <<vars, setVars>>

Item == Node \cup Copy

CopyHeap == [ fresh : SUBSET Copy,            \* not yet allocated
              live  : SUBSET Copy,            \* allocated, not freed
              elem  : [Copy -> Node \cup {NULL}],  \* ns->next of a copy
              owned : SUBSET Copy,            \* ns->_private is a Ruby object
              stray : SUBSET Copy ]           \* history: copied by push and dup

NodeSet == [mem : Seq(Item), doc : Doc]       \* nodeTab and @document

Evaluation == [doc : Doc, found : SUBSET Node, mem : Seq(Item)]

\* A null pointer is no set and no evaluation.
ASSUME NullIsNoRecord == NULL \notin NodeSet \cup Evaluation

SetsTypeOK ==
  /\ TypeOK
  /\ sets \in [SetId -> NodeSet \cup {NULL}]
  /\ copies \in CopyHeap
  /\ keptCopies \subseteq copies.owned
  /\ call \in Evaluation \cup {NULL}

Existing == {id \in SetId : sets[id] # NULL}

\* the members of the array s that are in A, in their order
Among(s, A) ==
  LET upto[i \in 0 .. Len(s)] ==
        IF i = 0 THEN <<>>
        ELSE IF s[i] \in A THEN Append(upto[i - 1], s[i]) ELSE upto[i - 1]
  IN  upto[Len(s)]

-----------------------------------------------------------------------------
(* libxml2, as the extension uses it: r.k are the copies, r.s the array.   *)

\* two copies stand for one namespace if element and prefix are the same
Same(k, a, b) == a = b \/ (a \in Copy /\ b \in Copy /\ k.elem[a] = k.elem[b])

xmlXPathNodeSetContains(k, s, m) == \E i \in DOMAIN s : Same(k, s[i], m)

Addresses(k, I) == {f \in [I -> k.fresh] : Injective(f)}

\* fresh copies, at the addresses f, of namespaces of the elements e
xmlXPathNodeSetDupNs(k, f, e) ==
  LET new == Members(f)
      at(c) == CHOOSE i \in DOMAIN f : f[i] = c
  IN  [k EXCEPT !.fresh = @ \ new, !.live = @ \cup new,
                !.elem = [c \in Copy |-> IF c \in new THEN e[at(c)] ELSE @[c]]]

CopiesIn(t) == {i \in DOMAIN t : t[i] \in Copy}

\* are there addresses left for the copies of t?
CanCopyAll(k, t) == Addresses(k, CopiesIn(t)) # {}

\* t at the end of s, every namespace of t as a copy of its own
xmlXPathNodeSetAddUnique(k, s, t) ==
  LET f == CHOOSE g \in Addresses(k, CopiesIn(t)) : TRUE
  IN  [k |-> xmlXPathNodeSetDupNs(k, f, [i \in CopiesIn(t) |-> k.elem[t[i]]]),
       s |-> s \o [i \in DOMAIN t |-> IF t[i] \in Copy THEN f[i] ELSE t[i]]]

xmlXPathNodeSetAdd(k, s, m) ==
  IF m \in Members(s) THEN [k |-> k, s |-> s] ELSE xmlXPathNodeSetAddUnique(k, s, <<m>>)

xmlXPathNodeSetMerge(k, s, t) ==
  xmlXPathNodeSetAddUnique(k, s, Among(t, {m \in Item : ~xmlXPathNodeSetContains(k, s, m)}))

xmlXPathIntersection(k, s, t) ==
  xmlXPathNodeSetAddUnique(k, <<>>, Among(s, {m \in Item : xmlXPathNodeSetContains(k, t, m)}))

\* the array of the nodes S in some order, or of the namespaces of elements S
NodesFound(k, S) ==
  [k |-> k, s |-> CHOOSE s \in [1 .. Cardinality(S) -> S] : Injective(s)]
NamespacesFound(k, S) ==
  LET e == NodesFound(k, S).s
      f == CHOOSE g \in Addresses(k, DOMAIN e) : TRUE
  IN  [k |-> xmlXPathNodeSetDupNs(k, f, e), s |-> f]

-----------------------------------------------------------------------------
(* The extension.                                                          *)

\* mutant: a namespace is freed with its place
XPathNodeSetDel(r, m) == [r EXCEPT !.s = Without(@, m), !.k.live = @ \ {m}]

\* xmlXPathNodeSetDel without the call that frees a namespace: the first m goes
xpath_node_set_del(r, m) == [r EXCEPT !.s = Without(@, m)]

RoomToWrap(h, s) ==
  Cardinality({n \in Members(s) \cap Node : h.priv[n] = NULL}) <= Cardinality(Unborn(h))

\* noko_xml_node_wrap of every node of s that has no wrapper
WrapNodes(h, s) ==
  LET new == {n \in Members(s) \cap Node : h.priv[n] = NULL}
      f   == CHOOSE g \in [new -> Unborn(h)] : Injective(g)
      nodeOf(w) == CHOOSE n \in new : f[n] = w
  IN  [h EXCEPT !.priv = [n \in Node |-> IF n \in new THEN f[n] ELSE @[n]],
                !.ptr  = [w \in Wrapper |-> IF w \in Members(f) THEN nodeOf(w) ELSE @[w]],
                !.cache = [d \in Doc |-> @[d] \cup {f[n] : n \in {x \in new : h.doc[x] = d}}]]

\* mutants: only nodes are wrapped; every member is wrapped as a namespace
WrapNoCopies(k, s) == k
WrapAsNamespaces(k, s) == [k EXCEPT !.owned = @ \cup Members(s)]

\* noko_xml_namespace_wrap_xpath_copy
WrapCopies(k, s) == [k EXCEPT !.owned = @ \cup (Members(s) \cap Copy)]

Unused == IF Existing = SetId THEN {} ELSE {CHOOSE id \in SetId : sets[id] = NULL}

\* the program keeps a result apart from the set id, or else in place of it
Beside(id) == IF Existing = SetId THEN id ELSE CHOOSE new \in Unused : TRUE

\* the array r.s, with the copies r.k, becomes a set of document d, and a Ruby
\* object is made for every member
noko_xml_node_set_wrap(id, r, d) ==
  /\ RoomToWrap(heap, r.s)
  /\ sets' = [sets EXCEPT ![id] = [mem |-> r.s, doc |-> d]]
  /\ heap' = WrapNodes(heap, r.s)
  /\ copies' = WrapCopies(r.k, r.s)

-----------------------------------------------------------------------------
(* XPath.  The evaluation context marks its document.                      *)

\* what a search from p can find
Searched(p) == IF p \in Doc THEN Content(heap, p) ELSE Subtree(heap, p)

\* the nodes below p, the texts among them, or the namespaces of the elements
Answers(p) ==
  LET nodes == {n \in Searched(p) : heap.kind[n] = Elem \/ IsText(heap, n)}
      elems == {n \in nodes : heap.kind[n] = Elem}
  IN  {NodesFound(copies, nodes), NodesFound(copies, nodes \ elems)}
      \cup IF Cardinality(elems) <= Cardinality(copies.fresh)
             THEN {NamespacesFound(copies, elems)} ELSE {}

noko_xml_xpath_context_evaluate ==
  \E p \in Pivots, id \in Unused : \E r \in Answers(p) :
    /\ noko_xml_node_set_wrap(id, r, DocOf(heap, p))
    /\ UNCHANGED <<dstate, held, lost, keptCopies, call>>

\* what a function is called with: all that was found so far, or one node of it
Passed(r) == {r} \cup {[r EXCEPT !.s = <<n>>] : n \in Members(r.s)}

\* An evaluation that calls a Ruby function: libxml2 has found some nodes, the
\* function is given a set and goes on with any Ruby code.
handler_invoker ==
  \E p \in Pivots, id \in Unused : \E r \in {x \in Answers(p) : Members(x.s) \subseteq Node} :
    /\ call = NULL
    /\ \E arg \in Passed(r) : noko_xml_node_set_wrap(id, arg, DocOf(heap, p))
    /\ call' = [doc |-> DocOf(heap, p), found |-> Members(r.s), mem |-> <<>>]
    /\ UNCHANGED <<dstate, held, lost, keptCopies>>

\* The function returns a set, which libxml2 gets a copy of.
marshal_return_values ==
  \E id \in Existing :
    /\ call # NULL /\ call.mem = <<>>
    /\ CanCopyAll(copies, sets[id].mem)
    /\ LET r == xmlXPathNodeSetMerge(copies, <<>>, sets[id].mem)
       IN  /\ call' = [call EXCEPT !.mem = r.s]
           /\ copies' = r.k
    /\ UNCHANGED <<vars, sets, keptCopies>>

\* libxml2 frees a set of its own, with the namespaces in it
xmlXPathFreeNodeSet(k, s) == [k EXCEPT !.live = @ \ Members(s)]

\* The evaluation ends with that copy as its result, or with another result, or
\* because the function raised.
EvaluationEnds ==
  /\ call # NULL
  /\ call' = NULL
  /\ \/ \E id \in Unused : noko_xml_node_set_wrap(id, [k |-> copies, s |-> call.mem], call.doc)
     \/ /\ copies' = xmlXPathFreeNodeSet(copies, call.mem)
        /\ UNCHANGED <<heap, sets>>
  /\ UNCHANGED <<dstate, held, lost, keptCopies>>

-----------------------------------------------------------------------------
(* The methods of a node set.                                              *)

\* what a program can pass where a node is expected: the pointer and its kind
Arguments == {heap.ptr[w] : w \in HeldWrappers} \cup keptCopies

push ==
  \E id \in Existing, m \in Arguments :
    LET r == xmlXPathNodeSetAdd(copies, sets[id].mem, m)
    IN  /\ CanCopyAll(copies, <<m>>)
        /\ sets' = [sets EXCEPT ![id].mem = r.s]
        /\ copies' = [r.k EXCEPT !.stray = @ \cup (r.k.live \ copies.live)]
        /\ UNCHANGED <<vars, keptCopies, call>>

delete ==
  \E id \in Existing, m \in Arguments :
    LET r == xpath_node_set_del([k |-> copies, s |-> sets[id].mem], m)
    IN  /\ xmlXPathNodeSetContains(copies, sets[id].mem, m)
        /\ sets' = [sets EXCEPT ![id].mem = r.s]
        /\ copies' = r.k
        /\ UNCHANGED <<vars, keptCopies, call>>

\* the arrays that &, |, - and [start, length] make
intersection(k, s, t) == xmlXPathIntersection(k, s, t)

\* mutant: the second set is added whole
UnionAddsAll(k, s, t) ==
  LET r == xmlXPathNodeSetMerge(k, <<>>, s) IN xmlXPathNodeSetAddUnique(r.k, r.s, t)

rb_xml_node_set_union(k, s, t) ==
  LET r == xmlXPathNodeSetMerge(k, <<>>, s) IN xmlXPathNodeSetMerge(r.k, r.s, t)

\* mutant: the first member of the second set is passed over
MinusFromSecond(k, s, t) ==
  LET left[j \in 0 .. Len(t)] ==
        IF j <= 1 THEN xmlXPathNodeSetMerge(k, <<>>, s) ELSE xpath_node_set_del(left[j - 1], t[j])
  IN  left[Len(t)]

\* each member of the second set takes one place from the copy of the first
minus(k, s, t) ==
  LET left[j \in 0 .. Len(t)] ==
        IF j = 0 THEN xmlXPathNodeSetMerge(k, <<>>, s) ELSE xpath_node_set_del(left[j - 1], t[j])
  IN  left[Len(t)]

subseq(k, s, beg, len) ==
  xmlXPathNodeSetAddUnique(k, <<>>, SubSeq(s, beg + 1, IF beg + len > Len(s) THEN Len(s) ELSE beg + len))

SetOperators ==
  \E id, other \in Existing :
    LET s == sets[id].mem
        t == sets[other].mem
        keep(r) == noko_xml_node_set_wrap(Beside(id), r, sets[id].doc)
    IN  /\ CanCopyAll(copies, s \o t)
        /\ \/ keep(intersection(copies, s, t))
           \/ keep(rb_xml_node_set_union(copies, s, t))
           \/ keep(minus(copies, s, t))
        /\ UNCHANGED <<dstate, held, lost, keptCopies, call>>

slice ==
  \E id \in Existing : \E beg, len \in 0 .. Len(sets[id].mem) :
    /\ CanCopyAll(copies, sets[id].mem)
    /\ noko_xml_node_set_wrap(Beside(id), subseq(copies, sets[id].mem, beg, len), sets[id].doc)
    /\ UNCHANGED <<dstate, held, lost, keptCopies, call>>

\* NodeSet#dup makes no Ruby object for the copies
initialize_copy ==
  \E id \in Existing, new \in Unused :
    LET r == xmlXPathNodeSetMerge(copies, <<>>, sets[id].mem)
    IN  /\ CanCopyAll(copies, sets[id].mem)
        /\ sets' = [sets EXCEPT ![new] = [mem |-> r.s, doc |-> sets[id].doc]]
        /\ copies' = [r.k EXCEPT !.stray = @ \cup (r.k.live \ copies.live)]
        /\ UNCHANGED <<vars, keptCopies, call>>

\* set[i], first, last, pop, each: the Ruby object of a member
index_at ==
  \E id \in Existing : \E m \in Members(sets[id].mem) :
    /\ RoomToWrap(heap, <<m>>)
    /\ heap' = WrapNodes(heap, <<m>>)
    /\ copies' = WrapCopies(copies, <<m>>)
    /\ held' = held \cup IF m \in Node THEN {WrapNodes(heap, <<m>>).priv[m]} ELSE {}
    /\ keptCopies' = keptCopies \cup ({m} \cap Copy)
    /\ UNCHANGED <<dstate, lost, sets, call>>

\* the nodes S are unlinked and pinned
UnlinkAll(h, S) ==
  [h EXCEPT !.parent = [n \in Node |-> IF n \in S THEN NULL ELSE @[n]],
            !.kids = [p \in Node \cup Doc |-> Among(@[p], Node \ S)],
            !.pinned = [d \in Doc |-> @[d] \cup {n \in S : h.doc[n] = d}]]

\* Every node is unlinked through its wrapper and the member becomes what the
\* wrapper then points at.  A member that was moved to another document has a
\* wrapper that points at the copy there.
unlink_nodeset ==
  \E id \in Existing :
    LET s == sets[id].mem
        h == WrapNodes(heap, s)
        now(m) == IF m \in Node THEN h.ptr[h.priv[m]] ELSE m
        gone == {now(m) : m \in Members(s) \cap Node}
    IN  /\ RoomToWrap(heap, s)
        /\ heap' = UnlinkAll(h, gone)
        /\ sets' = [sets EXCEPT ![id].mem = [i \in DOMAIN s |-> now(s[i])]]
        /\ UNCHANGED <<dstate, held, lost, copies, keptCopies, call>>

-----------------------------------------------------------------------------
(* Garbage collection.                                                     *)

\* xml_node_set_mark: the wrappers of the nodes
xml_node_set_mark(s) == {heap.priv[m] : m \in Members(s) \cap Node} \ {NULL}

\* what the sets and the evaluation mark among the objects of NodeLifecycle
SetRoots == (UNION {xml_node_set_mark(sets[id].mem) \cup {sets[id].doc} : id \in Existing})
            \cup (IF call = NULL THEN {} ELSE {call.doc})

\* mutant: a set marks no namespace
KeptOnly == keptCopies

\* the copies whose Ruby object is marked
MarkedCopies == keptCopies \cup (copies.owned \cap UNION {Members(sets[id].mem) : id \in Existing})

\* the Ruby objects that were made for copies and are no longer marked
xml_namespace_dealloc ==
  \E c \in (copies.owned \cap copies.live) \ MarkedCopies :
    /\ copies' = [copies EXCEPT !.live = @ \ {c}]
    /\ UNCHANGED <<vars, sets, keptCopies, call>>

\* a set is collected: its array is freed and none of its namespaces
ForgetSet ==
  \E id \in Existing :
    /\ sets' = [sets EXCEPT ![id] = NULL]
    /\ UNCHANGED <<vars, copies, keptCopies, call>>

ForgetCopy ==
  \E c \in keptCopies :
    /\ keptCopies' = keptCopies \ {c}
    /\ UNCHANGED <<vars, sets, copies, call>>

-----------------------------------------------------------------------------
SetNext == \/ noko_xml_xpath_context_evaluate
           \/ handler_invoker
           \/ marshal_return_values
           \/ EvaluationEnds
           \/ push
           \/ delete
           \/ SetOperators
           \/ slice
           \/ initialize_copy
           \/ index_at
           \/ unlink_nodeset
           \/ xml_namespace_dealloc
           \/ ForgetSet
           \/ ForgetCopy

TreeNext == /\ \/ add_child
               \/ replace
               \/ unlink_node
               \/ Forget
               \/ Collect(held \cup SetRoots)
            /\ UNCHANGED setVars

NextMixed == SetNext \/ TreeNext

\* every set holds nodes, and namespaces found in nodes, of its own document
Within(s, d) == \A m \in Members(s) : heap.doc[IF m \in Node THEN m ELSE copies.elem[m]] = d
Homogeneous == /\ \A id \in Existing : Within(sets[id].mem, sets[id].doc)
               /\ call # NULL => Within(call.mem, call.doc)

\* a program that keeps it so
NextSets == NextMixed /\ Homogeneous'

\* no set yet, and room for the copies C
NoSets(C) == /\ sets = [id \in SetId |-> NULL]
             /\ copies = [fresh |-> C, live |-> {}, elem |-> [c \in Copy |-> NULL],
                          owned |-> {}, stray |-> {}]
             /\ keptCopies = {}
             /\ call = NULL

InitSets == Init /\ \E C \in SUBSET Copy : NoSets(C)
SpecSets == InitSets /\ [][NextSets]_allVars

-----------------------------------------------------------------------------
(* Properties.                                                             *)

Pointed == (UNION {Members(sets[id].mem) : id \in Existing})
           \cup (IF call = NULL THEN {} ELSE call.found \cup Members(call.mem))

\* What a set that Ruby can reach, or an XPath evaluation under way, points at
\* has not been freed: indexing, marking and merging read no freed memory.
MembersAlive ==
  /\ \A n \in Pointed \cap Node : n \in heap.alive /\ dstate[heap.doc[n]] = "live"
  /\ \A c \in Pointed \cap Copy : c \in copies.live /\ copies.elem[c] \in heap.alive

\* A namespace that the program refers to outlives the set it came from, the
\* deletion from it and the evaluation.
NamespacesOutliveSets == keptCopies \subseteq copies.live

\* A copied namespace that is not freed has a Ruby object that will free it or
\* is in a set that can still give it one, unless push or dup made it.
CopiesAreFreed ==
  copies.live \subseteq copies.owned \cup Pointed \cup copies.stray

\* A copied namespace is freed exactly once: not while the program has it, and
\* not never.
NamespacesFreedOnce == NamespacesOutliveSets /\ CopiesAreFreed

\* what a member stands for: a namespace is its element and prefix
Key(k, m) == IF m \in Copy THEN <<"namespace", k.elem[m]>> ELSE <<"node", m>>
KeysOf(k, s) == {Key(k, m) : m \in Members(s)}
Keys(s) == KeysOf(copies, s)
KeysIn(r) == KeysOf(r.k, r.s)

\* | and & are union and intersection, where a namespace is compared by element
\* and prefix.  Of nodes, - takes away only members of the second set; what it
\* leaves is the difference, and | gives no node twice, if no operand has a node
\* twice.  One that has, as unlink can leave it, may keep the node after -.
SetAlgebra ==
  \A a, b \in Existing :
    LET s == sets[a].mem
        t == sets[b].mem
        union == rb_xml_node_set_union(copies, s, t)
        nodes == Members(s) \cup Members(t) \subseteq Node
    IN  CanCopyAll(copies, s \o t) =>
          /\ KeysIn(union) = Keys(s) \cup Keys(t)
          /\ KeysIn(intersection(copies, s, t)) = Keys(s) \cap Keys(t)
          /\ nodes => /\ KeysIn(minus(copies, s, t)) \subseteq Keys(s)
                      /\ Keys(s) \ Keys(t) \subseteq KeysIn(minus(copies, s, t))
          /\ nodes /\ Injective(s) => KeysIn(minus(copies, s, t)) = Keys(s) \ Keys(t)
          /\ nodes /\ Injective(s) /\ Injective(t) => Injective(union.s)
=============================================================================
