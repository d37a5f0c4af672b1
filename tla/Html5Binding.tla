----------------------------- MODULE Html5Binding -----------------------------
(***************************************************************************)
(* What Nokogiri makes of a parse (ext/nokogiri/gumbo.c): build_tree walks *)
(* the Gumbo tree without a stack and builds a libxml2 tree beside it.     *)
(*                                                                         *)
(* An output is a sequence of libxml2 nodes, its first the document or the *)
(* fragment that is built into.  A node names the nodes of the Gumbo tree  *)
(* it was made from, which are several when xmlAddChild has joined texts,  *)
(* the node that declares its namespace, and the prefixes it declares.     *)
(* Attributes and line numbers are left out.                               *)
(***************************************************************************)
EXTENDS TreeConstruction

Output(start) == << [from |-> <<start>>, type |-> "top", parent |-> NULL, ns |-> NULL, declares |-> {}] >>

\* the last child of a node: nodes are made in document order
LastChild(out, n) == SelectLastInSeq(out, LAMBDA e : e.parent = n)

\* with "declares" set to the prefixes of "at" or above it
xmlSearchNs(out, at, prefix) ==
  LET found[n \in 0..at] == IF n = NULL THEN NULL
                            ELSE IF prefix \in out[n].declares THEN n ELSE found[out[n].parent]
  IN found[at]

xmlAddChild(out, child) ==
  LET last == LastChild(out, child.parent)
  IN IF child.type = "text" /\ last # NULL /\ out[last].type = "text"
     THEN [out EXCEPT ![last].from = @ \o child.from]
     ELSE Append(out, child)

\* the node that declares the prefix, and the output with its declaration
lookup_or_add_ns(out, root, prefix) ==
  LET found == xmlSearchNs(out, root, prefix)
  IN IF found # NULL THEN [out |-> out, ns |-> found]
     ELSE [out |-> [out EXCEPT ![root].declares = @ \cup {prefix}], ns |-> root]

NewChild(b, c, type) ==
  [from |-> <<c>>, type |-> type, parent |-> b.xml, ns |-> NULL, declares |-> {}]

\* libxml2 joins texts, whitespace included, and no CDATA sections
XmlType(kind) == CASE kind \in {"text", "whitespace"} -> "text"
                   [] kind = "template" -> "element"
                   [] OTHER -> kind

AddElement(b, c, ns) ==
  LET out   == xmlAddChild(b.out, NewChild(b, c, "element"))
      new   == Len(out)
      root  == IF b.root = NULL THEN new ELSE b.root
      named == lookup_or_add_ns(out, root, ns)
  IN [b EXCEPT !.out = IF ns = "html" THEN out ELSE [named.out EXCEPT ![new].ns = named.ns],
               !.root = root, !.xml = new, !.gumbo = c, !.child = 1]

\* mutant: the elements of a fragment share the root of the first
MovesUpWithRoot(b, q) ==
  [b EXCEPT !.child = q.node[b.gumbo].idx + 1, !.gumbo = q.node[b.gumbo].parent, !.xml = b.out[b.xml].parent]

\* up the tree and to the next child
MovesUp(b, q) ==
  LET up == b.out[b.xml].parent
  IN [b EXCEPT !.child = q.node[b.gumbo].idx + 1, !.gumbo = q.node[b.gumbo].parent,
               !.xml = up, !.root = IF up = 1 THEN NULL ELSE @]

\* one turn of the loop of build_tree
Turned(b, q) ==
  LET kids == q.node[b.gumbo].kids
  IN IF b.returned THEN b
     ELSE IF b.child > Len(kids) THEN IF b.xml = 1 THEN [b EXCEPT !.returned = TRUE] ELSE MovesUp(b, q)
     ELSE LET c    == kids[b.child]
              type == XmlType(q.node[c].kind)
              next == [b EXCEPT !.child = @ + 1]
          IN IF type = "element" THEN AddElement(next, c, q.node[c].ns)
             ELSE [next EXCEPT !.out = xmlAddChild(@, NewChild(b, c, type))]

\* Every node is met once going down, every element once more going up.
build_tree(q, start) ==
  FoldLeft(LAMBDA b, i : Turned(b, q),
           [gumbo |-> start, xml |-> 1, child |-> 1, root |-> NULL, out |-> Output(start), returned |-> FALSE],
           [i \in 1 .. (2 * Len(q.node) + 1) |-> i])

\* parse_continue builds from the document, fragment_continue from its root
Built(q) == build_tree(q, IF suite.ctx = <<>> THEN q.doc ELSE q.root)

-----------------------------------------------------------------------------
DocumentOrder(q, start) ==
  LET in[n \in DOMAIN q.node] == FoldLeft(LAMBDA acc, c : acc \o in[c], <<n>>, q.node[n].kids)
  IN in[start]

AncestorsOrSelf(out, n) ==
  LET up[m \in 0..n] == IF m = NULL THEN {} ELSE {m} \cup up[out[m].parent] IN up[n]

(* The libxml2 tree that a caller gets is the parsed one: the loop ends,   *)
(* every node is in it once, in document order and below its parent, with  *)
(* adjacent texts joined; and the prefix of a foreign element is declared  *)
(* where it stands, so that it can be searched for and serialised.         *)
BindingAgrees ==
  phase = "parsed" /\ p.status = "ok" =>
    LET b     == Built(p)
        out   == b.out
        start == out[1].from[1]
        below == DOMAIN out \ {1}
    IN /\ b.returned
       /\ FlattenSeq([n \in DOMAIN out |-> out[n].from]) = DocumentOrder(p, start)
       /\ \A n \in below : LET e == out[n] IN
            /\ \A i \in DOMAIN e.from : p.node[e.from[i]].parent = out[e.parent].from[1]
            /\ e.type = "text" =>
                 LET before == LastChild(SubSeq(out, 1, n - 1), e.parent)
                 IN before = NULL \/ out[before].type # "text"
            /\ e.type = "element" =>
                 LET ns == p.node[e.from[1]].ns
                 IN IF ns = "html" THEN e.ns = NULL
                    ELSE e.ns \in AncestorsOrSelf(out, n) /\ ns \in out[e.ns].declares
=============================================================================
