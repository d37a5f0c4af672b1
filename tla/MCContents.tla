------------------------------ MODULE MCContents ------------------------------
(* One document, <r>text<e/>blank</r> or <r a="text&ref;"/>: texts are moved, *)
(* merged and replaced; the children of an attribute are wrapped and the      *)
(* attribute is written, moved and unlinked.                                  *)
EXTENDS MCNodeLifecycle

CONSTANTS d1, n1, n2, n3, n4

Parse(tree) == HeapOf(tree, [n \in {n1, n2, n3, n4} |-> d1], d1 :> <<n1>>)

TextTree == Parse(n1 :> <<Elem, d1, <<n2, n3, n4>>>> @@ n2 :> <<Text, n1, <<>>>>
                  @@ n3 :> <<Elem, n1, <<>>>> @@ n4 :> <<Blank, n1, <<>>>>)

Attribute == Parse(n1 :> <<Elem, d1, <<>>>> @@ n2 :> <<Attr, n1, <<n3, n4>>>>
                   @@ n3 :> <<Text, n2, <<>>>> @@ n4 :> <<Ref, n2, <<>>>>)

ASSUME TextTreeIsParsed == TextTree \in Heap /\ Parsed(TextTree)
ASSUME AttributeIsParsed == Attribute \in Heap /\ Parsed(Attribute)

MCInit == InitWith(TextTree, {d1}) \/ InitWith(Attribute, {d1})

MCSpecContents == MCInit /\ [][Next]_vars
MCSpecAnySet == InitWith(Attribute, {d1}) /\ [][NextAnySet]_vars

\* bound: in the tree of texts the program works with three nodes
FewWrapped == heap.kind[n2] = Attr \/ Cardinality({w \in Wrapper : heap.ptr[w] # NULL}) <= 3

NewObjects == Alike(Node \ {n1, n2, n3, n4})
=============================================================================
