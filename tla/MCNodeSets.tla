----------------------------- MODULE MCNodeSets -----------------------------
(* The document <r>text</r>, or <r/>, and an empty one, and a program that keeps *)
(* sets of nodes and of namespaces and moves the nodes.                        *)
EXTENDS NodeSets, MCNodeLifecycle

CONSTANTS d1, d2, n1, n2, n3

TextTree   == HeapOf(n1 :> <<Elem, d1, <<n2>>>> @@ n2 :> <<Text, n1, <<>>>>,
                     [n \in {n1, n2} |-> d1], d1 :> <<n1>>)
OneElement == HeapOf(n1 :> <<Elem, d1, <<>>>>, n1 :> d1, d1 :> <<n1>>)

ASSUME TreesAreParsed == /\ {TextTree, OneElement} \subseteq Heap
                         /\ Parsed(TextTree) /\ Parsed(OneElement)

\* Namespaces are found in a document that does not change, a text moves in one
\* document, or an element moves between two.
MCInit == \/ InitWith([OneElement EXCEPT !.fresh = {}], {d1}) /\ NoSets(Copy)
          \/ InitWith(TextTree, {d1}) /\ NoSets({})
          \/ InitWith([OneElement EXCEPT !.fresh = {n2, n3}], {d1, d2}) /\ NoSets({})

MCSpec  == MCInit /\ [][NextSets]_allVars
MCSpecMixed == MCInit /\ [][NextMixed]_allVars

\* bounds: items in one set, objects of every class that the program holds, and
\* evaluations that call functions: in one document, with one result, no text
CONSTANT MaxMembers
ShortSets == \A id \in Existing : Len(sets[id].mem) <= MaxMembers
FewObjects == Cardinality(held \cup Existing \cup keptCopies)
                <= IF dstate[d2] = "unborn" THEN MaxHeld ELSE MaxHeld + 2
FewCalls == call # NULL => /\ dstate[d2] = "unborn"
                           /\ Len(call.mem) <= 1
                           /\ \A m \in Members(call.mem) \cap Node : ~IsText(heap, m)

\* nodes and copies are allocated in one order
NewObjects == Permutations(Wrapper) \cup Permutations(SetId)
=============================================================================
