----------------------------- MODULE MCDocuments -----------------------------
(* The document <r><e/></r>, and an empty one that the program creates: nodes *)
(* move between them and either may be forgotten and collected.               *)
EXTENDS MCNodeLifecycle

CONSTANTS d1, d2, n1, n2

TwoDocuments == HeapOf(n1 :> <<Elem, d1, <<n2>>>> @@ n2 :> <<Elem, n1, <<>>>>,
                       [n \in {n1, n2} |-> d1], d1 :> <<n1>>)

ASSUME TwoDocumentsIsParsed == TwoDocuments \in Heap /\ Parsed(TwoDocuments)

MCSpec == InitWith(TwoDocuments, {d1}) /\ [][Next]_vars

NewObjects == Alike(Node \ {n1, n2})
=============================================================================
