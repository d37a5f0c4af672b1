------------------------------- MODULE MCMoves -------------------------------
(* The document <r>text<e/>blank</r>, or <!--c--><r/>, and a program that     *)
(* finds and makes nodes and puts them beside, below and in place of each     *)
(* other and of the root, until texts merge.                                  *)
EXTENDS MCContents

Prolog == HeapOf(n1 :> <<Comment, d1, <<>>>> @@ n2 :> <<Elem, d1, <<>>>>,
                 [n \in {n1, n2} |-> d1], d1 :> <<n1, n2>>)

ASSUME PrologIsParsed == Prolog \in Heap /\ Parsed(Prolog)

Moves == \/ Navigate
         \/ NewNode
         \/ unlink_node
         \/ add_child
         \/ add_next_sibling
         \/ add_previous_sibling
         \/ replace
         \/ root_set

\* the program of the prolog can make two nodes
MCSpecMoves == /\ \/ InitWith(TextTree, {d1})
                  \/ InitWith([Prolog EXCEPT !.fresh = {n3, n4}], {d1})
               /\ [][Moves]_vars
=============================================================================
