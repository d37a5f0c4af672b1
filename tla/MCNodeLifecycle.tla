--------------------------- MODULE MCNodeLifecycle ---------------------------
(* Small documents on which TLC checks NodeLifecycle.                      *)
EXTENDS NodeLifecycle, TLC

CONSTANTS MaxHeld    \* bound: objects the program holds at once

\* The heap with the documents docs, and the nodes that the function tree
\* maps to <<kind, parent, children>>, in document order.
HeapOf(tree, docOf, roots) ==
  [ fresh  |-> Node \ DOMAIN tree,
    alive  |-> DOMAIN tree,
    kind   |-> [n \in Node |-> IF n \in DOMAIN tree THEN tree[n][1] ELSE Elem],
    doc    |-> [n \in Node |-> IF n \in DOMAIN tree THEN docOf[n] ELSE CHOOSE d \in Doc : TRUE],
    parent |-> [n \in Node |-> IF n \in DOMAIN tree THEN tree[n][2] ELSE NULL],
    kids   |-> [p \in Node \cup Doc |-> IF p \in DOMAIN tree THEN tree[p][3]
                                        ELSE IF p \in DOMAIN roots THEN roots[p] ELSE <<>>],
    priv   |-> [n \in Node |-> NULL],
    ptr    |-> [w \in Wrapper |-> NULL],
    pinned |-> [d \in Doc |-> {}],
    cache  |-> [d \in Doc |-> {}] ]

InitWith(h, live) == /\ heap = h
                     /\ dstate = [d \in Doc |-> IF d \in live THEN "live" ELSE "unborn"]
                     /\ held = live
                     /\ lost = {}

FewHeld == Cardinality(held) <= MaxHeld

\* bound: the program ends at the first call that raises
NoneLost == lost = {}

\* Objects not yet allocated are alike, and CHOOSE takes any of them.
Alike(S) == Permutations(Wrapper) \cup Permutations(S)
=============================================================================
