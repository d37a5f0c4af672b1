---------------------------- MODULE ErrorReporting ----------------------------
(***************************************************************************)
(* What an operation that parses or evaluates promises about errors: the   *)
(* ones libxml2 reports while it is the innermost operation under way      *)
(* arrive where it collects them, and nowhere else.                        *)
(***************************************************************************)
EXTENDS Naturals, Sequences

CONSTANT Op         \* calls of the operations, each made at most once

VARIABLES running,  \* the calls under way, the innermost last
          received, \* the calls that had an error and received it
          astray    \* the calls that had an error which went elsewhere

vars == <<running, received, astray>>

Init == running = <<>> /\ received = {} /\ astray = {}

Enter(o) == /\ running' = Append(running, o)
            /\ UNCHANGED <<received, astray>>

Report == /\ running # <<>>
          /\ received' = received \cup {running[Len(running)]}
          /\ UNCHANGED <<running, astray>>

Leave == /\ running # <<>>
         /\ running' = SubSeq(running, 1, Len(running) - 1)
         /\ UNCHANGED <<received, astray>>

Next == (\E o \in Op : Enter(o)) \/ Report \/ Leave

Spec == Init /\ [][Next]_vars
=============================================================================
