------------------------------ MODULE Translator ------------------------------
(***************************************************************************)
(* What Nokogiri::CSS.xpath_for promises (lib/nokogiri/css.rb): a call     *)
(* answers with the translation of its selector by its visitor, or raises  *)
(* because the selector has none, whatever the other threads do.  There is *)
(* no cache in it.                                                         *)
(***************************************************************************)
CONSTANTS Thread,              \* the threads of the program
          Selector,            \* the texts that are given as selectors
          Visitor,             \* the visitor objects
          Translation(_, _),   \* the XPath of a selector by a visitor, or Error
          Error                \* stands for a syntax error

VARIABLES program,   \* what each thread may ask
          asked,     \* what each thread asks now: a set of at most one question
          answer     \* its last call and what that returned or raised: at most one

Init == /\ program \in [Thread -> SUBSET (Selector \X Visitor)]
        /\ asked = [t \in Thread |-> {}]
        /\ answer = [t \in Thread |-> {}]

Ask(t) == \E q \in program[t] :
  /\ asked[t] = {}
  /\ asked' = [asked EXCEPT ![t] = {q}]
  /\ answer' = [answer EXCEPT ![t] = {}]
  /\ UNCHANGED program

Answer(t) == \E q \in asked[t] :
  /\ asked' = [asked EXCEPT ![t] = {}]
  /\ answer' = [answer EXCEPT ![t] = {<<q, Translation(q[1], q[2])>>}]
  /\ UNCHANGED program

\* an exception of another thread ends the call without an answer
Interrupted(t) ==
  /\ asked[t] # {}
  /\ asked' = [asked EXCEPT ![t] = {}]
  /\ UNCHANGED <<program, answer>>

Next == \E t \in Thread : Ask(t) \/ Answer(t) \/ Interrupted(t)
Spec == Init /\ [][Next]_<<program, asked, answer>>
=============================================================================
