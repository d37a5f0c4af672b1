-------------------------- MODULE SelectorCacheProofs --------------------------
(***************************************************************************)
(* For any threads, selectors, visitors and translation: the cache holds   *)
(* nothing but translations, and the calls that share it answer as calls   *)
(* without a cache would.                                                  *)
(*                                                                         *)
(* CacheAgrees is not inductive: a thread stores the value that it made    *)
(* before it waited for the mutex.  IInv adds that this value is the       *)
(* translation of what the thread was asked, and that it was asked one     *)
(* thing.                                                                  *)
(***************************************************************************)
EXTENDS SelectorCache, TLAPS

AskedOne == \A t \in Thread : /\ asked[t] \subseteq program[t]
                              /\ \A q, r \in asked[t] : q = r
                              /\ pc[t] \in {"idle", "clear", "clearing"} => asked[t] = {}

ValueAgrees == \A t \in Thread : pc[t] \in {"write", "writing"} =>
  \A q \in asked[t] : value[t] = Translation(q[1], q[2]) /\ value[t] # Error

\* synchronize excludes: the thread inside it is the one that holds the mutex
Inside(t) == pc[t] \in {"reading", "writing", "clearing"}
MutexHeld == /\ NULL \notin Thread
             /\ \A t \in Thread : Inside(t) <=> mutex = t

EntriesAgree == \A e \in cache, q \in Selector \X Visitor :
  e[1] = KeyOf(q) => e[2] = Translation(q[1], q[2]) /\ e[2] # Error
OneEntry == \A e, f \in cache : e[1] = f[1] => e = f

IInv == TypeOK /\ AskedOne /\ ValueAgrees /\ EntriesAgree /\ OneEntry /\ MutexHeld

-----------------------------------------------------------------------------
\* Questions with one key have one translation.
LEMMA KeysDecide ==
  ASSUME NEW q \in Selector \X Visitor, NEW r \in Selector \X Visitor, KeyOf(q) = KeyOf(r)
  PROVE  Translation(q[1], q[2]) = Translation(r[1], r[2])
BY ConfigDecides DEF KeyOf, key

\* What a thread was asked is a selector and a visitor.
LEMMA AskedPairs ==
  ASSUME TypeOK, AskedOne, NEW t \in Thread, NEW q \in asked[t]
  PROVE  q \in Selector \X Visitor
BY DEF TypeOK, AskedOne

LEMMA InitIInv == Init => IInv
BY ProgramAssumption, NullAssumption
   DEF Init, IInv, TypeOK, AskedOne, ValueAgrees, EntriesAgree, OneEntry, MutexHeld, Inside

\* A step of thread t leaves the calls of the others, so that each conjunct
\* about calls is proved for t alone.
LEMMA NextIInv == IInv /\ [Next]_vars => IInv'
<1> SUFFICES ASSUME IInv, [Next]_vars PROVE IInv'
  OBVIOUS
<1> USE DEF IInv
<1>1. CASE UNCHANGED vars
  BY <1>1 DEF vars, TypeOK, AskedOne, ValueAgrees, EntriesAgree, OneEntry, MutexHeld, Inside, KeyOf, key
<1>2. ASSUME NEW t \in Thread, Call(t) PROVE IInv'
  <2>1. TypeOK'
    BY <1>2 DEF Call, TypeOK
  <2>2. AskedOne'
    BY <1>2 DEF Call, TypeOK, AskedOne
  <2>3. ValueAgrees'
    BY <1>2 DEF Call, TypeOK, ValueAgrees
  <2>4. EntriesAgree' /\ OneEntry'
    BY <1>2 DEF Call, EntriesAgree, OneEntry, KeyOf, key
  <2>5. MutexHeld'
    BY <1>2 DEF Call, TypeOK, MutexHeld, Inside
  <2> QED BY <2>1, <2>2, <2>3, <2>4, <2>5
<1>3. ASSUME NEW t \in Thread, CallClear(t) PROVE IInv'
  <2>1. TypeOK' /\ AskedOne' /\ ValueAgrees'
    BY <1>3 DEF CallClear, TypeOK, AskedOne, ValueAgrees
  <2>2. EntriesAgree' /\ OneEntry'
    BY <1>3 DEF CallClear, EntriesAgree, OneEntry, KeyOf, key
  <2>3. MutexHeld'
    BY <1>3 DEF CallClear, TypeOK, MutexHeld, Inside
  <2> QED BY <2>1, <2>2, <2>3
<1>4. ASSUME NEW t \in Thread, Lock(t) PROVE IInv'
  <2>1. TypeOK' /\ AskedOne' /\ ValueAgrees'
    BY <1>4 DEF Lock, Waiting, TypeOK, AskedOne, ValueAgrees
  <2>2. EntriesAgree' /\ OneEntry'
    BY <1>4 DEF Lock, EntriesAgree, OneEntry, KeyOf, key
  <2>3. MutexHeld'
    BY <1>4 DEF Lock, Waiting, TypeOK, MutexHeld, Inside
  <2> QED BY <2>1, <2>2, <2>3
<1>5. ASSUME NEW t \in Thread, Hit(t) PROVE IInv'
  <2>1. TypeOK' /\ AskedOne' /\ ValueAgrees'
    BY <1>5 DEF Hit, Return, TypeOK, AskedOne, ValueAgrees
  <2>2. EntriesAgree' /\ OneEntry'
    BY <1>5 DEF Hit, EntriesAgree, OneEntry, KeyOf, key
  <2>3. MutexHeld'
    BY <1>5 DEF Hit, Return, TypeOK, MutexHeld, Inside
  <2> QED BY <2>1, <2>2, <2>3
<1>6. ASSUME NEW t \in Thread, Miss(t) PROVE IInv'
  <2>1. TypeOK' /\ AskedOne' /\ ValueAgrees'
    BY <1>6 DEF Miss, TypeOK, AskedOne, ValueAgrees
  <2>2. EntriesAgree' /\ OneEntry'
    BY <1>6 DEF Miss, EntriesAgree, OneEntry, KeyOf, key
  <2>3. MutexHeld'
    BY <1>6 DEF Miss, TypeOK, MutexHeld, Inside
  <2> QED BY <2>1, <2>2, <2>3
<1>7. ASSUME NEW t \in Thread, Parse(t) PROVE IInv'
  <2>1. TypeOK' /\ AskedOne'
    BY <1>7 DEF Parse, TypeOK, AskedOne
  <2>2. ValueAgrees'
    <3>1. PICK q \in asked[t] : /\ Translation(q[1], q[2]) # Error
                                /\ value' = [value EXCEPT ![t] = Translation(q[1], q[2])]
                                /\ pc' = [pc EXCEPT ![t] = "write"]
                                /\ asked' = asked
      BY <1>7 DEF Parse
    <3>2. \A r \in asked[t] : r = q
      BY <3>1 DEF AskedOne
    <3> QED BY <3>1, <3>2 DEF ValueAgrees, TypeOK
  <2>3. EntriesAgree' /\ OneEntry'
    BY <1>7 DEF Parse, EntriesAgree, OneEntry, KeyOf, key
  <2>4. MutexHeld'
    BY <1>7 DEF Parse, TypeOK, MutexHeld, Inside
  <2> QED BY <2>1, <2>2, <2>3, <2>4
<1>8. ASSUME NEW t \in Thread, ParseRaises(t) PROVE IInv'
  <2>1. TypeOK' /\ AskedOne' /\ ValueAgrees'
    BY <1>8 DEF ParseRaises, Return, TypeOK, AskedOne, ValueAgrees
  <2>2. EntriesAgree' /\ OneEntry'
    BY <1>8 DEF ParseRaises, EntriesAgree, OneEntry, KeyOf, key
  <2>3. MutexHeld'
    BY <1>8 DEF ParseRaises, Return, TypeOK, MutexHeld, Inside
  <2> QED BY <2>1, <2>2, <2>3
<1>9. ASSUME NEW t \in Thread, Store(t) PROVE IInv'
  <2>1. TypeOK' /\ AskedOne' /\ ValueAgrees'
    BY <1>9 DEF Store, Return, TypeOK, AskedOne, ValueAgrees
  <2> PICK q \in asked[t] : /\ pc[t] = "writing"
                            /\ cache' = {e \in cache : e[1] # KeyOf(q)} \cup {<<KeyOf(q), value[t]>>}
    BY <1>9 DEF Store
  <2>2. q \in Selector \X Visitor
    BY AskedPairs
  <2>3. value[t] = Translation(q[1], q[2]) /\ value[t] # Error
    BY DEF ValueAgrees
  <2>4. EntriesAgree'
    <3> SUFFICES ASSUME NEW e \in cache', NEW r \in Selector \X Visitor, e[1] = KeyOf(r)
                 PROVE  e[2] = Translation(r[1], r[2]) /\ e[2] # Error
      BY DEF EntriesAgree, KeyOf, key
    <3>1. CASE e \in cache
      BY <3>1 DEF EntriesAgree
    <3>2. CASE e = <<KeyOf(q), value[t]>>
      BY <3>2, <2>2, <2>3, KeysDecide
    <3> QED BY <3>1, <3>2
  <2>5. OneEntry'
    BY DEF OneEntry
  <2>6. MutexHeld'
    BY <1>9 DEF Store, Return, TypeOK, MutexHeld, Inside
  <2> QED BY <2>1, <2>4, <2>5, <2>6
<1>10. ASSUME NEW t \in Thread, clear_cache(t) PROVE IInv'
  <2>1. TypeOK' /\ AskedOne' /\ ValueAgrees'
    BY <1>10 DEF clear_cache, TypeOK, AskedOne, ValueAgrees
  <2>2. EntriesAgree' /\ OneEntry'
    BY <1>10 DEF clear_cache, EntriesAgree, OneEntry
  <2>3. MutexHeld'
    BY <1>10 DEF clear_cache, TypeOK, MutexHeld, Inside
  <2> QED BY <2>1, <2>2, <2>3
<1>11. ASSUME NEW t \in Thread, Interrupt(t) PROVE IInv'
  <2>1. TypeOK' /\ AskedOne' /\ ValueAgrees'
    BY <1>11 DEF Interrupt, Released, TypeOK, AskedOne, ValueAgrees
  <2>2. EntriesAgree' /\ OneEntry'
    BY <1>11 DEF Interrupt, EntriesAgree, OneEntry, KeyOf, key
  <2>3. MutexHeld'
    BY <1>11 DEF Interrupt, Released, TypeOK, MutexHeld, Inside
  <2> QED BY <2>1, <2>2, <2>3
<1> QED
  BY <1>1, <1>2, <1>3, <1>4, <1>5, <1>6, <1>7, <1>8, <1>9, <1>10, <1>11 DEF Next, Proceed

\* The inductive invariant holds of every behaviour of the cache.
THEOREM SpecIInv == Spec => []IInv
BY InitIInv, NextIInv, PTL DEF Spec

\* Every variable of the cache keeps its type, for any threads and selectors.
THEOREM TypeCorrect == Spec => []TypeOK
<1>1. IInv => TypeOK
  BY DEF IInv
<1> QED BY <1>1, SpecIInv, PTL

\* Every entry of the shared cache is the translation of its selector by every
\* visitor with the configuration of its key (SelectorCache[key] ||= ...).
THEOREM SpecCacheAgrees == Spec => []CacheAgrees
<1>1. IInv => CacheAgrees
  <2> SUFFICES ASSUME IInv PROVE CacheAgrees
    OBVIOUS
  <2>1. Questions \subseteq Selector \X Visitor
    BY DEF IInv, TypeOK, Questions
  <2> QED BY <2>1 DEF IInv, EntriesAgree, OneEntry, CacheAgrees
<1> QED BY <1>1, SpecIInv, PTL

-----------------------------------------------------------------------------
\* Each step of a call is one of Translator or changes nothing that it sees.
LEMMA StepImplements == IInv /\ [Next]_vars => [Uncached!Next]_<<program, asked, answer>>
<1> SUFFICES ASSUME IInv, [Next]_vars
             PROVE  Uncached!Next \/ UNCHANGED <<program, asked, answer>>
  OBVIOUS
<1>1. CASE UNCHANGED vars
  BY <1>1 DEF vars
<1>2. ASSUME NEW t \in Thread, Call(t) PROVE Uncached!Ask(t)
  <2>1. PICK q \in program[t] : /\ pc[t] = "idle"
                                /\ asked' = [asked EXCEPT ![t] = {q}]
                                /\ answer' = [answer EXCEPT ![t] = {}]
                                /\ program' = program
    BY <1>2 DEF Call
  <2>2. asked[t] = {}
    BY <2>1 DEF IInv, AskedOne
  <2> QED BY <2>1, <2>2 DEF Uncached!Ask
<1>3. ASSUME NEW t \in Thread, Hit(t) \/ ParseRaises(t) \/ Store(t) PROVE Uncached!Answer(t)
  <2>1. PICK q, x : /\ q \in asked[t]
                    /\ program' = program
                    /\ Return(t, q, x)
                    /\ \/ x \in Found(q)
                       \/ Translation(q[1], q[2]) = Error /\ x = Error
                       \/ pc[t] = "writing" /\ x = value[t]
    BY <1>3 DEF Hit, ParseRaises, Store
  <2>2. q \in Selector \X Visitor
    BY <2>1, AskedPairs DEF IInv
  <2>3. x = Translation(q[1], q[2])
    BY <2>1, <2>2 DEF Found, IInv, EntriesAgree, ValueAgrees
  <2> QED BY <2>1, <2>3 DEF Return, Uncached!Answer
<1>4. ASSUME NEW t \in Thread, Interrupt(t) PROVE Uncached!Interrupted(t) \/ UNCHANGED <<program, asked, answer>>
  <2>1. asked' = [asked EXCEPT ![t] = {}] /\ program' = program /\ answer' = answer
    BY <1>4 DEF Interrupt
  <2>2. CASE asked[t] = {}
    <3>1. asked' = asked
      BY <2>1, <2>2 DEF IInv, TypeOK
    <3> QED BY <3>1, <2>1
  <2>3. CASE asked[t] # {}
    BY <2>1, <2>3 DEF Uncached!Interrupted
  <2> QED BY <2>2, <2>3
<1>5. ASSUME NEW t \in Thread, CallClear(t) \/ Lock(t) \/ Miss(t) \/ Parse(t) \/ clear_cache(t)
      PROVE  UNCHANGED <<program, asked, answer>>
  BY <1>5 DEF CallClear, Lock, Miss, Parse, clear_cache
<1> QED BY <1>1, <1>2, <1>3, <1>4, <1>5 DEF Next, Proceed, Uncached!Next

\* The refinement, for every value of the constants: whatever other threads
\* store or clear, a call answers with the translation of what it was asked.
THEOREM AnswersAsWithoutCache == Spec => AnswersAsUncached
<1>1. Init => Uncached!Init
  BY ProgramAssumption DEF Init, Uncached!Init
<1> QED BY <1>1, StepImplements, SpecIInv, PTL DEF Spec, AnswersAsUncached, Uncached!Spec
=============================================================================
