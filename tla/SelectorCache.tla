----------------------------- MODULE SelectorCache -----------------------------
(***************************************************************************)
(* Nokogiri::CSS.xpath_for (lib/nokogiri/css.rb) and the cache that all    *)
(* threads share (lib/nokogiri/css/selector_cache.rb).  The line           *)
(*                                                                         *)
(*   SelectorCache[key] ||= Parser.new.xpath_for(selector, visitor)        *)
(*                                                                         *)
(* reads under the mutex, translates without it, and writes under it       *)
(* again; clear_cache and other calls may come in between, and an          *)
(* exception (Thread#raise, Timeout) may end a call at any point.          *)
(***************************************************************************)
CONSTANTS Thread, Selector, Visitor,
          Translation(_, _),   \* Parser#xpath_for, or Error
          Error,
          config(_),           \* XPathVisitor#config: the part of a visitor in the key
          Program,             \* the functions from threads to what they may ask
          NULL

ASSUME ProgramAssumption == Program \subseteq [Thread -> SUBSET (Selector \X Visitor)]

\* visitors that cannot be told apart by their keys translate alike
ASSUME ConfigDecides == \A s \in Selector, v, w \in Visitor :
  config(v) = config(w) => Translation(s, v) = Translation(s, w)

ASSUME NullAssumption == NULL \notin Thread /\ NULL \notin {Translation(s, v) : s \in Selector, v \in Visitor}

VARIABLES program,   \* what each thread may ask
          cache,     \* @cache: a set of pairs of a key and its value
          mutex,     \* the thread that holds @mutex, or NULL
          pc,        \* where each thread is
          asked,     \* the selector and the visitor of its call: at most one
          value,     \* what it has translated, or NULL
          answer     \* its last call and what that returned or raised: at most one

vars == <<program, cache, mutex, pc, asked, value, answer>>

\* mutant: the configuration of the visitor is not in the key
SelectorOnly(selector, visitor) == <<selector>>

key(selector, visitor) == <<selector, config(visitor)>>

KeyOf(q) == key(q[1], q[2])
Found(q) == {e[2] : e \in {e \in cache : e[1] = KeyOf(q)}}

Init == /\ program \in Program
        /\ cache = {}
        /\ mutex = NULL
        /\ pc = [t \in Thread |-> "idle"]
        /\ asked = [t \in Thread |-> {}]
        /\ value = [t \in Thread |-> NULL]
        /\ answer = [t \in Thread |-> {}]

\* xpath_for(selector, visitor: visitor), or clear_cache, by a thread that uses
\* the cache at all
Call(t) == \E q \in program[t] :
  /\ pc[t] = "idle"
  /\ pc' = [pc EXCEPT ![t] = "read"]
  /\ asked' = [asked EXCEPT ![t] = {q}]
  /\ answer' = [answer EXCEPT ![t] = {}]
  /\ UNCHANGED <<program, cache, mutex, value>>

CallClear(t) ==
  /\ pc[t] = "idle" /\ program[t] # {}
  /\ pc' = [pc EXCEPT ![t] = "clear"]
  /\ UNCHANGED <<program, cache, mutex, asked, value, answer>>

\* @mutex.synchronize: the thread waits for the mutex
Waiting == [read |-> "reading", write |-> "writing", clear |-> "clearing"]

Lock(t) ==
  /\ pc[t] \in DOMAIN Waiting
  /\ mutex = NULL
  /\ mutex' = t
  /\ pc' = [pc EXCEPT ![t] = Waiting[pc[t]]]
  /\ UNCHANGED <<program, cache, asked, value, answer>>

Return(t, q, x) ==
  /\ pc' = [pc EXCEPT ![t] = "idle"]
  /\ asked' = [asked EXCEPT ![t] = {}]
  /\ answer' = [answer EXCEPT ![t] = {<<q, x>>}]
  /\ value' = [value EXCEPT ![t] = NULL]

\* SelectorCache[key], and the left side of "||="
Hit(t) == \E q \in asked[t] : \E x \in Found(q) :
  /\ pc[t] = "reading"
  /\ mutex' = NULL
  /\ Return(t, q, x)
  /\ UNCHANGED <<program, cache>>

Miss(t) == \E q \in asked[t] :
  /\ pc[t] = "reading" /\ Found(q) = {}
  /\ mutex' = NULL
  /\ pc' = [pc EXCEPT ![t] = "parse"]
  /\ UNCHANGED <<program, cache, asked, value, answer>>

\* Parser.new.xpath_for(selector, visitor), which may raise
Parse(t) == \E q \in asked[t] :
  /\ pc[t] = "parse" /\ Translation(q[1], q[2]) # Error
  /\ pc' = [pc EXCEPT ![t] = "write"]
  /\ value' = [value EXCEPT ![t] = Translation(q[1], q[2])]
  /\ UNCHANGED <<program, cache, mutex, asked, answer>>

ParseRaises(t) == \E q \in asked[t] :
  /\ pc[t] = "parse" /\ Translation(q[1], q[2]) = Error
  /\ Return(t, q, Error)
  /\ UNCHANGED <<program, cache, mutex>>

\* SelectorCache[key] = value, over what another thread may have put there
Store(t) == \E q \in asked[t] :
  /\ pc[t] = "writing"
  /\ cache' = {e \in cache : e[1] # KeyOf(q)} \cup {<<KeyOf(q), value[t]>>}
  /\ mutex' = NULL
  /\ Return(t, q, value[t])
  /\ UNCHANGED program

clear_cache(t) ==
  /\ pc[t] = "clearing"
  /\ cache' = {}
  /\ mutex' = NULL
  /\ pc' = [pc EXCEPT ![t] = "idle"]
  /\ UNCHANGED <<program, asked, value, answer>>

\* mutant: the mutex is released only when the block returns
NeverReleased(t) == mutex

\* an exception from outside ends the call; synchronize releases the mutex
Released(t) == IF mutex = t THEN NULL ELSE mutex

Interrupt(t) ==
  /\ pc[t] # "idle"
  /\ mutex' = Released(t)
  /\ pc' = [pc EXCEPT ![t] = "idle"]
  /\ asked' = [asked EXCEPT ![t] = {}]
  /\ value' = [value EXCEPT ![t] = NULL]
  /\ UNCHANGED <<program, cache, answer>>

Proceed(t) == Hit(t) \/ Miss(t) \/ Parse(t) \/ ParseRaises(t) \/ Store(t) \/ clear_cache(t)

Next == \E t \in Thread : Call(t) \/ CallClear(t) \/ Lock(t) \/ Proceed(t) \/ Interrupt(t)

\* a thread that can go on does; waiters get the mutex in the order they came,
\* so that one that can lock it again and again does at last
Fairness == \A t \in Thread : WF_vars(Proceed(t)) /\ SF_vars(Lock(t))

Spec == Init /\ [][Next]_vars /\ Fairness

-----------------------------------------------------------------------------
Questions == UNION {program[t] : t \in Thread}

TypeOK ==
  /\ {program, asked} \subseteq [Thread -> SUBSET (Selector \X Visitor)]
  /\ mutex \in Thread \cup {NULL}
  /\ pc \in [Thread -> {"idle", "read", "reading", "parse", "write", "writing", "clear", "clearing"}]
  /\ DOMAIN value = Thread /\ DOMAIN answer = Thread

\* Every entry of the cache is the translation of its selector by every visitor
\* that has the configuration of its key, and no key has two entries or the
\* error of a selector that does not parse: whichever thread stored it, and
\* whatever was stored or cleared between its read and its write.
CacheAgrees ==
  /\ \A e \in cache, q \in Questions :
       e[1] = KeyOf(q) => e[2] = Translation(q[1], q[2]) /\ e[2] # Error
  /\ \A e, f \in cache : e[1] = f[1] => e = f

\* With the cache, a call answers what it would without: the calls of threads
\* that share it implement those of Translator, which has none.
Uncached == INSTANCE Translator
AnswersAsUncached == Uncached!Spec

\* A call that was made ends, by an answer or by an exception: no thread waits
\* for the mutex for ever.
CallsReturn == \A t \in Thread : pc[t] # "idle" ~> pc[t] = "idle"
=============================================================================
