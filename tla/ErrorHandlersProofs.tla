------------------------- MODULE ErrorHandlersProofs -------------------------
(* What the error handlers guarantee for any number of calls, nested to any *)
(* depth.                                                                   *)
EXTENDS ErrorHandlers, SequenceTheorems, TLAPS

\* Removing the innermost frame leaves the others as they are.
LEMMA PopStack ==
  ASSUME NEW S, NEW s \in Seq(S), s # <<>>
  PROVE  /\ Len(s) \in Nat \ {0}
         /\ s[Len(s)] \in S
         /\ SubSeq(s, 1, Len(s) - 1) \in Seq(S)
         /\ Len(SubSeq(s, 1, Len(s) - 1)) = Len(s) - 1
         /\ \A i \in 1 .. Len(s) - 1 : SubSeq(s, 1, Len(s) - 1)[i] = s[i]
<1>1. Len(s) \in Nat \ {0}
  OBVIOUS
<1>2. \A i \in 1 .. Len(s) : s[i] \in S
  OBVIOUS
<1>3. s[Len(s)] \in S
  BY <1>1, <1>2
<1> DEFINE n == Len(s) - 1
<1>4. n \in Int /\ 1 \in Int /\ \A i \in 1 .. n : s[i] \in S
  BY <1>1, <1>2
<1>5. /\ SubSeq(s, 1, n) \in Seq(S)
      /\ Len(SubSeq(s, 1, n)) = IF 1 <= n THEN n - 1 + 1 ELSE 0
      /\ \A i \in 1 .. n - 1 + 1 : SubSeq(s, 1, n)[i] = s[1 + i - 1]
  <2> HIDE DEF n
  <2> QED BY <1>4, SubSeqProperties
<1>6. Len(SubSeq(s, 1, n)) = n /\ \A i \in 1 .. n : SubSeq(s, 1, n)[i] = s[i]
  <2>1. n \in Nat
    BY <1>1
  <2>2. n - 1 + 1 = n /\ \A i \in 1 .. n : 1 + i - 1 = i
    BY <2>1
  <2>3. CASE n = 0
    <3> HIDE DEF n
    <3> QED BY <1>5, <2>2, <2>3
  <2>4. CASE 1 <= n
    <3> HIDE DEF n
    <3> QED BY <1>5, <2>2, <2>4
  <2> HIDE DEF n
  <2>5. QED
    BY <2>1, <2>3, <2>4
<1>8. QED
  BY <1>1, <1>3, <1>5, <1>6

\* Adding a frame leaves the others as they are.
LEMMA PushStack ==
  ASSUME NEW S, NEW s \in Seq(S), NEW x \in S
  PROVE  /\ Append(s, x) \in Seq(S)
         /\ Append(s, x) # <<>>
         /\ Len(s) \in Nat
         /\ Len(Append(s, x)) = Len(s) + 1
         /\ Append(s, x)[Len(s) + 1] = x
         /\ \A i \in 1 .. Len(s) : Append(s, x)[i] = s[i]
  OBVIOUS

\* What is known of the kind of every operation.
LEMMA KindOfOperation ==
  ASSUME NEW k \in Kind
  PROVE  /\ k.sets \in {"array", "nothing"}
         /\ k.after \in {"restored", "reset", "left"}
         /\ k.sets = "array" => k.after # "left"
  BY DEF Kind, noko_xml_document_s_read_io, noko_xml_document_s_read_memory,
             noko_xml_document__create_entity, rb_html_document_s_read_io,
             rb_html_document_s_read_memory, process_xinclude_subtree, in_context,
             rb_xml_reader_namespaces, rb_xml_reader_attribute_hash, read_more,
             inner_xml, outer_xml, relax_ng_parse_schema, xml_schema_parse_schema,
             set_encoding, xml_parse_with, html4_parse_with, xml_native_write,
             html4_native_write, noko_xml_xpath_context_evaluate, validate

\* An operation never installs the handler of other code.
LEMMA OwnIsHandler ==
  ASSUME NEW k \in Kind, NEW o \in Op
  PROVE  /\ Install(k, o) \in Handler
         /\ Install(k, o) # Foreign
  BY HandlersDiffer DEF Install, Own, Handler

\* An operation leaves a handler behind.
LEMMA RestoreIsHandler ==
  ASSUME NEW f \in Frame, handler \in Handler
  PROVE  Restore(f) \in Handler
<1>1. f.kind \in Kind /\ f.saved \in Handler
  BY DEF Frame
<1>2. f.kind.after \in {"restored", "reset", "left"}
  BY <1>1, KindOfOperation
<1>3. QED
  BY <1>1, <1>2 DEF Restore, Handler

-----------------------------------------------------------------------------
(* Types.  The calls under way were made: without that conjunct a reported  *)
(* error could be one of a call that was never made.                        *)

TInv == /\ TypeOK
        /\ \A i \in 1 .. Len(stack) : stack[i].op \in called

\* A call pushes its frame.
LEMMA EnterType ==
  ASSUME TInv, NEW k \in Kind, NEW o \in Op, Enter(k, o)
  PROVE  TInv'
<1> USE DEF TInv, TypeOK
<1> DEFINE f == [op |-> o, kind |-> k, saved |-> handler]
<1>1. f \in Frame /\ f.op = o
  BY DEF Frame
<1>2. stack' = Append(stack, f) /\ called' = called \cup {o}
  BY DEF Enter
<1>3. stack' \in Seq(Frame)
  BY <1>1, <1>2, PushStack
<1>4. handler' \in Handler /\ received' = received /\ astray' = astray
  BY OwnIsHandler DEF Enter
<1>5. ASSUME NEW i \in 1 .. Len(stack') PROVE stack'[i].op \in called'
  <2>1. CASE i = Len(stack) + 1
    BY <1>1, <1>2, <2>1, PushStack
  <2>2. CASE i # Len(stack) + 1
    <3>1. i \in 1 .. Len(stack)
      BY <1>1, <1>2, <2>2, PushStack
    <3>2. stack'[i] = stack[i]
      BY <1>1, <1>2, <3>1, PushStack
    <3>3. QED
      BY <1>2, <3>1, <3>2
  <2>3. QED
    BY <2>1, <2>2
<1>6. QED
  BY <1>2, <1>3, <1>4, <1>5

\* A return or an exception pops its frame.
LEMMA PopType ==
  ASSUME TInv, stack # <<>>, stack' = Pop, handler' \in Handler,
         UNCHANGED <<called, received, astray>>
  PROVE  TInv'
<1> USE DEF TInv, TypeOK
<1>1. stack' \in Seq(Frame) /\ Len(stack') = Len(stack) - 1 /\ Len(stack) \in Nat \ {0}
  BY PopStack DEF Pop
<1>2. ASSUME NEW i \in 1 .. Len(stack') PROVE stack'[i].op \in called'
  <2>1. i \in 1 .. Len(stack) - 1
    BY <1>1
  <2>2. stack'[i] = stack[i]
    BY <2>1, PopStack DEF Pop
  <2>3. stack[i].op \in called
    BY <1>1, <2>1
  <2>4. QED
    BY <2>2, <2>3
<1>3. QED
  BY <1>1, <1>2

\* The innermost frame is a frame.
LEMMA TopIsFrame ==
  ASSUME TInv, stack # <<>>
  PROVE  /\ Top \in Frame
         /\ Top = stack[Len(stack)]
         /\ Len(stack) \in 1 .. Len(stack)
         /\ Top.op \in called
<1>1. Top \in Frame /\ Len(stack) \in 1 .. Len(stack)
  BY PopStack DEF TInv, TypeOK, Top
<1>2. QED
  BY <1>1 DEF TInv, Top

LEMMA TypeStep == TInv /\ [Next]_vars => TInv'
<1> SUFFICES ASSUME TInv, [Next]_vars PROVE TInv'
  OBVIOUS
<1>1. ASSUME NEW k \in Kind, NEW o \in Op, Enter(k, o) PROVE TInv'
  BY <1>1, EnterType
<1>2. CASE Report
  <2>1. Top.op \in called
    BY <1>2, TopIsFrame DEF Report
  <2>2. received' \subseteq called /\ astray' \subseteq called
    BY <1>2, <2>1 DEF Report, TInv, TypeOK
  <2>3. handler' = handler /\ stack' = stack /\ called' = called
    BY <1>2 DEF Report
  <2>4. QED
    BY <2>2, <2>3 DEF TInv, TypeOK
<1>3. CASE Leave
  <2>1. Restore(Top) \in Handler
    BY <1>3, TopIsFrame, RestoreIsHandler DEF Leave, TInv, TypeOK
  <2>2. QED
    BY <1>3, <2>1, PopType DEF Leave
<1>4. CASE Raise
  BY <1>4, PopType DEF Raise, TInv, TypeOK
<1>5. CASE UNCHANGED vars
  BY <1>5 DEF vars, TInv, TypeOK
<1>6. QED
  BY <1>1, <1>2, <1>3, <1>4, <1>5 DEF Next, Returns

LEMMA TypeInit == Init => TInv
  BY DEF Init, TInv, TypeOK, Handler

\* Every variable keeps its type: noko__structured_error_func_save and its
\* callers only pass handlers around.
THEOREM TypeCorrect == Spec => []TypeOK
<1>1. TInv => TypeOK
  BY DEF TInv
<1>2. QED
  BY <1>1, TypeInit, TypeStep, PTL DEF Spec
-----------------------------------------------------------------------------
(* The handler of other code is never called.  It can be saved by the first  *)
(* operation only: an operation inside another finds what the extension set. *)

ForeignInv == /\ TInv
              /\ ForeignIsNeverCalled
              /\ \A i \in 2 .. Len(stack) : stack[i].saved # Foreign

LEMMA ForeignEnter ==
  ASSUME ForeignInv, NEW k \in Kind, NEW o \in Op, Enter(k, o)
  PROVE  ForeignIsNeverCalled' /\ \A i \in 2 .. Len(stack') : stack'[i].saved # Foreign
<1> DEFINE f == [op |-> o, kind |-> k, saved |-> handler]
<1>1. f \in Frame /\ f.saved = handler /\ stack \in Seq(Frame)
  BY DEF Frame, ForeignInv, TInv, TypeOK
<1>2. stack' = Append(stack, f) /\ handler' # Foreign
  BY OwnIsHandler DEF Enter
<1>3. ASSUME NEW i \in 2 .. Len(stack') PROVE stack'[i].saved # Foreign
  <2>1. CASE i = Len(stack) + 1
    <3>1. stack'[i] = f /\ Len(stack) \in Nat \ {0}
      BY <1>1, <1>2, <2>1, PushStack
    <3>2. stack # <<>>
      BY <3>1
    <3>3. QED
      BY <1>1, <3>1, <3>2 DEF ForeignInv, ForeignIsNeverCalled
  <2>2. CASE i # Len(stack) + 1
    <3>1. i \in 2 .. Len(stack) /\ stack'[i] = stack[i]
      BY <1>1, <1>2, <2>2, PushStack
    <3>2. QED
      BY <3>1 DEF ForeignInv
  <2>3. QED
    BY <2>1, <2>2
<1>4. QED
  BY <1>2, <1>3 DEF ForeignIsNeverCalled

LEMMA ForeignPop ==
  ASSUME ForeignInv, stack # <<>>, stack' = Pop,
         handler' \in {handler, NULL, Top.saved}
  PROVE  ForeignIsNeverCalled' /\ \A i \in 2 .. Len(stack') : stack'[i].saved # Foreign
<1>1. /\ stack \in Seq(Frame)
      /\ Len(stack) \in Nat \ {0}
      /\ Len(stack') = Len(stack) - 1
      /\ \A i \in 1 .. Len(stack) - 1 : stack'[i] = stack[i]
  BY PopStack DEF ForeignInv, TInv, TypeOK, Pop
<1>2. \A i \in 2 .. Len(stack') : stack'[i].saved # Foreign
  BY <1>1 DEF ForeignInv
<1>3. ASSUME stack' # <<>> PROVE handler' # Foreign
  <2>1. stack' \in Seq(Frame)
    BY PopStack DEF Pop, ForeignInv, TInv, TypeOK
  <2>2. Len(stack) \in 2 .. Len(stack)
    BY <1>1, <1>3, <2>1
  <2>3. Top.saved # Foreign
    BY <2>2 DEF Top, ForeignInv
  <2>4. handler # Foreign
    BY DEF ForeignInv, ForeignIsNeverCalled
  <2>5. QED
    BY <2>3, <2>4, HandlersDiffer
<1>4. QED
  BY <1>2, <1>3 DEF ForeignIsNeverCalled

LEMMA ForeignStep == ForeignInv /\ [Next]_vars => ForeignInv'
<1> SUFFICES ASSUME ForeignInv, [Next]_vars PROVE ForeignInv'
  OBVIOUS
<1>1. TInv'
  BY TypeStep DEF ForeignInv
<1>2. ASSUME NEW k \in Kind, NEW o \in Op, Enter(k, o) PROVE ForeignInv'
  BY <1>1, <1>2, ForeignEnter DEF ForeignInv
<1>3. CASE Leave
  <2>1. Top.kind.after \in {"restored", "reset", "left"}
    BY <1>3, TopIsFrame, KindOfOperation DEF Leave, Frame, ForeignInv
  <2>2. Restore(Top) \in {handler, NULL, Top.saved}
    BY <2>1 DEF Restore
  <2>3. QED
    BY <1>1, <1>3, <2>2, ForeignPop DEF Leave, ForeignInv
<1>4. CASE Raise
  BY <1>1, <1>4, ForeignPop DEF Raise, ForeignInv
<1>5. CASE Report \/ UNCHANGED vars
  <2>1. handler' = handler /\ stack' = stack
    BY <1>5 DEF Report, vars
  <2>2. QED
    BY <1>1, <2>1 DEF ForeignInv, ForeignIsNeverCalled
<1>6. QED
  BY <1>2, <1>3, <1>4, <1>5 DEF Next, Returns

\* However operations nest and whatever exceptions pass through them, the
\* handler of other code is never the one in place while an operation runs.
THEOREM ForeignNeverCalled == Spec => []ForeignIsNeverCalled
<1>1. Init => ForeignInv
  BY TypeInit DEF ForeignInv, Init, ForeignIsNeverCalled
<1>2. ForeignInv => ForeignIsNeverCalled
  BY DEF ForeignInv
<1>3. QED
  BY <1>1, <1>2, ForeignStep, PTL DEF Spec

-----------------------------------------------------------------------------
(* Without exceptions the handler belongs to an operation under way.  The    *)
(* array in place, and every array saved, is the one of a frame that is      *)
(* popped no earlier; the frame is of an operation that installs its array.  *)

\* frame i is of an operation that collects its errors in the array h
Collects(i, h) == stack[i].op = h /\ stack[i].kind.sets = "array"

UnderWayInv ==
  /\ TInv
  /\ handler \in Op => \E i \in 1 .. Len(stack) : Collects(i, handler)
  /\ \A i \in 1 .. Len(stack) :
       stack[i].saved \in Op => \E j \in 1 .. i - 1 : Collects(j, stack[i].saved)

LEMMA UnderWayEnter ==
  ASSUME UnderWayInv, NEW k \in Kind, NEW o \in Op, Enter(k, o)
  PROVE  UnderWayInv'
<1> DEFINE f == [op |-> o, kind |-> k, saved |-> handler]
           n == Len(stack)
<1>1. f \in Frame /\ f.saved = handler /\ f.op = o /\ f.kind = k /\ stack \in Seq(Frame)
  BY DEF Frame, UnderWayInv, TInv, TypeOK
<1>2. /\ stack' = Append(stack, f)
      /\ handler' = Own(k, o)
      /\ n \in Nat
      /\ Len(stack') = n + 1
      /\ stack'[n + 1] = f
      /\ \A i \in 1 .. n : stack'[i] = stack[i]
  BY <1>1, PushStack DEF Enter, Install
<1>3. TInv'
  BY EnterType DEF UnderWayInv
<1> HIDE DEF f, n
<1>4. ASSUME handler' \in Op
      PROVE  \E i \in 1 .. Len(stack') : (stack'[i].op = handler'
                                         /\ stack'[i].kind.sets = "array")
  <2>1. k.sets = "array" /\ handler' = o
    BY <1>2, <1>4, KindOfOperation, HandlersDiffer DEF Own
  <2>2. n + 1 \in 1 .. Len(stack')
    BY <1>2
  <2>3. QED
    BY <1>1, <1>2, <2>1, <2>2
<1>5. ASSUME NEW i \in 1 .. Len(stack'), stack'[i].saved \in Op
      PROVE  \E j \in 1 .. i - 1 : (stack'[j].op = stack'[i].saved
                                    /\ stack'[j].kind.sets = "array")
  <2>1. CASE i = n + 1
    <3>1. PICK j \in 1 .. n : Collects(j, handler)
      BY <1>1, <1>2, <1>5, <2>1 DEF UnderWayInv, n
    <3>2. QED
      BY <1>1, <1>2, <2>1, <3>1 DEF Collects
  <2>2. CASE i # n + 1
    <3>1. i \in 1 .. n /\ stack'[i] = stack[i]
      BY <1>2, <2>2
    <3>2. PICK j \in 1 .. i - 1 : Collects(j, stack[i].saved)
      BY <1>5, <3>1 DEF UnderWayInv, n
    <3>3. j \in 1 .. n /\ stack'[j] = stack[j]
      BY <1>2, <3>1
    <3>4. QED
      BY <3>1, <3>2, <3>3 DEF Collects
  <2>3. QED
    BY <2>1, <2>2
<1>6. QED
  BY <1>3, <1>4, <1>5 DEF UnderWayInv, Collects

LEMMA UnderWayLeave ==
  ASSUME UnderWayInv, Leave
  PROVE  UnderWayInv'
<1> DEFINE n == Len(stack)
<1>1. /\ stack \in Seq(Frame)
      /\ n \in Nat \ {0}
      /\ Len(stack') = n - 1
      /\ \A i \in 1 .. n - 1 : stack'[i] = stack[i]
  BY PopStack DEF UnderWayInv, TInv, TypeOK, Pop, Leave
<1>2. Top = stack[n] /\ n \in 1 .. n
  BY <1>1 DEF Top
<1>3. TInv'
  BY TypeStep DEF UnderWayInv, Next, Returns
<1> HIDE DEF n
<1>4. ASSUME NEW i \in 1 .. n - 1, NEW j \in 1 .. i - 1, NEW h, Collects(j, h)
      PROVE  stack'[j].op = h /\ stack'[j].kind.sets = "array"
  <2>1. j \in 1 .. n - 1
    BY <1>1
  <2>2. QED
    BY <1>1, <1>4, <2>1 DEF Collects
<1>5. ASSUME handler' \in Op
      PROVE  \E i \in 1 .. n - 1 : Collects(i, handler')
  <2>1. handler' = Restore(stack[n])
    BY <1>2 DEF Leave
  <2>2. CASE stack[n].kind.after = "restored"
    <3>1. handler' = stack[n].saved
      BY <2>1, <2>2 DEF Restore
    <3>2. QED
      BY <1>2, <1>5, <3>1 DEF UnderWayInv, n
  <2>3. CASE stack[n].kind.after # "restored"
    <3>0. stack[n].kind \in Kind
      <4>1. stack[n] \in Frame
        BY <1>1, <1>2 DEF n
      <4>2. QED
        BY <4>1 DEF Frame
    <3>1. stack[n].kind.sets # "array" /\ handler' = handler
      <4>1. stack[n].kind.after \in {"reset", "left"}
        BY <2>3, <3>0, KindOfOperation
      <4>2. stack[n].kind.after = "left" /\ handler' = handler
        BY <1>5, <2>1, <4>1, HandlersDiffer DEF Restore
      <4>3. QED
        BY <3>0, <4>2, KindOfOperation
    <3>2. PICK i \in 1 .. n : Collects(i, handler)
      BY <1>5, <3>1 DEF UnderWayInv, n
    <3>3. i # n
      BY <2>3, <3>1, <3>2 DEF Collects
    <3>4. QED
      BY <1>1, <3>1, <3>2, <3>3
  <2>4. QED
    BY <2>2, <2>3
<1>6. handler' \in Op => \E i \in 1 .. Len(stack') : Collects(i, handler)'
  <2>1. SUFFICES ASSUME handler' \in Op
                 PROVE  \E i \in 1 .. n - 1 : Collects(i, handler)'
    BY <1>1
  <2>2. PICK i \in 1 .. n - 1 : Collects(i, handler')
    BY <1>5, <2>1
  <2>3. stack'[i] = stack[i]
    BY <1>1
  <2>4. QED
    BY <2>2, <2>3 DEF Collects
<1>7. ASSUME NEW i \in 1 .. Len(stack'), stack'[i].saved \in Op
      PROVE  \E j \in 1 .. i - 1 : (stack'[j].op = stack'[i].saved
                                    /\ stack'[j].kind.sets = "array")
  <2>1. i \in 1 .. n - 1 /\ i \in 1 .. n /\ stack'[i] = stack[i]
    BY <1>1
  <2>2. PICK j \in 1 .. i - 1 : Collects(j, stack[i].saved)
    BY <1>7, <2>1 DEF UnderWayInv, n
  <2>3. QED
    BY <1>4, <2>1, <2>2
<1>8. QED
  BY <1>3, <1>6, <1>7 DEF UnderWayInv, Collects

LEMMA UnderWayStep == UnderWayInv /\ [Returns]_vars => UnderWayInv'
<1> SUFFICES ASSUME UnderWayInv, [Returns]_vars PROVE UnderWayInv'
  OBVIOUS
<1>1. ASSUME NEW k \in Kind, NEW o \in Op, Enter(k, o) PROVE UnderWayInv'
  BY <1>1, UnderWayEnter
<1>2. CASE Leave
  BY <1>2, UnderWayLeave
<1>3. CASE Report \/ UNCHANGED vars
  <2>1. handler' = handler /\ stack' = stack
    BY <1>3 DEF Report, vars
  <2>2. TInv'
    BY TypeStep DEF UnderWayInv, Next
  <2>3. QED
    BY <2>1, <2>2 DEF UnderWayInv, Collects
<1>4. QED
  BY <1>1, <1>2, <1>3 DEF Returns

\* If no exception passes through an operation, libxml2 never holds on to the
\* error array of an operation that has returned.
THEOREM HandlerUnderWay == SpecReturns => []HandlerIsUnderWay
<1>1. Init => UnderWayInv
  <2>1. Init => stack = <<>> /\ handler \notin Op
    BY HandlersDiffer DEF Init
  <2>2. QED
    BY <2>1, TypeInit DEF UnderWayInv
<1>2. UnderWayInv => HandlerIsUnderWay
  BY DEF UnderWayInv, HandlerIsUnderWay, Collects, TInv, TypeOK
<1>3. QED
  BY <1>1, <1>2, UnderWayStep, PTL DEF SpecReturns
-----------------------------------------------------------------------------
(* Operations that restore what they found.  The handler in place is the one *)
(* of the innermost operation, and each operation saved the one of the       *)
(* operation around it.                                                      *)

OwnOf(i) == Own(stack[i].kind, stack[i].op)

NestedInv ==
  /\ TInv
  /\ stack # <<>> => handler = OwnOf(Len(stack))
  /\ \A i \in 1 .. Len(stack) : stack[i].kind \in Restorers
  /\ \A i \in 2 .. Len(stack) : stack[i].saved = OwnOf(i - 1)
  /\ astray = {}

LEMMA NestedEnter ==
  ASSUME NestedInv, NEW k \in Restorers, NEW o \in Op, Enter(k, o)
  PROVE  NestedInv'
<1> DEFINE f == [op |-> o, kind |-> k, saved |-> handler]
           n == Len(stack)
<1>1. f \in Frame /\ f.saved = handler /\ f.op = o /\ f.kind = k /\ stack \in Seq(Frame)
  BY DEF Frame, NestedInv, TInv, TypeOK, Restorers
<1>2. /\ stack' = Append(stack, f)
      /\ handler' = Own(k, o)
      /\ n \in Nat
      /\ Len(stack') = n + 1
      /\ stack'[n + 1] = f
      /\ \A i \in 1 .. n : stack'[i] = stack[i]
      /\ astray' = astray
  BY <1>1, PushStack DEF Enter, Install
<1>3. TInv'
  BY EnterType DEF NestedInv, Restorers
<1>4. n # 0 => handler = OwnOf(n)
  BY DEF NestedInv
<1> HIDE DEF f, n
<1>5. handler' = Own(stack'[Len(stack')].kind, stack'[Len(stack')].op)
  BY <1>1, <1>2
<1>6. ASSUME NEW i \in 1 .. Len(stack')
      PROVE  /\ stack'[i].kind \in Restorers
             /\ i # 1 => stack'[i].saved = Own(stack'[i - 1].kind, stack'[i - 1].op)
  <2>1. CASE i = n + 1
    <3>1. stack'[i].kind \in Restorers
      BY <1>1, <1>2, <2>1
    <3>2. ASSUME i # 1 PROVE stack'[i].saved = Own(stack'[i - 1].kind, stack'[i - 1].op)
      <4>1. i - 1 = n /\ n \in 1 .. n /\ n # 0
        BY <1>2, <2>1, <3>2
      <4>2. stack'[i - 1] = stack[n] /\ stack'[i].saved = handler
        BY <1>1, <1>2, <2>1, <4>1
      <4>3. QED
        BY <1>4, <4>1, <4>2 DEF OwnOf
    <3>3. QED
      BY <3>1, <3>2
  <2>2. CASE i # n + 1
    <3>1. i \in 1 .. n /\ stack'[i] = stack[i]
      BY <1>2, <2>2
    <3>2. i # 1 => i - 1 \in 1 .. n /\ i \in 2 .. n /\ stack'[i - 1] = stack[i - 1]
      BY <1>2, <3>1
    <3>3. QED
      BY <3>1, <3>2 DEF NestedInv, OwnOf, n
  <2>3. QED
    BY <2>1, <2>2
<1>7. QED
  BY <1>2, <1>3, <1>5, <1>6 DEF NestedInv, OwnOf

LEMMA NestedLeave ==
  ASSUME NestedInv, Leave
  PROVE  NestedInv'
<1> DEFINE n == Len(stack)
<1>1. /\ stack \in Seq(Frame)
      /\ n \in Nat \ {0}
      /\ stack' \in Seq(Frame)
      /\ Len(stack') = n - 1
      /\ \A i \in 1 .. n - 1 : stack'[i] = stack[i]
  BY PopStack DEF NestedInv, TInv, TypeOK, Pop, Leave
<1>2. Top = stack[n] /\ n \in 1 .. n
  BY <1>1 DEF Top
<1>3. TInv'
  BY TypeStep DEF NestedInv, Next, Returns
<1>4. handler' = stack[n].saved
  BY <1>2 DEF NestedInv, Restorers, Leave, Restore
<1>5. n # 1 => stack[n].saved = OwnOf(n - 1)
  BY <1>1 DEF NestedInv
<1> HIDE DEF n
<1>6. ASSUME stack' # <<>>
      PROVE  handler' = Own(stack'[Len(stack')].kind, stack'[Len(stack')].op)
  <2>1. n # 1 /\ Len(stack') = n - 1
    BY <1>1, <1>6
  <2>2. n - 1 \in 1 .. n - 1
    BY <1>1, <2>1
  <2>3. stack'[n - 1] = stack[n - 1]
    BY <1>1, <2>2
  <2>4. QED
    BY <1>4, <1>5, <2>1, <2>3 DEF OwnOf
<1>7. ASSUME NEW i \in 1 .. Len(stack')
      PROVE  /\ stack'[i].kind \in Restorers
             /\ i # 1 => stack'[i].saved = Own(stack'[i - 1].kind, stack'[i - 1].op)
  <2>1. i \in 1 .. n /\ i \in 1 .. n - 1 /\ stack'[i] = stack[i]
    BY <1>1
  <2>2. i # 1 => i \in 2 .. n /\ i - 1 \in 1 .. n - 1 /\ stack'[i - 1] = stack[i - 1]
    BY <1>1, <2>1
  <2>3. QED
    BY <2>1, <2>2 DEF NestedInv, OwnOf, n
<1>8. astray' = {}
  BY DEF NestedInv, Leave
<1>9. QED
  BY <1>3, <1>6, <1>7, <1>8 DEF NestedInv, OwnOf

\* An error arrives where the innermost operation collects its errors.
LEMMA NestedReport ==
  ASSUME NestedInv, Report
  PROVE  received' = received \cup {Top.op} /\ astray' = astray
  BY DEF NestedInv, Report, Top, OwnOf

LEMMA NestedStep == NestedInv /\ [Restoring]_vars => NestedInv'
<1> SUFFICES ASSUME NestedInv, [Restoring]_vars PROVE NestedInv'
  OBVIOUS
<1>1. ASSUME NEW k \in Restorers, NEW o \in Op, Enter(k, o) PROVE NestedInv'
  BY <1>1, NestedEnter
<1>2. CASE Leave
  BY <1>2, NestedLeave
<1>3. CASE Report \/ UNCHANGED vars
  <2>1. handler' = handler /\ stack' = stack
    BY <1>3 DEF Report, vars
  <2>2. TInv'
    BY <1>3, TypeStep DEF NestedInv, Next, Returns
  <2>3. astray' = astray
    BY <1>3, NestedReport DEF vars
  <2>4. QED
    BY <2>1, <2>2, <2>3 DEF NestedInv, OwnOf
<1>4. QED
  BY <1>1, <1>2, <1>3 DEF Restoring, Restorers

\* The calls under way are a sequence of calls.
LEMMA CallsAreOps ==
  ASSUME stack \in Seq(Frame)
  PROVE  /\ Len(stack) \in Nat
         /\ Calls \in Seq(Op)
         /\ Len(Calls) = Len(stack)
         /\ \A i \in 1 .. Len(stack) : Calls[i] = stack[i].op
<1>1. Len(stack) \in Nat /\ DOMAIN stack = 1 .. Len(stack)
  OBVIOUS
<1>2. \A i \in 1 .. Len(stack) : stack[i].op \in Op
  <2>1. \A i \in 1 .. Len(stack) : stack[i] \in Frame
    OBVIOUS
  <2>2. \A f \in Frame : f.op \in Op
    BY DEF Frame
  <2>3. QED
    BY <2>1, <2>2
<1>3. Calls = [i \in 1 .. Len(stack) |-> stack[i].op]
  BY <1>1 DEF Calls
<1>4. [i \in 1 .. Len(stack) |-> stack[i].op] \in Seq(Op)
  BY <1>1, <1>2
<1>5. Len([i \in 1 .. Len(stack) |-> stack[i].op]) = Len(stack)
  BY <1>1
<1>6. QED
  BY <1>1, <1>3, <1>4, <1>5

\* The calls under way after a call, and after a return.
LEMMA CallsOfPush ==
  ASSUME TInv, NEW f \in Frame, stack' = Append(stack, f)
  PROVE  Calls' = Append(Calls, f.op)
<1>1. stack \in Seq(Frame) /\ Len(stack) \in Nat
  BY DEF TInv, TypeOK
<1>2. Len(stack') = Len(stack) + 1 /\ DOMAIN stack' = 1 .. Len(stack) + 1
  BY <1>1, PushStack
<1>3. Calls \in Seq(Op) /\ Len(Calls) = Len(stack)
  BY <1>1, CallsAreOps
<1>4. f.op \in Op
  BY DEF Frame
<1>5. Append(Calls, f.op) = [i \in 1 .. Len(stack) + 1 |->
                               IF i = Len(stack) + 1 THEN f.op ELSE Calls[i]]
  BY <1>1, <1>3, <1>4
<1>6. ASSUME NEW i \in 1 .. Len(stack) + 1
      PROVE  stack'[i].op = IF i = Len(stack) + 1 THEN f.op ELSE Calls[i]
  <2>1. CASE i = Len(stack) + 1
    BY <1>1, <2>1, PushStack
  <2>2. CASE i # Len(stack) + 1
    <3>1. i \in 1 .. Len(stack) /\ stack'[i] = stack[i]
      BY <1>1, <2>2, PushStack
    <3>2. QED
      BY <1>1, <2>2, <3>1 DEF Calls
  <2>3. QED
    BY <2>1, <2>2
<1>7. QED
  BY <1>2, <1>5, <1>6 DEF Calls

LEMMA CallsOfPop ==
  ASSUME TInv, stack # <<>>, stack' = Pop
  PROVE  /\ Calls # <<>>
         /\ Calls[Len(Calls)] = Top.op
         /\ Calls' = SubSeq(Calls, 1, Len(Calls) - 1)
<1>1. stack \in Seq(Frame) /\ Len(stack) \in Nat \ {0}
  BY PopStack DEF TInv, TypeOK
<1>2. /\ stack' \in Seq(Frame)
      /\ Len(stack') = Len(stack) - 1
      /\ DOMAIN stack' = 1 .. Len(stack) - 1
      /\ \A i \in 1 .. Len(stack) - 1 : stack'[i] = stack[i]
  BY <1>1, PopStack DEF Pop
<1>3. /\ Calls \in Seq(Op)
      /\ Len(Calls) = Len(stack)
      /\ \A i \in 1 .. Len(stack) : Calls[i] = stack[i].op
  BY <1>1, CallsAreOps
<1>4. Calls # <<>> /\ Calls[Len(Calls)] = Top.op
  BY <1>1, <1>3 DEF Top
<1>5. /\ SubSeq(Calls, 1, Len(Calls) - 1) \in Seq(Op)
      /\ Len(SubSeq(Calls, 1, Len(Calls) - 1)) = Len(stack) - 1
      /\ \A i \in 1 .. Len(stack) - 1 : SubSeq(Calls, 1, Len(Calls) - 1)[i] = stack[i].op
  BY <1>1, <1>3, <1>4, PopStack
<1>6. Calls' = [i \in 1 .. Len(stack) - 1 |-> stack[i].op]
  BY <1>2 DEF Calls
<1>7. SubSeq(Calls, 1, Len(Calls) - 1) = [i \in 1 .. Len(stack) - 1 |-> stack[i].op]
  <2> DEFINE c == SubSeq(Calls, 1, Len(Calls) - 1)
             m == Len(stack) - 1
  <2>1. c \in Seq(Op) /\ Len(c) = m /\ \A i \in 1 .. m : c[i] = stack[i].op
    BY <1>5
  <2> HIDE DEF c, m
  <2>2. c = [i \in 1 .. m |-> c[i]]
    BY <2>1
  <2>3. c = [i \in 1 .. m |-> stack[i].op]
    BY <2>1, <2>2
  <2>4. QED
    BY <2>3 DEF c, m
<1>8. QED
  BY <1>4, <1>6, <1>7

\* A program that nests operations that restore what they found, in any way
\* and to any depth, loses no error.
THEOREM RestoringReports == SpecRestoring => ReportingSpec
<1>1. Init => NestedInv
  <2>1. Init => stack = <<>> /\ astray = {}
    BY DEF Init
  <2>2. QED
    BY <2>1, TypeInit DEF NestedInv
<1>2. Init => Reporting!Init
  BY DEF Init, Reporting!Init, Calls
<1>3. NestedInv /\ [Restoring]_vars => [Reporting!Next]_(Reporting!vars)
  <2> SUFFICES ASSUME NestedInv, [Restoring]_vars PROVE [Reporting!Next]_(Reporting!vars)
    OBVIOUS
  <2>1. ASSUME NEW k \in Restorers, NEW o \in Op, Enter(k, o) PROVE Reporting!Enter(o)
    <3>1. [op |-> o, kind |-> k, saved |-> handler] \in Frame
      BY DEF Frame, Restorers, NestedInv, TInv, TypeOK
    <3>2. Calls' = Append(Calls, o)
      BY <2>1, <3>1, CallsOfPush DEF Enter, NestedInv
    <3>3. QED
      BY <2>1, <3>2 DEF Enter, Reporting!Enter
  <2>2. CASE Leave
    BY <2>2, CallsOfPop DEF Leave, NestedInv, Reporting!Next, Reporting!Leave
  <2>3. CASE Report
    <3>1. Calls # <<>> /\ Calls[Len(Calls)] = Top.op
      <4>1. stack \in Seq(Frame) /\ stack # <<>> /\ Len(stack) \in Nat \ {0}
        BY <2>3, PopStack DEF NestedInv, TInv, TypeOK, Report
      <4>2. Len(Calls) = Len(stack) /\ \A i \in 1 .. Len(stack) : Calls[i] = stack[i].op
        BY <4>1 DEF Calls
      <4>3. QED
        BY <4>1, <4>2 DEF Top
    <3>2. Calls' = Calls
      BY <2>3 DEF Report, Calls
    <3>3. QED
      BY <2>3, <3>1, <3>2, NestedReport DEF Reporting!Next, Reporting!Report
  <2>4. CASE UNCHANGED vars
    BY <2>4 DEF vars, Reporting!vars, Calls
  <2>5. QED
    BY <2>1, <2>2, <2>3, <2>4 DEF Restoring, Restorers, Reporting!Next
<1>4. QED
  BY <1>1, <1>2, <1>3, NestedStep, PTL DEF SpecRestoring, ReportingSpec, Reporting!Spec
=============================================================================
