---------------------------- MODULE ErrorHandlers ----------------------------
(***************************************************************************)
(* The structured error handler of libxml2, which the extension swaps      *)
(* around every call that may report errors.                               *)
(*                                                                         *)
(* There is one handler per thread.  An operation points it at the Ruby    *)
(* array it collects its errors in (noko__error_array_pusher) and puts it  *)
(* back in one of several ways: it restores what it found, it resets to    *)
(* NULL, or it leaves NULL behind.  Operations nest, because libxml2 calls *)
(* back into Ruby (IO#read, SAX handlers, XPath functions) and Ruby may    *)
(* parse again there; and a Ruby exception that passes through an          *)
(* operation skips whatever it does at its end.                            *)
(*                                                                         *)
(* A handler is NULL, the one of another user of libxml2 in the process,   *)
(* or the array of an operation, which is named by the call that made it.  *)
(***************************************************************************)
EXTENDS Naturals, Sequences

CONSTANTS Op,        \* calls of the operations, each made at most once
          NULL,
          Foreign    \* the handler that other code has installed

ASSUME HandlersDiffer == NULL \notin Op /\ Foreign \notin Op /\ NULL # Foreign

(* What an operation does with the handler, and what libxml2 does while it *)
(* is set:                                                                 *)
(*   sets    the handler it installs: its array, or nothing, since libxml2 *)
(*           calls the SAX error callback only without a structured handler *)
(*   after   what it leaves when it returns: the handler it found, NULL     *)
(*           ("reset"), or what it installed ("left")                       *)
(*   ruby    libxml2 calls Ruby code: IO#read, a SAX or an XPath handler    *)
(*   raises  a Ruby exception can pass through it: from that Ruby code, or  *)
(*           from the conversion of an argument                             *)
noko_xml_document_s_read_io ==
  [sets |-> "array", after |-> "restored", ruby |-> TRUE, raises |-> TRUE]
noko_xml_document_s_read_memory ==
  [sets |-> "array", after |-> "reset", ruby |-> FALSE, raises |-> TRUE]
noko_xml_document__create_entity ==
  [sets |-> "array", after |-> "restored", ruby |-> FALSE, raises |-> TRUE]
rb_html_document_s_read_io ==
  [sets |-> "array", after |-> "reset", ruby |-> TRUE, raises |-> TRUE]
rb_html_document_s_read_memory ==
  [sets |-> "array", after |-> "reset", ruby |-> FALSE, raises |-> FALSE]
process_xinclude_subtree ==
  [sets |-> "array", after |-> "restored", ruby |-> FALSE, raises |-> FALSE]
in_context ==
  [sets |-> "array", after |-> "reset", ruby |-> FALSE, raises |-> TRUE]
rb_xml_reader_namespaces ==
  [sets |-> "array", after |-> "restored", ruby |-> TRUE, raises |-> TRUE]
rb_xml_reader_attribute_hash ==
  [sets |-> "array", after |-> "restored", ruby |-> TRUE, raises |-> TRUE]
read_more ==
  [sets |-> "array", after |-> "restored", ruby |-> TRUE, raises |-> TRUE]
inner_xml ==
  [sets |-> "array", after |-> "restored", ruby |-> TRUE, raises |-> TRUE]
outer_xml ==
  [sets |-> "array", after |-> "restored", ruby |-> TRUE, raises |-> TRUE]
relax_ng_parse_schema ==
  [sets |-> "array", after |-> "restored", ruby |-> FALSE, raises |-> FALSE]
xml_schema_parse_schema ==
  [sets |-> "array", after |-> "restored", ruby |-> FALSE, raises |-> FALSE]
set_encoding ==
  [sets |-> "array", after |-> "restored", ruby |-> FALSE, raises |-> FALSE]
xml_parse_with ==
  [sets |-> "nothing", after |-> "left", ruby |-> TRUE, raises |-> TRUE]
html4_parse_with ==
  [sets |-> "nothing", after |-> "left", ruby |-> TRUE, raises |-> TRUE]
xml_native_write ==
  [sets |-> "nothing", after |-> "left", ruby |-> TRUE, raises |-> TRUE]
html4_native_write ==
  [sets |-> "nothing", after |-> "restored", ruby |-> TRUE, raises |-> TRUE]
noko_xml_xpath_context_evaluate ==
  [sets |-> "array", after |-> "reset", ruby |-> TRUE, raises |-> TRUE]
validate ==
  [sets |-> "array", after |-> "reset", ruby |-> FALSE, raises |-> FALSE]

Kind == {noko_xml_document_s_read_io,
         noko_xml_document_s_read_memory,
         noko_xml_document__create_entity,
         rb_html_document_s_read_io,
         rb_html_document_s_read_memory,
         process_xinclude_subtree,
         in_context,
         rb_xml_reader_namespaces,
         rb_xml_reader_attribute_hash,
         read_more,
         inner_xml,
         outer_xml,
         relax_ng_parse_schema,
         xml_schema_parse_schema,
         set_encoding,
         xml_parse_with,
         html4_parse_with,
         xml_native_write,
         html4_native_write,
         noko_xml_xpath_context_evaluate,
         validate}

Handler == Op \cup {NULL, Foreign}

VARIABLES handler,   \* xmlStructuredError and its user data
          stack,     \* the operations under way, the innermost last
          called,    \* the calls made so far
          received,  \* history: the calls that had an error and received it
          astray     \* history: the calls that had an error which went elsewhere

vars == <<handler, stack, called, received, astray>>

Frame == [op : Op, kind : Kind, saved : Handler]

\* where the errors of call o of an operation of kind k are to go
Own(k, o) == IF k.sets = "nothing" THEN NULL ELSE o

\* mutant: an operation that resets keeps the handler of other code
Deferring(k, o) == IF k.after = "reset" /\ handler = Foreign THEN Foreign ELSE Own(k, o)

\* mutant: an operation passes something else than its array
NoArray(k, o) == k

\* the handler that an operation installs
Install(k, o) == Own(k, o)

\* mutant: no operation restores
NeverRestores(f) == IF f.kind.after = "left" THEN handler ELSE NULL

\* mutant: an operation leaves its own array behind
LeavesBehind(f) == handler

\* the handler that an operation leaves behind when it returns
Restore(f) == CASE f.kind.after = "restored" -> f.saved
                [] f.kind.after = "reset"    -> NULL
                [] f.kind.after = "left"     -> handler

Top == stack[Len(stack)]

Pop == SubSeq(stack, 1, Len(stack) - 1)

Enter(k, o) ==
  /\ stack # <<>> => Top.kind.ruby
  /\ o \notin called
  /\ called' = called \cup {o}
  /\ handler' = Install(k, o)
  /\ stack' = Append(stack, [op |-> o, kind |-> k, saved |-> handler])
  /\ UNCHANGED <<received, astray>>

\* libxml2 reports an error to the handler it finds
Report ==
  /\ stack # <<>>
  /\ IF handler = Own(Top.kind, Top.op)
       THEN received' = received \cup {Top.op} /\ astray' = astray
       ELSE astray' = astray \cup {Top.op} /\ received' = received
  /\ UNCHANGED <<handler, stack, called>>

Leave ==
  /\ stack # <<>>
  /\ handler' = Restore(Top)
  /\ stack' = Pop
  /\ UNCHANGED <<called, received, astray>>

\* an exception unwinds the innermost operation
Raise ==
  /\ stack # <<>>
  /\ Top.kind.raises
  /\ stack' = Pop
  /\ UNCHANGED <<handler, called, received, astray>>

Init == /\ handler \in {NULL, Foreign}
        /\ stack = <<>>
        /\ called = {}
        /\ received = {}
        /\ astray = {}

Returns == (\E k \in Kind, o \in Op : Enter(k, o)) \/ Report \/ Leave

Next == Returns \/ Raise

Spec == Init /\ [][Next]_vars

\* a program in which no exception passes through an operation
SpecReturns == Init /\ [][Returns]_vars

\* and which uses only the operations that restore what they found
Restorers == {k \in Kind : k.after = "restored"}

Restoring == (\E k \in Restorers, o \in Op : Enter(k, o)) \/ Report \/ Leave

SpecRestoring == Init /\ [][Restoring]_vars

-----------------------------------------------------------------------------
(* Properties.                                                             *)

TypeOK == /\ handler \in Handler
          /\ stack \in Seq(Frame)
          /\ called \subseteq Op
          /\ received \subseteq called
          /\ astray \subseteq called

\* No error of an operation reaches the handler of other code, however the
\* operations nest and whatever exceptions pass through them (test/helper.rb
\* installs such a handler around every test).
ForeignIsNeverCalled == stack # <<>> => handler # Foreign

\* Without exceptions the handler is never left pointing at the array of an
\* operation that has returned, which the collector may free: the next error
\* would be pushed onto it.
HandlerIsUnderWay ==
  handler \in Op => \E i \in DOMAIN stack : stack[i].op = handler

\* The calls of a program of restoring operations promise ErrorReporting.
Calls == [i \in DOMAIN stack |-> stack[i].op]

Reporting == INSTANCE ErrorReporting WITH running <- Calls

ReportingSpec == Reporting!Spec
=============================================================================
