---------------------------- MODULE GumboFormatting ----------------------------
(***************************************************************************)
(* The list of active formatting elements of the HTML5 parser and the      *)
(* adoption agency algorithm, which moves misnested formatting elements    *)
(* in the list, in the stack of open elements and in the tree at once      *)
(* (gumbo-parser/src/parser.c).  A marker of the list is Marker.           *)
(***************************************************************************)
EXTENDS GumboTree

Marker == 0

SinceMarker(p) == LastWhere(p.active, LAMBDA n : n = Marker) + 1 .. Len(p.active)

Alike(p, m, n) == TagOf(p, m) = TagOf(p, n) /\ p.node[m].attrs = p.node[n].attrs

(* Noah's Ark: of four identical elements the earliest leaves the list.    *)
\* mutant: four of a kind may stay.
AddFourOfAKind(p, n) ==
  LET same  == {i \in SinceMarker(p) : n # Marker /\ Alike(p, p.active[i], n)}
      first == CHOOSE i \in same : \A j \in same : i <= j
  IN [p EXCEPT !.active = Append(IF Cardinality(same) > 3 THEN RemoveAt(@, first) ELSE @, n)]

add_formatting_element(p, n) ==
  LET same  == {i \in SinceMarker(p) : n # Marker /\ Alike(p, p.active[i], n)}
      first == CHOOSE i \in same : \A j \in same : i <= j
      kept  == IF Cardinality(same) >= 3 THEN RemoveAt(p.active, first) ELSE p.active
  IN [p EXCEPT !.active = Append(kept, n)]

AddMarker(p) == add_formatting_element(p, Marker)

\* mutant: the list is cleared up to its first marker.
ClearToFirstMarker(p) == [p EXCEPT !.active = SubSeq(@, 1, Position(@, Marker) - 1)]

clear_active_formatting_elements(p) ==
  [p EXCEPT !.active = SubSeq(@, 1, LastWhere(@, LAMBDA n : n = Marker) - 1)]

find_last_anchor_index(p) ==
  LET at == LastWhere(p.active, LAMBDA n : n = Marker \/ NodeIs(p, n, "a"))
  IN IF at # 0 /\ p.active[at] # Marker THEN at ELSE 0

clone_node(p, n) ==
  LET e == p.node[n] IN create_node(p, e.kind, e.ns, e.tag, e.attrs)

(* The elements after the last one that is a marker or still open are      *)
(* cloned into the current node, each in the one before.                   *)
reconstruct_active_formatting_elements(p) ==
  LET last == LastWhere(p.active, LAMBDA n : n = Marker \/ Contains(p.open, n))
      Insert(q, i) == [insert_element(q, Newest(q), TRUE) EXCEPT !.active[i] = Newest(q)]
      Reopen(q, i) == Insert(clone_node(q, q.active[i]), i)
  IN FoldLeft(Reopen, p, [k \in 1..(Len(p.active) - last) |-> last + k])

-----------------------------------------------------------------------------
(* Ends the nearest element of the token's tag, unless a special element   *)
(* is in the way; the token may be the start tag of an "a" or a "nobr".    *)
PopThroughNode(p, n) == PopFrom(p, Position(p.open, n))

in_body_any_other_end_tag(p) ==
  LET at == LastWhere(p.open, LAMBDA n : NodeIs(p, n, p.tok.tag) \/ is_special_node(p, n))
  IN IF NodeIs(p, p.open[at], p.tok.tag)
     THEN PopThroughNode(generate_implied_end_tags(p, p.tok.tag), p.open[at]) ELSE ignore_token(p)

(* Steps 14.1 to 14.3: up the stack from w.node, or from where it was when *)
(* it left the stack; w.j counts the turns.                                *)
Up(w) ==
  LET at == (IF Contains(w.p.open, w.node) THEN Position(w.p.open, w.node) ELSE w.index) - 1
  IN [w EXCEPT !.index = at, !.node = w.p.open[at], !.j = @ + 1,
        !.p = Check(@, at > 1 /\ w.p.node[w.p.open[at]].parent # NULL, "node of step 14.3")]

(* Steps 14.6 to 14.11: the clone c replaces w.node and takes w.last.      *)
Nest(w, c, active, furthest) ==
  [w EXCEPT !.node = Newest(c), !.last = Newest(c),
     !.bookmark = IF w.last = furthest THEN active + 1 ELSE @,
     !.p = append_node(
             remove_from_parent([c EXCEPT !.active[active] = Newest(c), !.open[w.index] = Newest(c)], w.last),
             Newest(c), w.last)]

InnerTurn(w, formatting, furthest) ==
  LET active == Position(w.p.active, w.node) IN
  CASE w.node = formatting -> [w EXCEPT !.done = TRUE]
    [] w.node # formatting /\ w.j > 3 /\ active # 0 ->
         [w EXCEPT !.p.active = RemoveAt(@, active), !.bookmark = IF active < @ THEN @ - 1 ELSE @]
    [] w.node # formatting /\ active = 0 -> [w EXCEPT !.p.open = RemoveAt(@, w.index)]
    [] OTHER -> Nest(w, clone_node(w.p, w.node), active, furthest)

InnerLoop(w0, formatting, furthest) ==
  LET turn[k \in Nat] ==
        IF k = 0 THEN w0
        ELSE LET w == turn[k - 1] IN IF w.done THEN w ELSE InnerTurn(Up(w), formatting, furthest)
  IN turn[Len(w0.p.open)]

(* Steps 15 to 18: the newest node, a clone of the formatting element,     *)
(* takes the children of the furthest block and becomes its only child.    *)
\* mutant: the children of the furthest block are dropped.
TakeNothing(p, furthest) == append_node([p EXCEPT !.node[furthest].kids = <<>>], furthest, Newest(p))

TakeChildren(p, furthest) ==
  LET moved == p.node[furthest].kids
  IN append_node(
       Update(p, LAMBDA m :
         CASE m = Newest(p) -> [p.node[m] EXCEPT !.kids = moved]
           [] m = furthest -> [p.node[m] EXCEPT !.kids = <<>>]
           [] Contains(moved, m) -> [p.node[m] EXCEPT !.parent = Newest(p)]
           [] OTHER -> p.node[m]), furthest, Newest(p))

(* Steps 19 and 20: it replaces the formatting element in the list, at the *)
(* bookmark, and goes after the furthest block on the stack.               *)
Replace(p, formatting, furthest, bookmark) ==
  LET at   == Position(p.active, formatting)
      mark == IF at < bookmark THEN bookmark - 1 ELSE bookmark
      open == Drop(p.open, formatting)
  IN [Check(p, at # 0 /\ mark \in 1..Len(p.active), "bookmark of step 19")
        EXCEPT !.active = InsertAt(RemoveAt(@, at), mark, Newest(p)),
               !.open = InsertAt(open, Position(open, furthest) + 1, Newest(p))]

(* Steps 12 to 20, for a formatting element with a furthest block.         *)
Settle(w, ancestor, formatting, furthest) ==
  Replace(TakeChildren(clone_node(Place(remove_from_parent(w.p, w.last), w.last, ancestor), formatting), furthest),
          formatting, furthest, w.bookmark)

Adopt(p, formatting, furthest) ==
  Settle(InnerLoop([p |-> p, node |-> furthest, last |-> furthest, j |-> 0, done |-> FALSE,
                    index |-> Position(p.open, furthest),
                    bookmark |-> Position(p.active, formatting) + 1], formatting, furthest),
         p.open[Position(p.open, formatting) - 1], formatting, furthest)

(* One turn of the outer loop, steps 6 to 11.                              *)
OuterTurn(w) ==
  LET p    == w.p
      at   == LastWhere(p.active, LAMBDA n : n = Marker \/ NodeIs(p, n, p.tok.tag))
      none == at = 0 \/ p.active[at] = Marker
      formatting == p.active[at]
      depth == Position(p.open, formatting)
      block == SelectInSeq(SubSeq(p.open, depth, Len(p.open)), LAMBDA n : is_special_node(p, n))
      gone(q) == [q EXCEPT !.active = Drop(@, formatting)]
      end(q) == [p |-> q, done |-> TRUE]
  IN CASE none -> end(in_body_any_other_end_tag(p))
       [] ~none /\ depth = 0 -> end(gone(p))
       [] ~none /\ depth # 0 /\ ~has_an_element_in_scope(p, p.tok.tag) -> end(p)
       [] ~none /\ depth # 0 /\ has_an_element_in_scope(p, p.tok.tag) /\ block = 0 ->
            end(gone(PopFrom(p, depth)))
       [] OTHER -> [p |-> Adopt(Check(p, depth > 1, "step 10"), formatting, p.open[depth + block - 1]),
                    done |-> FALSE]

adoption_agency_algorithm(p) ==
  LET turn[k \in 0..8] ==
        IF k = 0 THEN [p |-> p, done |-> FALSE]
        ELSE LET w == turn[k - 1] IN IF w.done THEN w ELSE OuterTurn(w)
  IN IF CurrentIs(p, p.tok.tag) /\ ~Contains(p.active, get_current_node(p))
     THEN pop_current_node(p) ELSE turn[8].p

=============================================================================
