--------------------------------- MODULE List ---------------------------------
(***************************************************************************)
(* acul::list: nodes with a next and a prev pointer, a head and a last     *)
(* pointer per list, Null at both ends; end() is the null iterator.        *)
(*                                                                         *)
(* Two lists share the nodes, as a splice or a merge moves them.  A call   *)
(* is an operator on the record of all nodes and ends.  The calls that     *)
(* would follow a null pointer are not made (each guard says so), and two  *)
(* are not modelled: sort(), which loses the list's elements, and          *)
(* splice_after(pos, other), which does not compile.                       *)
(***************************************************************************)
EXTENDS NodeLists

VARIABLE lists

NoLists == [node |-> <<>>, head |-> [l \in Names |-> Null], last |-> [l \in Names |-> Null]]

-----------------------------------------------------------------------------
(* The nodes.                                                              *)

Add(m, i, v, nx, pv) == [m EXCEPT !.node = (i :> [v |-> v, nx |-> nx, pv |-> pv]) @@ @]

SetPrev(m, i, j) == IF i = Null THEN m ELSE [m EXCEPT !.node[i].pv = j]

PrevOf(m, i) == m.node[i].pv

-----------------------------------------------------------------------------
(* The ends.                                                               *)

PushFront(m, l, v) ==
  LET p == Fresh(m)
      h == m.head[l]
  IN [SetPrev(Add(m, p, v, h, Null), h, p) EXCEPT !.head[l] = p, !.last[l] = IF h = Null THEN p ELSE @]

PushBack(m, l, v) ==
  LET p == Fresh(m)
      t == m.last[l]
  IN [SetNext(Add(m, p, v, Null, t), t, p) EXCEPT !.last[l] = p, !.head[l] = IF t = Null THEN p ELSE @]

PopFront(m, l) ==
  LET h == m.head[l]
      n == NextOf(m, h)
  IN IF h = Null THEN m
     ELSE [Drop(SetPrev(m, n, Null), {h}) EXCEPT !.head[l] = n, !.last[l] = IF n = Null THEN Null ELSE @]

PopBack(m, l) ==
  LET t == m.last[l]
      p == PrevOf(m, t)
  IN IF t = Null THEN m
     ELSE [Drop(SetNext(m, p, Null), {t}) EXCEPT !.last[l] = p, !.head[l] = IF p = Null THEN Null ELSE @]

(* clear(), and what the destructor does.                                  *)
ClearList(m, l) ==
  [Drop(m, ToSet(NodesOf(m, l))) EXCEPT !.head[l] = Null, !.last[l] = Null]

PushAll(m, l, s) == FoldLeft(LAMBDA into, v : PushBack(into, l, v), m, s)

(* The constructors and assignments from a range, a list or a count.       *)
AssignRange(m, l, s) == PushAll(ClearList(m, l), l, s)

AssignCount(m, l, n, v) == PushAll(ClearList(m, l), l, Repeated(n, v))

CopyList(m, l, o) == AssignRange(m, l, Content(m, o))

MoveList(m, l, o) ==
  [ClearList(m, l) EXCEPT !.head[l] = m.head[o], !.last[l] = m.last[o], !.head[o] = Null, !.last[o] = Null]

SwapLists(m, l, o) ==
  [m EXCEPT !.head[l] = m.head[o], !.last[l] = m.last[o], !.head[o] = m.head[l], !.last[o] = m.last[l]]

(* resize: the node that becomes the last one is found from the head.      *)
Resize(m, l, n, v) ==
  LET nodes == NodesOf(m, l)
      cut == Drop(m, ToSet(After(nodes, n)))
  IN IF Len(nodes) < n THEN PushAll(m, l, Repeated(n - Len(nodes), v))
     ELSE IF n = 0 THEN [cut EXCEPT !.head[l] = Null, !.last[l] = Null]
     ELSE [SetNext(cut, nodes[n], Null) EXCEPT !.last[l] = nodes[n]]

-----------------------------------------------------------------------------
(* Insertion and removal.                                                  *)

InsertBetween(m, pos, v) ==
  LET p == Fresh(m)
      before == PrevOf(m, pos)
  IN SetPrev(SetNext(Add(m, p, v, pos, before), before, p), pos, p)

(* insert: before pos.  At the end of a list that is not empty it follows  *)
(* end() back, which is null.                                              *)
Insert(m, l, pos, v) == IF pos = m.head[l] THEN PushFront(m, l, v) ELSE InsertBetween(m, pos, v)

InsertRange(m, l, pos, s) == FoldLeft(LAMBDA into, v : Insert(into, l, pos, v), m, s)

(* Mutant: the node after the erased one keeps its prev pointer.           *)
UnlinkForward(m, i) == Drop(SetNext(m, PrevOf(m, i), NextOf(m, i)), {i})

Unlink(m, i) == Drop(SetPrev(SetNext(m, PrevOf(m, i), NextOf(m, i)), NextOf(m, i), PrevOf(m, i)), {i})

Erase(m, l, pos) ==
  IF pos = Null THEN m
  ELSE IF pos = m.head[l] THEN PopFront(m, l)
  ELSE IF pos = m.last[l] THEN PopBack(m, l)
  ELSE Unlink(m, pos)

EraseRange(m, l, first, last) == FoldLeft(LAMBDA into, i : Erase(into, l, i), m, Between(m, l, first, last))

(* remove and remove_if.                                                   *)
RemoveValue(m, l, v) ==
  FoldLeft(LAMBDA into, i : IF Value(m, i) = v THEN Erase(into, l, i) ELSE into, m, NodesOf(m, l))

RemoveIf(m, l, S) ==
  FoldLeft(LAMBDA into, i : IF Value(m, i) \in S THEN Erase(into, l, i) ELSE into, m, NodesOf(m, l))

(* unique: the walk stays at a node until its successor differs.           *)
RECURSIVE UniqueFrom(_, _, _)
UniqueFrom(m, l, i) ==
  LET n == NextOf(m, i)
      after == NextOf(m, n)
      cut == Drop(SetPrev(SetNext(m, i, after), after, i), {n})
  IN IF i = Null \/ n = Null THEN m
     ELSE IF Value(m, i) # Value(m, n) THEN UniqueFrom(m, l, n)
     ELSE UniqueFrom([cut EXCEPT !.last[l] = IF after = Null THEN i ELSE @], l, i)

Unique(m, l) == UniqueFrom(m, l, m.head[l])

-----------------------------------------------------------------------------
(* Relinking.                                                              *)

(* reverse: every node's pointers change places.  After the loop temp is   *)
(* the last node's old prev, and its new one leads to the new head.        *)
ReverseList(m, l) ==
  LET nodes == NodesOf(m, l)
      temp == IF nodes = <<>> THEN Null ELSE PrevOf(m, Last(nodes))
  IN [m EXCEPT !.node = [i \in DOMAIN @ |->
                           IF Contains(nodes, i) THEN [@[i] EXCEPT !.nx = PrevOf(m, i), !.pv = NextOf(m, i)] ELSE @[i]],
               !.last[l] = m.head[l],
               !.head[l] = IF temp = Null THEN @ ELSE NextOf(m, temp)]

(* merge of two runs: the order in which it takes the nodes, an element of *)
(* the right one first if the two are equal.                               *)
RECURSIVE MergedOrder(_, _, _)
MergedOrder(m, left, right) ==
  IF left = <<>> \/ right = <<>> THEN left \o right
  ELSE IF Value(m, left[1]) < Value(m, right[1]) THEN <<left[1]>> \o MergedOrder(m, Tail(left), right)
  ELSE <<right[1]>> \o MergedOrder(m, left, Tail(right))

(* Every node is linked to the one taken before it.                        *)
Chained(m, order) ==
  FoldLeft(LAMBDA into, j : SetPrev(SetNext(into, order[j], order[j + 1]), order[j + 1], order[j]),
           m, [j \in 1 .. Len(order) - 1 |-> j])

(* merge(list &).                                                          *)
MergeLists(m, l, o) ==
  LET order == MergedOrder(m, NodesOf(m, l), NodesOf(m, o))
  IN IF m.head[o] = Null THEN m
     ELSE [Chained(m, order) EXCEPT !.head[l] = order[1], !.last[l] = Last(order), !.head[o] = Null, !.last[o] = Null]

(* splice_after of one node: the last one of the other list is left where  *)
(* it is; the first one has no prev to unlink it from and is not given.    *)
SpliceAfter(m, l, pos, o, it) ==
  LET n == NextOf(m, it)
      out == SetNext(SetPrev(m, n, PrevOf(m, it)), PrevOf(m, it), n)
      after == NextOf(out, pos)
      in == SetNext(SetPrev(SetPrev(SetNext(out, it, after), it, pos), after, it), pos, it)
  IN IF it = m.last[o] THEN m ELSE [in EXCEPT !.last[l] = IF pos = @ THEN it ELSE @]

(* splice_after of the nodes between two others, of which there is one at  *)
(* least: next to each other, they would trade places.                     *)
SpliceRangeAfter(m, l, pos, o, first, last) ==
  LET from == NextOf(m, first)
      to == PrevOf(m, last)
      out == SetPrev(SetNext(m, first, last), last, first)
      after == NextOf(out, pos)
      in == SetNext(SetPrev(SetPrev(SetNext(out, to, after), after, to), from, pos), pos, from)
  IN IF first = last THEN m ELSE [in EXCEPT !.last[l] = IF pos = @ THEN to ELSE @]

(* splice_before: nothing before the front, and nothing from there.        *)
SpliceBefore(m, l, pos, o, it) ==
  IF pos = m.head[l] \/ it = m.head[o] THEN m ELSE SpliceAfter(m, l, PrevOf(m, pos), o, it)

SpliceRangeBefore(m, l, pos, o, first, last) ==
  IF pos = m.head[l] \/ first = m.head[o] THEN m ELSE SpliceRangeAfter(m, l, PrevOf(m, pos), o, first, last)

-----------------------------------------------------------------------------
(* The client has one list and a second one, for the calls of two.         *)

Init == lists = NoLists

Here(i) == Contains(NodesOf(lists, "list"), i)

There(i) == Contains(NodesOf(lists, "other"), i)

(* Where insert() can be told to insert.                                   *)
Places == IF lists.head["list"] = Null THEN {Null} ELSE {i \in Nodes : Here(i)}

(* Two nodes that splice_after() of a range can be given.                  *)
SpliceableRange(first, last) ==
  /\ There(first) /\ There(last)
  /\ first = last \/ IndexOf(lists, "other", last) > IndexOf(lists, "other", first) + 1

(* push_front and push_back, of a value that is copied or moved ...         *)
Push(v) == Fits(lists, 1) /\ (lists' = PushFront(lists, "list", v) \/ lists' = PushBack(lists, "list", v))

(* ... and emplace_front and emplace_back, for the other list.              *)
Emplace(v) == Fits(lists, 1) /\ (lists' = PushFront(lists, "other", v) \/ lists' = PushBack(lists, "other", v))

InsertOne(v) == Fits(lists, 1) /\ \E pos \in Places : lists' = Insert(lists, "list", pos, v)

(* The second element inserted at the end is one too many for an empty     *)
(* list.                                                                   *)
Insertable(s) == Fits(lists, Len(s)) /\ (lists.head["list"] = Null => Len(s) <= 1)

AddRange(s) == Insertable(s) /\ \E pos \in Places : lists' = InsertRange(lists, "list", pos, s)

Take == lists' = PopFront(lists, "list") \/ lists' = PopBack(lists, "list")

EraseNode(i) == Here(i) /\ lists' = Erase(lists, "list", i)

EraseNodes(i, j) ==
  /\ Here(i) /\ Here(j) /\ IndexOf(lists, "list", i) <= IndexOf(lists, "list", j)
  /\ lists' = EraseRange(lists, "list", i, j)

ResizeList(n, v) ==
  Fits(lists, n - Len(NodesOf(lists, "list"))) /\ lists' = Resize(lists, "list", n, v)

AssignList(s) == Fits(ClearList(lists, "list"), Len(s)) /\ lists' = AssignRange(lists, "list", s)

AssignRepeated(n, v) == Fits(ClearList(lists, "list"), n) /\ lists' = AssignCount(lists, "list", n, v)

Copy ==
  /\ Fits(ClearList(lists, "other"), Len(NodesOf(lists, "list")))
  /\ lists' = CopyList(lists, "other", "list")

Move == lists' = MoveList(lists, "other", "list")

Swap == lists' = SwapLists(lists, "list", "other")

Filter(v) == lists' = RemoveValue(lists, "list", v) \/ lists' = RemoveIf(lists, "list", Values \ {v})

Rearrange ==
  \/ lists' = Unique(lists, "list")
  \/ lists' = ReverseList(lists, "list")
  \/ lists' = MergeLists(lists, "list", "other")

SpliceNode(pos, it) ==
  /\ Here(pos) /\ There(it)
  /\ \/ it # lists.head["other"] /\ lists' = SpliceAfter(lists, "list", pos, "other", it)
     \/ lists' = SpliceBefore(lists, "list", pos, "other", it)

SpliceNodes(pos, first, last) ==
  /\ Here(pos) /\ SpliceableRange(first, last)
  /\ \/ lists' = SpliceRangeAfter(lists, "list", pos, "other", first, last)
     \/ lists' = SpliceRangeBefore(lists, "list", pos, "other", first, last)

Step ==
  \/ \E v \in Values : Push(v) \/ Emplace(v) \/ InsertOne(v) \/ Filter(v)
  \/ \E s \in Ranges : AddRange(s) \/ AssignList(s)
  \/ \E i \in Nodes : EraseNode(i)
  \/ \E i, j \in Nodes : EraseNodes(i, j) \/ SpliceNode(i, j)
  \/ \E i, j, k \in Nodes : SpliceNodes(i, j, k)
  \/ \E n \in Sizes, v \in Values : ResizeList(n, v) \/ AssignRepeated(n, v)
  \/ Take \/ Copy \/ Move \/ Swap \/ Rearrange

Spec == Init /\ [][Step]_lists

-----------------------------------------------------------------------------
(* Properties.                                                             *)

(* Every node is on exactly one list: forwards from the head to the last   *)
(* node, and backwards over the same nodes.                                *)
ListsIntact ==
  /\ \A l \in Names :
       LET nodes == NodesOf(lists, l)
           n == Len(nodes)
       IN IF n = 0 THEN lists.head[l] = Null /\ lists.last[l] = Null
          ELSE /\ lists.last[l] = nodes[n]
               /\ NextOf(lists, nodes[n]) = Null
               /\ PrevOf(lists, nodes[1]) = Null
               /\ \A j \in 2 .. n : PrevOf(lists, nodes[j]) = nodes[j - 1]
  /\ ToSet(NodesOf(lists, "list")) \cap ToSet(NodesOf(lists, "other")) = {}
  /\ Strays(lists) = {}

(* Every call changes the sequence as it says, wherever its position is.   *)
ListCallsAgree ==
  LET s == Content(lists, "list")
      t == Content(lists, "other")
      Now(m) == Content(m, "list")
      At(i) == IF i = Null THEN 0 ELSE IndexOf(lists, "list", i)
      Then(i) == IndexOf(lists, "other", i)
      Spliced(m, p, i, j) == Now(m) = WithInserted(s, p, SubSeq(t, i + 1, j)) /\ Content(m, "other") = WithoutPart(t, i, j)
  IN
  /\ \A v \in Values :
       /\ Now(RemoveValue(lists, "list", v)) = WithoutValue(s, v)
       /\ \A n \in Sizes : Fits(lists, n - Len(s)) => Now(Resize(lists, "list", n, v)) = Resized(s, n, v)
  /\ \A pos \in Places, q \in Ranges :
       Insertable(q) => Now(InsertRange(lists, "list", pos, q)) = WithInserted(s, At(pos), q)
  /\ \A i, j \in {n \in Nodes : Here(n)} :
       At(i) <= At(j) => Now(EraseRange(lists, "list", i, j)) = WithoutPart(s, At(i), At(j))
  /\ Now(Unique(lists, "list")) = Deduplicated(s)
  /\ Now(ReverseList(lists, "list")) = Reversed(s)
  /\ IsMergeOf(Now(MergeLists(lists, "list", "other")), s, t)
  /\ \A pos \in {n \in Nodes : Here(n)}, i \in {n \in Nodes : There(n)} :
       /\ i \notin {lists.head["other"], lists.last["other"]} =>
            /\ Spliced(SpliceAfter(lists, "list", pos, "other", i), At(pos) + 1, Then(i), Then(i) + 1)
            /\ pos # lists.head["list"] =>
                 Spliced(SpliceBefore(lists, "list", pos, "other", i), At(pos), Then(i), Then(i) + 1)
       /\ \A j \in Nodes : SpliceableRange(i, j) /\ i # j =>
            Spliced(SpliceRangeAfter(lists, "list", pos, "other", i, j), At(pos) + 1, Then(i) + 1, Then(j))
=============================================================================
