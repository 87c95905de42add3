----------------------------- MODULE ForwardList -----------------------------
(***************************************************************************)
(* acul::forward_list: nodes with a next pointer and a head per list;      *)
(* end() and before_begin() are both the null iterator, so the calls that  *)
(* take the position before another one are given a node.  insert_after()  *)
(* of an iterator range follows a null pointer and is not called, nor is a *)
(* range spliced that has nothing in it.                                   *)
(*                                                                         *)
(* merge() and splice_after() of a whole list lose nodes: they are         *)
(* modelled as they are, and the nodes no list reaches stay allocated.     *)
(***************************************************************************)
EXTENDS NodeLists

VARIABLE forward

NoLists == [node |-> <<>>, head |-> [l \in Names |-> Null]]

Add(m, i, v, nx) == [m EXCEPT !.node = (i :> [v |-> v, nx |-> nx]) @@ @]

-----------------------------------------------------------------------------
(* Building and clearing.                                                  *)

PushFront(m, l, v) == LET p == Fresh(m) IN [Add(m, p, v, m.head[l]) EXCEPT !.head[l] = p]

PopFront(m, l) ==
  LET h == m.head[l] IN IF h = Null THEN m ELSE Drop([m EXCEPT !.head[l] = NextOf(m, h)], {h})

(* A node behind the tail, which is Null if there is none yet.             *)
Append1(m, l, tail, v) ==
  LET p == Fresh(m)
      added == Add(m, p, v, Null)
  IN IF tail = Null THEN [added EXCEPT !.head[l] = p] ELSE SetNext(added, tail, p)

AppendAll(m, l, s) ==
  FoldLeft(LAMBDA into, v : Append1(into, l, IF into.head[l] = Null THEN Null ELSE Last(NodesOf(into, l)), v), m, s)

(* clear() and the destructor.                                             *)
ClearList(m, l) == Drop([m EXCEPT !.head[l] = Null], ToSet(NodesOf(m, l)))

(* assign(), and the constructors and assignments from a range or a list.  *)
AssignRange(m, l, s) == AppendAll(ClearList(m, l), l, s)

AssignCount(m, l, n, v) == AppendAll(ClearList(m, l), l, Repeated(n, v))

CopyList(m, l, o) == AssignRange(m, l, Content(m, o))

MoveList(m, l, o) == [ClearList(m, l) EXCEPT !.head[l] = m.head[o], !.head[o] = Null]

SwapLists(m, l, o) == [m EXCEPT !.head[l] = m.head[o], !.head[o] = m.head[l]]

(* resize: without a last node to keep, nothing is removed.                *)
Resize(m, l, n, v) ==
  LET nodes == NodesOf(m, l)
  IN IF Len(nodes) < n THEN AppendAll(m, l, Repeated(n - Len(nodes), v))
     ELSE IF n = 0 THEN m
     ELSE SetNext(Drop(m, ToSet(After(nodes, n))), nodes[n], Null)

-----------------------------------------------------------------------------
(* Insertion and removal after a node.                                     *)

InsertAfter(m, pos, v) == LET p == Fresh(m) IN SetNext(Add(m, p, v, NextOf(m, pos)), pos, p)

(* insert_after of a count or of a list: each after the one before.        *)
InsertAllAfter(m, pos, s) ==
  FoldLeft(LAMBDA into, v : [m |-> InsertAfter(into.m, into.at, v), at |-> Fresh(into.m)], [m |-> m, at |-> pos], s).m

EraseAfter(m, pos) ==
  LET n == NextOf(m, pos) IN IF n = Null THEN m ELSE Drop(SetNext(m, pos, NextOf(m, n)), {n})

(* erase_after of the nodes between first and last.                        *)
EraseBetween(m, l, first, last) == SetNext(Drop(m, ToSet(Between(m, l, NextOf(m, first), last))), first, last)

(* remove and remove_if: the pointer to a node that goes is redirected.    *)
RemoveWhere(m, l, S) ==
  LET Cut(into, i) ==
        IF Value(m, i) \notin S THEN [into EXCEPT !.at = i]
        ELSE IF into.at = Null THEN [into EXCEPT !.m = Drop([@ EXCEPT !.head[l] = NextOf(m, i)], {i})]
        ELSE [into EXCEPT !.m = Drop(SetNext(@, into.at, NextOf(m, i)), {i})]
  IN FoldLeft(Cut, [m |-> m, at |-> Null], NodesOf(m, l)).m

RemoveValue(m, l, v) == RemoveWhere(m, l, {v})

RECURSIVE UniqueFrom(_, _)
UniqueFrom(m, i) ==
  IF i = Null \/ NextOf(m, i) = Null THEN m
  ELSE IF Value(m, i) # Value(m, NextOf(m, i)) THEN UniqueFrom(m, NextOf(m, i))
  ELSE UniqueFrom(EraseAfter(m, i), i)

Unique(m, l) == UniqueFrom(m, m.head[l])

-----------------------------------------------------------------------------
(* Relinking.                                                              *)

ReverseList(m, l) ==
  LET nodes == NodesOf(m, l)
      Turn(into, j) == SetNext(into, nodes[j], IF j = 1 THEN Null ELSE nodes[j - 1])
      turned == FoldLeft(Turn, m, [j \in 1 .. Len(nodes) |-> j])
  IN [turned EXCEPT !.head[l] = IF nodes = <<>> THEN Null ELSE Last(nodes)]

Middle(s) == (Len(s) + 1) \div 2

(* sortedMerge: the order of the nodes, the right one first if two are     *)
(* equal.                                                                  *)
RECURSIVE SortedMerge(_, _, _)
SortedMerge(m, a, b) ==
  IF a = <<>> \/ b = <<>> THEN a \o b
  ELSE IF Value(m, a[1]) < Value(m, b[1]) THEN <<a[1]>> \o SortedMerge(m, Tail(a), b)
  ELSE <<b[1]>> \o SortedMerge(m, a, Tail(b))

(* Mutant: the node in the middle is in neither half.                      *)
MergeSortDropping(m, s) ==
  IF Len(s) <= 1 THEN s ELSE SortedMerge(m, UpTo(s, Middle(s) - 1), After(s, Middle(s)))

(* mergeSort: getMiddle() gives the last node of the first half.           *)
RECURSIVE MergeSort(_, _)
MergeSort(m, s) ==
  IF Len(s) <= 1 THEN s
  ELSE SortedMerge(m, MergeSort(m, UpTo(s, Middle(s))), MergeSort(m, After(s, Middle(s))))

Sort(m, l) ==
  LET order == MergeSort(m, NodesOf(m, l))
      Link(into, j) == SetNext(into, order[j], IF j = Len(order) THEN Null ELSE order[j + 1])
  IN IF order = <<>> THEN m
     ELSE [FoldLeft(Link, m, [j \in 1 .. Len(order) |-> j]) EXCEPT !.head[l] = order[1]]

(* merge: an element that is not greater than the other list's first one   *)
(* leaves the head, but nothing points to it any more; what is left of the *)
(* other list goes behind the last node the loop has touched.              *)
RECURSIVE MergeFrom(_, _, _, _)
MergeFrom(m, l, o, tail) ==
  LET h == m.head[l]
      g == m.head[o]
      rest == [m EXCEPT !.head[o] = Null]
  IN IF h # Null /\ g # Null
       THEN IF Value(m, g) < Value(m, h)
            THEN MergeFrom(SetNext([m EXCEPT !.head[l] = g, !.head[o] = NextOf(m, g)], g, h), l, o, g)
            ELSE MergeFrom([m EXCEPT !.head[l] = NextOf(m, h)], l, o, h)
     ELSE IF g = Null THEN m
     ELSE IF tail = Null THEN [rest EXCEPT !.head[l] = g]
     ELSE SetNext(rest, tail, g)

MergeLists(m, l, o) == MergeFrom(m, l, o, Null)

(* splice_after of a whole list: the last node but one is linked to what   *)
(* follows, and the last one is left to itself.                            *)
SpliceAll(m, l, pos, o) ==
  LET theirs == NodesOf(m, o)
      n == Len(theirs)
      linked == IF n < 2 THEN m ELSE SetNext(m, theirs[n - 1], NextOf(m, pos))
  IN IF n = 0 THEN m ELSE [SetNext(linked, pos, theirs[1]) EXCEPT !.head[o] = Null]

(* splice_after of the node that follows another one.                      *)
SpliceAfter(m, pos, it) ==
  LET n == NextOf(m, it)
  IN IF n = Null THEN m ELSE SetNext(SetNext(SetNext(m, it, NextOf(m, n)), n, NextOf(m, pos)), pos, n)

(* splice_after of the nodes between two others, or of all behind one.     *)
SpliceBetween(m, o, pos, first, last) ==
  LET between == Between(m, o, NextOf(m, first), last)
  IN IF first = last \/ NextOf(m, first) = Null THEN m
     ELSE SetNext(SetNext(SetNext(m, first, last), Last(between), NextOf(m, pos)), pos, NextOf(m, first))

-----------------------------------------------------------------------------
(* The client.                                                             *)

Init == forward = NoLists

Here(i) == Contains(NodesOf(forward, "list"), i)

There(i) == Contains(NodesOf(forward, "other"), i)

At(i) == IndexOf(forward, "list", i)

Then(i) == IndexOf(forward, "other", i)

Push(v) == Fits(forward, 1) /\ forward' = PushFront(forward, "list", v)

EmplaceOther(v) == Fits(forward, 1) /\ forward' = PushFront(forward, "other", v)

Pop == forward' = PopFront(forward, "list")

InsertOne(pos, v) == Here(pos) /\ Fits(forward, 1) /\ forward' = InsertAfter(forward, pos, v)

InsertMany(pos, s) == Here(pos) /\ Fits(forward, Len(s)) /\ forward' = InsertAllAfter(forward, pos, s)

EraseOne(pos) == Here(pos) /\ forward' = EraseAfter(forward, pos)

EraseMany(first, last) ==
  Here(first) /\ (Here(last) \/ last = Null) /\ At(first) < At(last) /\ forward' = EraseBetween(forward, "list", first, last)

ResizeList(n, v) ==
  Fits(forward, n - Len(NodesOf(forward, "list"))) /\ forward' = Resize(forward, "list", n, v)

AssignList(s) == Fits(ClearList(forward, "list"), Len(s)) /\ forward' = AssignRange(forward, "list", s)

AssignRepeated(n, v) == Fits(ClearList(forward, "list"), n) /\ forward' = AssignCount(forward, "list", n, v)

Copy ==
  /\ Fits(ClearList(forward, "other"), Len(NodesOf(forward, "list")))
  /\ forward' = CopyList(forward, "other", "list")

Move == forward' = MoveList(forward, "other", "list")

Swap == forward' = SwapLists(forward, "list", "other")

Filter(v) == forward' = RemoveValue(forward, "list", v) \/ forward' = RemoveWhere(forward, "list", Values \ {v})

Rearrange ==
  \/ forward' = Unique(forward, "list")
  \/ forward' = ReverseList(forward, "list")
  \/ forward' = Sort(forward, "list")

Merge == forward' = MergeLists(forward, "list", "other")

SpliceWhole(pos) == Here(pos) /\ forward' = SpliceAll(forward, "list", pos, "other")

SpliceOne(pos, it) == Here(pos) /\ There(it) /\ forward' = SpliceAfter(forward, pos, it)

(* Two ends of a range that has something in it.                           *)
SpliceableRange(first, last) ==
  There(first) /\ (There(last) \/ last = Null) /\ (first = last \/ Then(last) > Then(first) + 1)

SpliceMany(pos, first, last) ==
  Here(pos) /\ SpliceableRange(first, last) /\ forward' = SpliceBetween(forward, "other", pos, first, last)

Step ==
  \/ \E v \in Values : Push(v) \/ EmplaceOther(v) \/ Filter(v)
  \/ \E pos \in Nodes : \/ \E v \in Values : InsertOne(pos, v)
                        \/ \E s \in Ranges : InsertMany(pos, s)
                        \/ EraseOne(pos) \/ SpliceWhole(pos)
                        \/ \E i \in Nodes : SpliceOne(pos, i)
                        \/ \E i \in Nodes, j \in Nodes \cup {Null} : SpliceMany(pos, i, j)
  \/ \E i \in Nodes, j \in Nodes \cup {Null} : EraseMany(i, j)
  \/ \E n \in Sizes, v \in Values : ResizeList(n, v) \/ AssignRepeated(n, v)
  \/ \E s \in Ranges : AssignList(s)
  \/ Pop \/ Copy \/ Move \/ Swap \/ Rearrange \/ Merge

Spec == Init /\ [][Step]_forward
-----------------------------------------------------------------------------
(* Properties.                                                             *)

(* No list runs into a freed node, into itself or into the other one, not  *)
(* even after a call that loses nodes.                                     *)
ForwardListsIntact ==
  /\ \A l \in Names :
       LET nodes == NodesOf(forward, l)
       IN IF nodes = <<>> THEN forward.head[l] = Null ELSE NextOf(forward, Last(nodes)) = Null
  /\ ToSet(NodesOf(forward, "list")) \cap ToSet(NodesOf(forward, "other")) = {}

(* Every call that does not lose nodes changes the sequence as it says,    *)
(* and what it takes out it frees.                                         *)
ForwardCallsAgree ==
  LET s == Content(forward, "list")
      t == Content(forward, "other")
      Is(m, q) == Content(m, "list") = q /\ Strays(m) = Strays(forward)
      Spliced(m, p, i, j) == Is(m, WithInserted(s, p, SubSeq(t, i + 1, j))) /\ Content(m, "other") = WithoutPart(t, i, j)
      mine == {i \in Nodes : Here(i)}
  IN
  /\ \A v \in Values :
       /\ Is(RemoveValue(forward, "list", v), WithoutValue(s, v))
       /\ \A n \in Sizes \ {0} :
            Fits(forward, n - Len(s)) => Is(Resize(forward, "list", n, v), Resized(s, n, v))
  /\ \A pos \in mine, q \in Ranges :
       Fits(forward, Len(q)) => Is(InsertAllAfter(forward, pos, q), WithInserted(s, At(pos) + 1, q))
  /\ \A i \in mine, j \in mine \cup {Null} :
       At(i) < At(j) => Is(EraseBetween(forward, "list", i, j), WithoutPart(s, At(i) + 1, At(j)))
  /\ Is(Unique(forward, "list"), Deduplicated(s))
  /\ Is(ReverseList(forward, "list"), Reversed(s))
  /\ LET m == Sort(forward, "list") IN Is(m, Content(m, "list")) /\ IsMergeOf(Content(m, "list"), s, <<>>) /\ InOrder(Content(m, "list"))
  /\ \A pos \in mine, i \in {n \in Nodes : There(n)} :
       /\ NextOf(forward, i) # Null => Spliced(SpliceAfter(forward, pos, i), At(pos) + 1, Then(i) + 1, Then(i) + 2)
       /\ \A j \in Nodes \cup {Null} : SpliceableRange(i, j) /\ i # j =>
            Spliced(SpliceBetween(forward, "other", pos, i, j), At(pos) + 1, Then(i) + 1, Then(j))
=============================================================================
