------------------------------ MODULE NodeLists ------------------------------
(* The nodes of list and forward_list: what is allocated, and which nodes   *)
(* a list reaches from its head.  Lists that exchange nodes share a record  *)
(* m of all nodes (m.node) and all heads (m.head).                          *)
EXTENDS Seqs, SequencesExt, TLC

CONSTANTS Values,
          Null,             (* nullptr                                      *)
          Nodes,            (* bound: the nodes there are                   *)
          Ranges,           (* what constructors, assign() and insert() of  *)
                            (* a range are given                            *)
          Sizes             (* what resize() and assign() are called with   *)

Names == {"list", "other"}

FreeNodes(m) == Nodes \ DOMAIN m.node

(* allocate() gives any free node; which one makes no difference.          *)
Fresh(m) == CHOOSE i \in FreeNodes(m) : \A j \in FreeNodes(m) : i <= j

Fits(m, n) == Cardinality(FreeNodes(m)) >= n

Drop(m, S) == [m EXCEPT !.node = Restrict(@, DOMAIN @ \ S)]

SetNext(m, i, j) == IF i = Null THEN m ELSE [m EXCEPT !.node[i].nx = j]

NextOf(m, i) == m.node[i].nx

Value(m, i) == m.node[i].v

(* The nodes from i on, as an iterator goes.                               *)
RECURSIVE Walk(_, _, _)
Walk(m, i, before) ==
  IF i \notin DOMAIN m.node \/ Contains(before, i) THEN before ELSE Walk(m, NextOf(m, i), Append(before, i))

NodesOf(m, l) == Walk(m, m.head[l], <<>>)

Content(m, l) == [j \in 1 .. Len(NodesOf(m, l)) |-> Value(m, NodesOf(m, l)[j])]

(* An iterator as the number of nodes before it.                           *)
IndexOf(m, l, i) ==
  IF i = Null THEN Len(NodesOf(m, l)) ELSE SelectInSeq(NodesOf(m, l), LAMBDA j : j = i) - 1

(* The nodes from first to before last.                                    *)
Between(m, l, first, last) == SubSeq(NodesOf(m, l), IndexOf(m, l, first) + 1, IndexOf(m, l, last))

(* The nodes that no list reaches.                                         *)
Strays(m) == DOMAIN m.node \ UNION {ToSet(NodesOf(m, l)) : l \in Names}
=============================================================================
