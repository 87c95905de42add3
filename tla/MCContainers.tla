----------------------------- MODULE MCContainers -----------------------------
(* The containers, one at a time: the run's subject is chosen at the start  *)
(* and the variables of the others stay unused.                             *)
EXTENDS Objects, SequencesExt, TLC

CONSTANTS k1, k2, k3

VARIABLES lists, forward

-----------------------------------------------------------------------------
(* The instances.                                                          *)

(* Eight keys that no call names fill a table of 16 buckets and hold those *)
(* around the home buckets of three that the client uses.                  *)
MCBackground == {1, 2, 3, 5, 6, 7, 10, 12}

MCKeys == {k1, k2, k3} \cup MCBackground

MCHash == (k1 :> 0 @@ k2 :> 8 @@ k3 :> 17) @@ [b \in MCBackground |-> b]

MCInitials == {<<>>, [i \in 1 .. 8 |-> <<(<<1, 2, 3, 5, 6, 7, 10, 12>>)[i], 0>>]}

MCRanges == {<< <<k3, 0>>, <<k2, 1>> >>}

(* All keys share the last two buckets of a table of eight as their homes, *)
(* so that probes wrap round; a larger table parts them.                   *)
MCHlHome == <<6, 6, 7, 14>>

MCHlFirst == {<<>>}

MCHlOthers == {<< <<4, 0>>, <<2, 1>> >>}

MCLists == {<<>>, <<2, 1>>}

L == INSTANCE List WITH Nodes <- 1 .. 6, Values <- {1, 2}, Ranges <- MCLists, Sizes <- {0, 1, 3}

F == INSTANCE ForwardList WITH Nodes <- 1 .. 5, Values <- {1, 2}, Ranges <- MCLists, Sizes <- {0, 1, 3}

(* One text fits a string itself, the other needs a block.                 *)
MCPieces == {<<1, 2>>, <<2, 1, 1, 2, 1>>}

MCVectorRanges == {<<>>, <<0, 1>>}

ASSUME ListsAssumption == \A s \in MCLists : s \in Seq({1, 2})

-----------------------------------------------------------------------------
(* The kinds that are not objects of Objects, one of them in use.          *)
container_vars == <<lists, forward>>

ContainersInit ==
  /\ IF subject = "list" THEN L!Init ELSE lists = Unused
  /\ IF subject = "forward_list" THEN F!Init ELSE forward = Unused

ContainersNext ==
  /\ UNCHANGED subject
  /\ \/ subject = "list" /\ L!Step /\ UNCHANGED forward
     \/ subject = "forward_list" /\ F!Step /\ UNCHANGED lists

(* States are told apart by what the containers can see: not by which      *)
(* nodes a list uses, nor by what is behind the elements of a vector or    *)
(* the text of a string.                                                   *)
Numbered(order, i) == IF Contains(order, i) THEN SelectInSeq(order, LAMBDA j : j = i) ELSE IF i = Null THEN 0 ELSE -1

ListView ==
  LET order == L!NodesOf(lists, "list") \o L!NodesOf(lists, "other")
               \o SelectSeq(<<1, 2, 3, 4, 5, 6>>, LAMBDA i : i \in L!Strays(lists))
      N(i) == Numbered(order, i)
  IN << [j \in 1 .. Len(order) |-> <<L!Value(lists, order[j]), N(L!NextOf(lists, order[j])), N(L!PrevOf(lists, order[j]))>>],
        [l \in L!Names |-> <<N(lists.head[l]), N(lists.last[l])>>] >>

ForwardView ==
  LET order == F!NodesOf(forward, "list") \o F!NodesOf(forward, "other")
      N(i) == Numbered(order, i)
  IN << [j \in 1 .. Len(order) |-> <<F!Value(forward, order[j]), N(F!NextOf(forward, order[j]))>>],
        [l \in F!Names |-> N(forward.head[l])], Cardinality(F!Strays(forward)) >>

VectorView(v) == <<D!Content(v), v.cap, v.objects, v.fault>>

StringView(s) == <<D!Text(s), s.flag, Len(s.buf), s.size < Len(s.buf) /\ s.buf[s.size + 1] = End>>

View ==
  <<subject,
    CASE subject = "list" -> ListView
      [] subject = "forward_list" -> ForwardView
      [] subject = "vector" -> <<VectorView(vec), VectorView(vec_other)>>
      [] subject = "string" -> <<StringView(str), StringView(str_other)>>
      [] OTHER -> <<tab, tab_other, hl, hl_other>> >>
-----------------------------------------------------------------------------
(* Properties.                                                             *)

(* list and forward_list: see List and ForwardList.                        *)
NodesIntact ==
  CASE subject = "list" -> L!ListsIntact
    [] subject = "forward_list" -> F!ForwardListsIntact
    [] OTHER -> TRUE

NodeListCallsAgree ==
  CASE subject = "list" -> L!ListCallsAgree
    [] subject = "forward_list" -> F!ForwardCallsAgree
    [] OTHER -> TRUE
=============================================================================
