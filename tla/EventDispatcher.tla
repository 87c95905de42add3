--------------------------- MODULE EventDispatcher ---------------------------
(***************************************************************************)
(* acul::events::dispatcher: a hash table (ChainedTable) from event ids to *)
(* groups, each a vector of nodes in the order of their priorities.  The   *)
(* table holds pointers, so a group stays where it is when the table grows *)
(* or shifts its buckets, and dispatch() goes through it by its pointer.   *)
(*                                                                         *)
(* The listeners of a group are called in the order of its nodes; what a   *)
(* listener that is being called may do to its own group is left out.      *)
(***************************************************************************)
EXTENDS Naturals, FiniteSets, SequencesExt

CONSTANTS Ids, Owners, Prios,
          Home,             (* the hash of every id                         *)
          Groups,           (* bound: groups there is memory for            *)
          Listeners,        (* bound: listeners there is memory for         *)
          Free, Null

VARIABLES slots,            (* _slots, the table                            *)
          nodes,            (* the nodes of every group; Null when freed    *)
          alive             (* the listeners that have not been freed       *)

vars == <<slots, nodes, alive>>

T == INSTANCE ChainedTable WITH
       Keys <- Ids, Values <- Groups, Background <- {}, Hash <- Home, Initials <- {<<>>}, Ranges <- {},
       Sizes <- {}, MaxBuckets <- 32, MaxElements <- 3, tab <- slots, tab_other <- slots

(* The dispatcher as a value: what a call changes.                         *)
State == [slots |-> slots, nodes |-> nodes, alive |-> alive]

GroupOf(d, id) ==
  LET at == T!Bucket(d.slots, id) IN IF at = d.slots.n THEN Null ELSE d.slots.slot[at].v

Smallest(S) == CHOOSE x \in S : \A y \in S : x <= y

-----------------------------------------------------------------------------
(* event_group.                                                            *)

WithoutOwner(g, o) ==
  LET at == SelectInSeq(g, LAMBDA n : n.owner = o) IN IF at = 0 THEN g ELSE RemoveAt(g, at)

(* Mutant: a node goes before those of the same priority.                  *)
AddedBefore(g, n) ==
  LET rest == WithoutOwner(g, n.owner)
  IN InsertAt(rest, Cardinality({i \in DOMAIN rest : rest[i].prio < n.prio}) + 1, n)

(* add: behind the nodes of the same priority.                             *)
Added(g, n) ==
  LET rest == WithoutOwner(g, n.owner)
  IN InsertAt(rest, Cardinality({i \in DOMAIN rest : rest[i].prio <= n.prio}) + 1, n)

ListenersOf(g) == {g[i].listener : i \in DOMAIN g}

OwnersOf(g) == {g[i].owner : i \in DOMAIN g}

-----------------------------------------------------------------------------
(* dispatcher.                                                             *)

(* ensure and add_listener.  The listener an owner had for the id before   *)
(* is dropped from the group without being freed.                          *)
Bound(d, o, id, prio) ==
  LET l == Smallest(Listeners \ d.alive)
      g == GroupOf(d, id)
      new == Smallest({x \in Groups : d.nodes[x] = Null})
      node == [owner |-> o, listener |-> l, prio |-> prio]
  IN IF g # Null THEN [d EXCEPT !.nodes[g] = Added(@, node), !.alive = @ \cup {l}]
     ELSE [slots |-> T!Emplaced(d.slots, id, new).tb, nodes |-> [d.nodes EXCEPT ![new] = <<node>>],
           alive |-> d.alive \cup {l}]

(* The listener of an owner leaves a group and is freed.                   *)
Leave(d, g, o) ==
  LET gone == {n.listener : n \in {x \in ToSet(d.nodes[g]) : x.owner = o}}
  IN [d EXCEPT !.nodes[g] = WithoutOwner(@, o), !.alive = @ \ gone]

(* unbind_listener.                                                        *)
Unbound(d, o, id) ==
  LET at == T!Bucket(d.slots, id)
      g == d.slots.slot[at].v
      less == Leave(d, g, o)
  IN IF at = d.slots.n THEN d
     ELSE IF less.nodes[g] = <<>>
       THEN [less EXCEPT !.nodes[g] = Null, !.slots = T!ErasedAt(d.slots, at).tb]
     ELSE less

(* Mutant: the walk goes on behind the bucket an element has moved into.   *)
RECURSIVE UnboundSkipping(_, _, _)
UnboundSkipping(d, o, at) ==
  LET g == d.slots.slot[at].v
      less == Leave(d, g, o)
      next == T!ErasedAt(d.slots, at).tb
  IN IF at >= d.slots.n THEN d
     ELSE IF less.nodes[g] = <<>>
       THEN UnboundSkipping([less EXCEPT !.nodes[g] = Null, !.slots = next], o, T!FindNextBucket(next, at))
     ELSE UnboundSkipping(less, o, T!FindNextBucket(d.slots, at))

(* unbind_listeners: the loop goes on with the iterator erase() returns.   *)
RECURSIVE UnboundFrom(_, _, _)
UnboundFrom(d, o, at) ==
  LET g == d.slots.slot[at].v
      less == Leave(d, g, o)
      next == T!ErasedAt(d.slots, at)
  IN IF at >= d.slots.n THEN d
     ELSE IF less.nodes[g] = <<>>
       THEN UnboundFrom([less EXCEPT !.nodes[g] = Null, !.slots = next.tb], o, next.at)
     ELSE UnboundFrom(less, o, T!FindNextBucket(d.slots, at))

UnboundAll(d, o) == UnboundFrom(d, o, T!FindFirstBucket(d.slots))

(* clear.                                                                  *)
Emptied(d) ==
  LET gone == UNION {ListenersOf(d.nodes[g]) : g \in {x \in Groups : d.nodes[x] # Null}}
  IN [slots |-> T!Cleared(d.slots), nodes |-> [g \in Groups |-> Null], alive |-> d.alive \ gone]

-----------------------------------------------------------------------------
(* The client.                                                             *)

Init == /\ slots = T!Constructed(<<>>)
        /\ nodes = [g \in Groups |-> Null]
        /\ alive = {}

Becomes(d) == slots' = d.slots /\ nodes' = d.nodes /\ alive' = d.alive

Held == {g \in Groups : nodes[g] # Null}

Room(id) == alive # Listeners /\ IF GroupOf(State, id) = Null THEN Held # Groups ELSE TRUE

Bind(o, id, prio) == Room(id) /\ Becomes(Bound(State, o, id, prio))

Unbind(o, id) == Becomes(Unbound(State, o, id))

UnbindAll(o) == Becomes(UnboundAll(State, o))

Clear == Becomes(Emptied(State))

Step ==
  \/ \E o \in Owners : UnbindAll(o) \/ \E id \in Ids : Unbind(o, id) \/ \E p \in Prios : Bind(o, id, p)
  \/ Clear

Spec == Init /\ [][Step]_vars
-----------------------------------------------------------------------------
(* Properties.                                                             *)

(* Every group is in the table once and has listeners, one of an owner and *)
(* in the order of their priorities; the listeners are alive and in no two *)
(* groups.                                                                 *)
GroupsSound ==
  /\ \A g \in Held : Cardinality({i \in T!Occupied(slots) : slots.slot[i].v = g}) = 1 /\ nodes[g] # <<>>
  /\ \A i \in T!Occupied(slots) : slots.slot[i].v \in Held
  /\ \A g \in Held : LET s == nodes[g] IN
       /\ ListenersOf(s) \subseteq alive
       /\ Cardinality(OwnersOf(s)) = Len(s) /\ Cardinality(ListenersOf(s)) = Len(s)
       /\ \A i \in 1 .. Len(s) - 1 : s[i].prio <= s[i + 1].prio
       /\ \A h \in Held \ {g} : ListenersOf(s) \cap ListenersOf(nodes[h]) = {}

(* unbind_listeners() leaves none of the owner's listeners in any group,   *)
(* although every group it erases may move the next one in the table, and  *)
(* none of the others goes; a new listener is called after those that were *)
(* bound with the same priority.                                           *)
UnbindLeavesNone ==
  /\ \A o \in Owners :
       LET d == UnboundAll(State, o) IN
       \A id \in Ids : LET g == GroupOf(State, id) IN
         g # Null => IF OwnersOf(nodes[g]) = {o} THEN GroupOf(d, id) = Null
                     ELSE GroupOf(d, id) = g /\ d.nodes[g] = SelectSeq(nodes[g], LAMBDA n : n.owner # o)
  /\ alive # Listeners =>
       \A o \in Owners, id \in Ids, p \in Prios : LET g == GroupOf(State, id) IN
         g # Null => LET s == Bound(State, o, id, p).nodes[g] IN
           \A i \in DOMAIN s : s[i].owner = o => \A j \in i + 1 .. Len(s) : s[j].prio > p
=============================================================================
