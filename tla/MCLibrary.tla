------------------------------- MODULE MCLibrary -------------------------------
(* The containers of MCContainers, the objects of Objects and, in the same   *)
(* way, the event dispatcher.                                                *)
EXTENDS MCContainers

VARIABLES slots, nodes, alive

-----------------------------------------------------------------------------
(* The instances.                                                          *)

(* The events share the first bucket of the smallest table.                *)
E == INSTANCE EventDispatcher WITH
       Ids <- 1 .. 3, Prios <- {1, 2}, Home <- <<0, 8, 16>>, Groups <- 1 .. 3, Listeners <- 1 .. 3

MCStreamItems ==
  [kind : {"value"}, val : {5}] \cup [kind : {"list"}, val : {<<>>, <<4>>}] \cup [kind : {"string"}, val : {<<>>, <<1, 2>>}]
  \cup {[kind |-> "raw", val |-> <<1, 0>>], [kind |-> "pad", val |-> 1], [kind |-> "align", val |-> 4]}

-----------------------------------------------------------------------------
Subjects ==
  {"chained", "hl", "list", "forward_list", "vector", "string", "shared_ptr", "function", "events", "disposal", "stream"}

event_vars == <<slots, nodes, alive>>

LibraryInit ==
  /\ subject \in Subjects
  /\ ContainersInit /\ ObjectsInit
  /\ IF subject = "events" THEN E!Init ELSE slots = Unused /\ nodes = Unused /\ alive = Unused

LibraryNext ==
  \/ ContainersNext /\ UNCHANGED <<object_vars, event_vars>>
  \/ ObjectsNext /\ UNCHANGED <<container_vars, event_vars>>
  \/ subject = "events" /\ E!Step /\ UNCHANGED <<subject, container_vars, object_vars>>

(* A behaviour of it is one of ObjectsSpec, which has the theorems.        *)
LibrarySpec ==
  LibraryInit /\ [][LibraryNext]_<<subject, container_vars, object_vars, event_vars>>

(* The groups of the dispatcher and its listeners are told apart by what   *)
(* is in them and how many there are.                                      *)
EventView ==
  LET shown(g) == [i \in DOMAIN nodes[g] |-> <<nodes[g][i].owner, nodes[g][i].prio>>]
  IN << [i \in DOMAIN slots.slot |-> IF slots.slot[i] = Free THEN <<>>
                                     ELSE <<slots.slot[i].k, shown(slots.slot[i].v), slots.slot[i].nx>>],
        slots.last, Cardinality(alive) >>

LibraryView == <<View, IF subject = "events" THEN EventView 
                      ELSE <<ctrl, shared, weak, calls, holds, queue, data, log, stream, written, next, got>> >>
-----------------------------------------------------------------------------
(* Properties.                                                             *)

(* events::dispatcher: see EventDispatcher.                                *)
ListenersSound == subject = "events" => E!GroupsSound /\ E!UnbindLeavesNone
=============================================================================
