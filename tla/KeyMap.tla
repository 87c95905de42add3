-------------------------------- MODULE KeyMap --------------------------------
(***************************************************************************)
(* A client of acul's associative containers: every container holds a map  *)
(* from keys to values, and a step changes the maps of one container, or   *)
(* of two that are copied, moved, swapped or merged.                       *)
(***************************************************************************)
EXTENDS MapCalls

CONSTANTS Keys, Values,
          Owners            (* the containers                               *)

VARIABLE maps               (* the map each container holds                 *)

IsMap(m) == DOMAIN m \subseteq Keys /\ \A k \in DOMAIN m : m[k] \in Values

-----------------------------------------------------------------------------
KMInit == DOMAIN maps = Owners /\ \A o \in Owners : IsMap(maps[o])

KMPut(o, k, v) == maps' = [maps EXCEPT ![o] = Put(@, k, v)]

(* Some keys go, some keys that were not there come.                       *)
KMRemove(o) == maps' = [maps EXCEPT ![o] = Restrict(@, DOMAIN @ \cap DOMAIN maps'[o])]

KMFill(o) == IsMap(maps'[o]) /\ maps' = [maps EXCEPT ![o] = MergedInto(@, maps'[o])]

KMCopy(o, p) == maps' = [maps EXCEPT ![o] = maps[p]]

KMMove(o, p) == maps' = [maps EXCEPT ![o] = maps[p], ![p] = NoKeys]

KMSwap(o, p) == maps' = [maps EXCEPT ![o] = maps[p], ![p] = maps[o]]

(* A merge may leave some of the other's elements where they are, and has  *)
(* to leave those whose keys are here already.                             *)
KMMerge(o, p) ==
  LET stay == DOMAIN maps[p] \cap DOMAIN maps'[p] IN
  /\ DOMAIN LeftBehind(maps[o], maps[p]) \subseteq stay
  /\ maps' = [maps EXCEPT ![o] = MergedInto(@, Without(maps[p], stay)), ![p] = Restrict(@, stay)]

KMNext ==
  \E o \in Owners :
    \/ KMRemove(o)
    \/ \E k \in Keys, v \in Values : KMPut(o, k, v)
    \/ KMFill(o)
    \/ \E p \in Owners \ {o} : KMCopy(o, p) \/ KMMove(o, p) \/ KMSwap(o, p) \/ KMMerge(o, p)

KMSpec == KMInit /\ [][KMNext]_maps
=============================================================================
