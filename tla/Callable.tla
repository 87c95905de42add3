------------------------------- MODULE Callable -------------------------------
(***************************************************************************)
(* acul::function and unique_function: a target kept in the function's own *)
(* storage when it fits, behind a pointer in the storage when it does not, *)
(* and a table that says how the target is destroyed, moved and copied.    *)
(* A step that destroys, moves or copies what is not there, or overwrites  *)
(* what is, is a fault.                                                    *)
(*                                                                         *)
(* Targets do not throw when they are copied, and none holds the function  *)
(* that is moved into the one it is the target of.                         *)
(***************************************************************************)
EXTENDS Naturals, FiniteSets

CONSTANTS Names,            (* the client's functions                       *)
          Small, Large,     (* targets that fit the storage, and others     *)
          NullPointer,      (* a null pointer to a function, which fits     *)
          TargetBlocks,     (* bound: targets there is memory for           *)
          Raw               (* storage in which there is nothing            *)

VARIABLES calls,            (* the functions, their targets in memory       *)
          holds             (* the target every function was given          *)

function_vars == <<calls, holds>>

Temporary == "tmp"          (* the function swap() keeps one target in      *)

Targets == Small \cup Large \cup {NullPointer}

Inplace == Small \cup {NullPointer}

(* The target of a function that has one.                                  *)
Target(s, x) == IF s.vt[x] = "heap" THEN s.heap[s.storage[x]] ELSE s.storage[x]

-----------------------------------------------------------------------------
(* The entries of the tables.                                              *)

Dead(s, x) == s.storage[x] = Raw \/ (s.vt[x] = "heap" /\ s.heap[s.storage[x]] = Raw)

Destroy(s, x) ==
  [s EXCEPT !.storage[x] = Raw,
            !.heap = IF s.vt[x] = "heap" THEN [@ EXCEPT ![s.storage[x]] = Raw] ELSE @,
            !.fault = @ \/ Dead(s, x)]

Reset(s, x) == IF s.vt[x] = "none" THEN s ELSE [Destroy(s, x) EXCEPT !.vt[x] = "none"]

(* A closure goes into the storage, or into a block of its own.            *)
Place(s, x, c) ==
  LET b == CHOOSE b \in TargetBlocks : s.heap[b] = Raw
      into == [s EXCEPT !.fault = @ \/ s.storage[x] # Raw]
  IN IF c \in Inplace THEN [into EXCEPT !.storage[x] = c, !.vt[x] = "inplace"]
     ELSE [into EXCEPT !.storage[x] = b, !.heap[b] = c, !.vt[x] = "heap"]

(* Mutant: the other function keeps its table.                             *)
MoveFromKept(s, x, y) ==
  IF s.vt[y] = "none" THEN [s EXCEPT !.vt[x] = "none"]
  ELSE [s EXCEPT !.vt[x] = s.vt[y], !.storage[x] = s.storage[y], !.storage[y] = Raw,
                 !.fault = @ \/ Dead(s, y) \/ s.storage[x] # Raw]

(* move_from: the other function is left without a target.                 *)
MoveFrom(s, x, y) ==
  IF s.vt[y] = "none" THEN [s EXCEPT !.vt[x] = "none"]
  ELSE [s EXCEPT !.vt[x] = s.vt[y], !.vt[y] = "none", !.storage[x] = s.storage[y], !.storage[y] = Raw,
                 !.fault = @ \/ Dead(s, y) \/ s.storage[x] # Raw]

(* copy_from.                                                              *)
CopyFrom(s, x, y) ==
  IF s.vt[y] = "none" THEN [s EXCEPT !.vt[x] = "none"]
  ELSE Place([s EXCEPT !.fault = @ \/ Dead(s, y)], x, Target(s, y))

(* set(): a unique_function takes a null pointer for no target.            *)
Put(s, x, c) ==
  IF s.unique /\ c = NullPointer THEN Reset(s, x) ELSE Place(Reset(s, x), x, c)

(* Assignment from another function.                                       *)
CopyAssigned(s, x, y) == IF x = y THEN s ELSE CopyFrom(Reset(s, x), x, y)

MoveAssigned(s, x, y) == IF x = y THEN s ELSE MoveFrom(Reset(s, x), x, y)

(* swap: function copies, unique_function moves, and the temporary ends.   *)
Swapped(s, x, y) ==
  LET first == MoveFrom(s, Temporary, y)
      second == IF s.unique THEN MoveAssigned(first, y, x) ELSE CopyAssigned(first, y, x)
  IN IF x = y THEN s ELSE Reset(MoveAssigned(second, x, Temporary), Temporary)

-----------------------------------------------------------------------------
(* The client.  There is memory for one more target than functions.        *)

FunctionInit ==
  \E unique \in BOOLEAN :
    /\ calls = [vt |-> [x \in Names \cup {Temporary} |-> "none"], storage |-> [x \in Names \cup {Temporary} |-> Raw],
                heap |-> [b \in TargetBlocks |-> Raw], unique |-> unique, fault |-> FALSE]
    /\ holds = [x \in Names |-> Raw]

Assign(x, c) == /\ calls' = Put(calls, x, c)
                /\ holds' = [holds EXCEPT ![x] = IF calls.unique /\ c = NullPointer THEN Raw ELSE c]

Copy(x, y) == /\ ~ calls.unique
              /\ calls' = CopyAssigned(calls, x, y)
              /\ holds' = [holds EXCEPT ![x] = holds[y]]

Move(x, y) == /\ x # y
              /\ calls' = MoveAssigned(calls, x, y)
              /\ holds' = [holds EXCEPT ![x] = holds[y], ![y] = Raw]

Swap(x, y) == /\ calls' = Swapped(calls, x, y)
              /\ holds' = [holds EXCEPT ![x] = holds[y], ![y] = holds[x]]

(* reset(), assignment of nullptr, or the end of the function.             *)
Finish(x) == /\ calls' = Reset(calls, x)
             /\ holds' = [holds EXCEPT ![x] = Raw]

FunctionStep ==
  \E x \in Names : \/ \E c \in Targets : Assign(x, c)
                   \/ \E y \in Names : Copy(x, y) \/ Move(x, y) \/ Swap(x, y)
                   \/ Finish(x)

FunctionSpec == FunctionInit /\ [][FunctionStep]_function_vars
-----------------------------------------------------------------------------
(* Properties.                                                             *)

(* A function can be called exactly when it was given a target, and it     *)
(* calls that one; no two functions share a target, none is destroyed      *)
(* twice or used after that, and none outlives its function.               *)
TargetsOwned ==
  /\ ~ calls.fault
  /\ \A x \in Names : IF holds[x] = Raw THEN calls.vt[x] = "none"
                      ELSE ~ Dead(calls, x) /\ Target(calls, x) = holds[x]
  /\ \A x \in Names \cup {Temporary} : calls.vt[x] = "none" <=> calls.storage[x] = Raw
  /\ \A b \in TargetBlocks : calls.heap[b] # Raw =>
       Cardinality({x \in Names : calls.vt[x] = "heap" /\ calls.storage[x] = b}) = 1
=============================================================================
