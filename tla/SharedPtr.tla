------------------------------ MODULE SharedPtr ------------------------------
(***************************************************************************)
(* acul::shared_ptr, weak_ptr and enable_shared_from_this.  A control      *)
(* block counts the shared pointers and the weak ones, and one more weak   *)
(* for all the shared ones together; the object is destroyed with the last *)
(* shared pointer, the block with the last weak one.  An object may hold a *)
(* weak pointer to itself.                                                 *)
(*                                                                         *)
(* The counts are not atomic: the calls are those of one thread.           *)
(***************************************************************************)
EXTENDS Naturals, FiniteSets

CONSTANTS Owners,           (* the client's shared pointers                 *)
          Watchers,         (* the client's weak pointers                   *)
          Blocks,           (* bound: control blocks there is memory for    *)
          Null

VARIABLES ctrl,             (* the control blocks                           *)
          shared,           (* the block of every shared pointer            *)
          weak              (* the block of every weak pointer              *)

ptr_vars == <<ctrl, shared, weak>>

(* A block: its counts, its object and, of use once it is freed, whether   *)
(* it was touched after that.                                              *)
NoObject == [strong |-> 0, weak |-> 0, object |-> "none", external |-> FALSE, self |-> FALSE,
             freed |-> TRUE, touched |-> FALSE]

Fresh(b) == ctrl[b].freed /\ \A c \in Blocks : c < b => ~ ctrl[c].freed

(* make_shared and the constructor from a pointer, with accept_owner.      *)
Created(external, self) ==
  [strong |-> 1, weak |-> IF self THEN 2 ELSE 1, object |-> "alive", external |-> external, self |-> self,
   freed |-> FALSE, touched |-> FALSE]

-----------------------------------------------------------------------------
(* What is done to a block; Null is no block.                              *)

Change(c, b, x) == IF b = Null THEN c ELSE [c EXCEPT ![b] = [x EXCEPT !.touched = @ \/ c[b].freed]]

Shared(c, b) == IF b = Null THEN c ELSE Change(c, b, [c[b] EXCEPT !.strong = @ + 1])

Watched(c, b) == IF b = Null THEN c ELSE Change(c, b, [c[b] EXCEPT !.weak = @ + 1])

(* decrement_weak alone: what operator= of a weak pointer does.            *)
Forgotten(c, b) == IF b = Null THEN c ELSE Change(c, b, [c[b] EXCEPT !.weak = @ - 1])

(* Mutant: the last weak pointer does not mind the shared ones.            *)
UnwatchedCarelessly(c, b) ==
  IF b = Null THEN c ELSE Change(c, b, [c[b] EXCEPT !.weak = @ - 1, !.freed = @ \/ c[b].weak <= 2])

(* The destructor of a weak pointer.                                       *)
Unwatched(c, b) ==
  IF b = Null THEN c
  ELSE Change(c, b, [c[b] EXCEPT !.weak = @ - 1, !.freed = @ \/ (c[b].strong = 0 /\ c[b].weak = 1)])

(* The object goes, and with it the weak pointer it has to itself.         *)
Destroyed(c, b) ==
  LET gone == Change(c, b, [c[b] EXCEPT !.object = "gone", !.self = FALSE])
  IN IF c[b].self THEN Unwatched(gone, b) ELSE gone

(* release(): an object of its own is given back, then the block, unless   *)
(* somebody watches it.                                                    *)
Released(c, b) ==
  LET less == Change(c, b, [c[b] EXCEPT !.strong = @ - 1])
      gone == Destroyed(less, b)
      back == Change(gone, b, [gone[b] EXCEPT !.object = IF @ = "gone" /\ gone[b].external THEN "returned" ELSE @])
  IN IF b = Null THEN c
     ELSE IF less[b].strong > 0 THEN less
     ELSE Change(back, b, [back[b] EXCEPT !.weak = @ - 1, !.freed = @ \/ back[b].weak = 1])

-----------------------------------------------------------------------------
(* The calls.                                                              *)

PtrInit == /\ ctrl = [b \in Blocks |-> NoObject]
        /\ shared = [p \in Owners |-> Null]
        /\ weak = [w \in Watchers |-> Null]

(* p = make_shared() or shared_ptr(pointer), p = q, p = move(q), p.reset() *)
(* or the end of p: what p had is released first.                          *)
Make(p, external, self) ==
  \E b \in Blocks : /\ Fresh(b)
                    /\ ctrl' = Released([ctrl EXCEPT ![b] = Created(external, self)], shared[p])
                    /\ shared' = [shared EXCEPT ![p] = b]
                    /\ UNCHANGED weak

AssignShared(p, q) == /\ p # q
                /\ ctrl' = Shared(Released(ctrl, shared[p]), shared[q])
                /\ shared' = [shared EXCEPT ![p] = shared[q]]
                /\ UNCHANGED weak

MoveShared(p, q) == /\ p # q
              /\ ctrl' = Released(ctrl, shared[p])
              /\ shared' = [shared EXCEPT ![p] = shared[q], ![q] = Null]
              /\ UNCHANGED weak

ResetShared(p) == /\ ctrl' = Released(ctrl, shared[p])
            /\ shared' = [shared EXCEPT ![p] = Null]
            /\ UNCHANGED weak

(* Assigning to the last weak pointer of an expired object leaks its       *)
(* block: the client lets such a pointer end instead.                      *)
LastWatcher(w) == weak[w] # Null /\ ctrl[weak[w]].strong = 0 /\ ctrl[weak[w]].weak = 1

(* w = p, through a temporary that is assigned and ends, and w = v.        *)
Watch(w, p) == /\ ~ LastWatcher(w)
               /\ ctrl' = Unwatched(Watched(Forgotten(Watched(ctrl, shared[p]), weak[w]), shared[p]), shared[p])
               /\ weak' = [weak EXCEPT ![w] = shared[p]]
               /\ UNCHANGED shared

AssignWeak(w, v) == /\ w # v /\ ~ LastWatcher(w)
                    /\ ctrl' = Watched(Forgotten(ctrl, weak[w]), weak[v])
                    /\ weak' = [weak EXCEPT ![w] = weak[v]]
                    /\ UNCHANGED shared

EndWeak(w) == /\ ctrl' = Unwatched(ctrl, weak[w])
              /\ weak' = [weak EXCEPT ![w] = Null]
              /\ UNCHANGED shared

Expired(w) == weak[w] = Null \/ ctrl[weak[w]].strong = 0

(* p = w.lock(): the locked pointer is moved to p.                         *)
Lock(p, w) ==
  LET b == IF Expired(w) THEN Null ELSE weak[w] IN
  /\ ctrl' = Released(Shared(ctrl, b), shared[p])
  /\ shared' = [shared EXCEPT ![p] = b]
  /\ UNCHANGED weak

(* p = q->shared_from_this().                                              *)
ShareThis(p, q) ==
  /\ shared[q] # Null /\ ctrl[shared[q]].self
  /\ ctrl' = Released(Shared(ctrl, shared[q]), shared[p])
  /\ shared' = [shared EXCEPT ![p] = shared[q]]
  /\ UNCHANGED weak

PtrStep ==
  \/ \E p \in Owners : \/ \E external, self \in BOOLEAN : Make(p, external, self)
                       \/ \E q \in Owners : AssignShared(p, q) \/ MoveShared(p, q) \/ ShareThis(p, q)
                       \/ ResetShared(p)
                       \/ \E w \in Watchers : Watch(w, p) \/ Lock(p, w)
  \/ \E w \in Watchers : EndWeak(w) \/ \E v \in Watchers : AssignWeak(w, v)

PtrSpec == PtrInit /\ [][PtrStep]_ptr_vars
-----------------------------------------------------------------------------
(* Properties.                                                             *)

TypeOK ==
  /\ \A b \in Blocks : ctrl[b].strong \in Nat /\ ctrl[b].weak \in Nat
  /\ shared \in [Owners -> Blocks \cup {Null}]
  /\ weak \in [Watchers -> Blocks \cup {Null}]

(* The counts are those of the pointers there are: so an object lives as   *)
(* long as somebody shares it, its block as long as somebody can see it,   *)
(* nothing is touched after it was freed, and nothing is left behind.      *)
CountsExact ==
  \A b \in Blocks :
    LET sharing == Cardinality({p \in Owners : shared[p] = b})
        watching == Cardinality({w \in Watchers : weak[w] = b})
        x == ctrl[b]
    IN /\ ~ x.touched
       /\ x.strong = sharing
       /\ x.weak = watching + (IF x.self THEN 1 ELSE 0) + (IF sharing > 0 THEN 1 ELSE 0)
       /\ x.object = "alive" <=> sharing > 0
       /\ x.object = "gone" => ~ x.external
       /\ x.freed <=> sharing + watching = 0
=============================================================================
