-------------------------------- MODULE Vector --------------------------------
(***************************************************************************)
(* acul::vector: a block of slots of which the first ones hold elements.   *)
(* The elements are objects, which are built in a slot, moved and          *)
(* destroyed, or plain values (trivially copyable), for which only what    *)
(* the slots hold matters.  A step that destroys or assigns what is not    *)
(* built, or builds over an object that still has its value, is a fault.   *)
(*                                                                         *)
(* The calls that would make one on objects are made on plain values only; *)
(* their guards (Replaceable, Copyable, Insertable) say when.  An argument *)
(* never refers to an element of the vector itself.                        *)
(***************************************************************************)
EXTENDS Alloc, Seqs

CONSTANTS Values,
          Default,          (* a value-initialized element                  *)
          Raw,              (* a slot in which nothing is built             *)
          Gone,             (* an object that has been moved from           *)
          Ranges,           (* what constructors, insert and assign get     *)
          Sizes,            (* what resize() and reserve() get              *)
          MaxSize,          (* bound: the client asks for no more elements  *)
          MaxOther          (* bound: nor gives more to the second vector   *)

VARIABLES vec, vec_other

vector_vars == <<vec, vec_other>>

Block(n) == [i \in 0 .. n - 1 |-> Raw]

NoVector(objects) == [slot |-> Block(0), size |-> 0, cap |-> 0, objects |-> objects, fault |-> FALSE]

HasValue(x) == x \notin {Raw, Gone}

Content(v) == [i \in 1 .. v.size |-> v.slot[i - 1]]

-----------------------------------------------------------------------------
(* One slot: placement new, assignment, destruction, moving out.           *)

Build(v, i, x) == [v EXCEPT !.slot[i] = x, !.fault = @ \/ (v.objects /\ HasValue(v.slot[i]))]

Set(v, i, x) == [v EXCEPT !.slot[i] = x, !.fault = @ \/ (v.objects /\ v.slot[i] = Raw)]

Destroy(v, i) == [v EXCEPT !.slot[i] = Raw, !.fault = @ \/ (v.objects /\ v.slot[i] = Raw)]

MoveOut(v, i) == IF v.objects THEN [v EXCEPT !.slot[i] = Gone] ELSE v

(* Many slots: of these loops none touches a slot twice.                   *)
DestroyAll(v, lo, hi) ==
  [v EXCEPT !.slot = [i \in DOMAIN @ |-> IF i \in lo .. hi - 1 THEN Raw ELSE @[i]],
            !.fault = @ \/ (v.objects /\ \E i \in lo .. hi - 1 : v.slot[i] = Raw)]

(* copy_construct and std::copy.                                           *)
BuildAll(v, at, s) ==
  [v EXCEPT !.slot = [i \in DOMAIN @ |-> IF i \in at .. at + Len(s) - 1 THEN s[i - at + 1] ELSE @[i]],
            !.fault = @ \/ (v.objects /\ \E i \in at .. at + Len(s) - 1 : HasValue(v.slot[i]))]

SetAll(v, s) ==
  [v EXCEPT !.slot = [i \in DOMAIN @ |-> IF i < Len(s) THEN s[i + 1] ELSE @[i]],
            !.fault = @ \/ (v.objects /\ \E i \in 0 .. Len(s) - 1 : v.slot[i] = Raw)]

-----------------------------------------------------------------------------
(* Blocks.                                                                 *)

(* reallocate: the elements are moved, and destroyed where they were.      *)
Reallocated(v, n) ==
  [v EXCEPT !.slot = [i \in 0 .. n - 1 |-> IF i < v.size THEN v.slot[i] ELSE Raw], !.cap = n,
            !.fault = @ \/ (v.objects /\ \E i \in 0 .. v.size - 1 : v.slot[i] = Raw)]

GrownByOne(v) == IF v.size = v.cap THEN Reallocated(v, GrowthSize(v.cap, v.cap + 1)) ELSE v

Reserve(v, n) == IF n <= v.cap THEN v ELSE Reallocated(v, n)

Larger(a, b) == IF a > b THEN a ELSE b

(* resize: new elements are built; plain ones hold whatever there was.     *)
Resize(v, n) ==
  LET big == IF n > v.cap THEN Reallocated(v, Larger(2 * v.cap, n)) ELSE v
      built == BuildAll(big, v.size, Repeated(n - v.size, IF v.objects THEN Default ELSE Raw))
  IN [IF n > v.size THEN built ELSE DestroyAll(v, n, v.size) EXCEPT !.size = n]

Clear(v) == [DestroyAll(v, 0, v.size) EXCEPT !.size = 0]

(* The constructors from a range, a list or a count, and of a copy.        *)
Constructed(objects, s) ==
  [NoVector(objects) EXCEPT !.slot = [i \in 0 .. Len(s) - 1 |-> s[i + 1]], !.size = Len(s), !.cap = Len(s)]

(* A new block takes the place of the old one and its elements.            *)
Replaced(v, s) == [Constructed(v.objects, s) EXCEPT !.fault = Clear(v).fault]

(* assign() of a range: what is too much is destroyed, the rest assigned.  *)
AssignRange(v, s) ==
  IF Len(s) > v.cap THEN Replaced(v, s)
  ELSE [SetAll(DestroyAll(v, Len(s), v.size), s) EXCEPT !.size = Len(s)]

(* operator= of a list and assign() of a count, which destroy nothing.     *)
AssignList(v, s) == IF Len(s) > v.cap THEN Replaced(v, s) ELSE [SetAll(v, s) EXCEPT !.size = Len(s)]

AssignCount(v, n, x) == AssignList(v, Repeated(n, x))

(* operator= of another vector: its capacity is taken over, so that what a *)
(* larger block has beyond it is out of reach.                             *)
CopyAssign(v, o) ==
  LET gone == DestroyAll(v, 0, v.size)
      big == IF v.cap < o.cap THEN Reallocated(gone, o.cap) 
             ELSE [gone EXCEPT !.cap = o.cap, !.slot = [i \in DOMAIN Block(o.cap) |-> @[i]]]
  IN [BuildAll(big, 0, Content(o)) EXCEPT !.size = o.size]

-----------------------------------------------------------------------------
(* Elements.                                                               *)

PushBack(v, x) == [Build(GrownByOne(v), v.size, x) EXCEPT !.size = @ + 1]

PopBack(v) == IF v.size = 0 THEN v ELSE [Destroy(v, v.size - 1) EXCEPT !.size = @ - 1]

(* The elements behind the erased ones are moved down, from the first on.  *)
MovedDown(v, first, count) ==
  LET Shift(into, i) == MoveOut(Set(into, i, into.slot[i + count]), i + count)
      done[n \in 0 .. v.size - count - first] == IF n = 0 THEN v ELSE Shift(done[n - 1], first + n - 1)
  IN done[v.size - count - first]

(* Mutant: the element after the erased ones is destroyed, not the last.   *)
EraseFirstLeft(v, first, last) ==
  [DestroyAll(MovedDown(v, first, last - first), first, last) EXCEPT !.size = @ - (last - first)]

(* erase of one element or a range: the last slots are left over.          *)
Erase(v, first, last) ==
  [DestroyAll(MovedDown(v, first, last - first), v.size - (last - first), v.size) EXCEPT !.size = @ - (last - first)]

(* Every element behind is built further on, from the last on, and then    *)
(* destroyed where it was or left there, moved from.                       *)
MovedUp(v, pos, count, destroyed) ==
  LET Built(into, i) == Build(into, i + count, into.slot[i])
      Shift(into, i) == IF destroyed THEN Destroy(Built(into, i), i) ELSE MoveOut(Built(into, i), i)
      done[n \in 0 .. v.size - pos] == IF n = 0 THEN v ELSE Shift(done[n - 1], v.size - n)
  IN IF pos = v.size THEN v ELSE done[v.size - pos]

(* insert of one element.                                                  *)
Insert(v, pos, x) ==
  LET big == IF v.size = v.cap THEN Reserve(v, IF v.cap = 0 THEN 1 ELSE v.cap * 2) ELSE v
  IN [Build(MovedUp(big, pos, 1, TRUE), pos, x) EXCEPT !.size = @ + 1]

(* Mutant: the elements behind are moved up from the first one on.         *)
MoveElementsForward(v, pos, count) ==
  LET Shift(into, i) == MoveOut(Build(into, i + count, into.slot[i]), i)
      done[n \in 0 .. v.size - pos] == IF n = 0 THEN v ELSE Shift(done[n - 1], pos + n - 1)
  IN done[v.size - pos]

(* move_elements_backward.                                                 *)
MoveElementsBackward(v, pos, count) == MovedUp(v, pos, count, FALSE)

(* insert of a range or a count: the objects that have been moved from are *)
(* never destroyed.                                                        *)
InsertRange(v, pos, s) ==
  LET cap == Larger(2 * v.cap, v.size + Len(s))
      filled == WithInserted(Content(v), pos, s)
  IN IF v.size + Len(s) > v.cap
       THEN [v EXCEPT !.slot = [i \in 0 .. cap - 1 |-> IF i < Len(filled) THEN filled[i + 1] ELSE Raw],
                      !.cap = cap, !.size = Len(filled)]
     ELSE [BuildAll(MoveElementsBackward(v, pos, Len(s)), pos, s) EXCEPT !.size = @ + Len(s)]

InsertCount(v, pos, n, x) == InsertRange(v, pos, Repeated(n, x))

-----------------------------------------------------------------------------
(* The client.                                                             *)

VectorInit == \E objects \in BOOLEAN : vec = NoVector(objects) /\ vec_other = NoVector(objects)

(* Objects can be assigned to where there are as many.                     *)
Replaceable(n, most) == ~ vec.objects \/ n > vec.cap \/ (n <= vec.size /\ vec.size - n <= most)

(* Objects are not to be moved after they have been destroyed.             *)
Copyable(v, o) == ~ v.objects \/ v.size = 0 \/ v.cap >= o.cap

(* Inserting nothing before objects moves each of them onto itself.        *)
Insertable(pos, n) == ~ vec.objects \/ n > 0 \/ pos = vec.size

Becomes(v) == v.size <= MaxSize /\ vec' = v /\ UNCHANGED vec_other

Push(x) == Becomes(PushBack(vec, x))

Pop == Becomes(PopBack(vec))

InsertOne(pos, x) == pos <= vec.size /\ Becomes(Insert(vec, pos, x))

InsertMany(pos, s) == pos <= vec.size /\ Insertable(pos, Len(s)) /\ Becomes(InsertRange(vec, pos, s))

InsertSame(pos, n, x) == pos <= vec.size /\ Becomes(InsertCount(vec, pos, n, x))

EraseMany(first, last) == first < last /\ last <= vec.size /\ Becomes(Erase(vec, first, last))

ResizeTo(n) == Becomes(Resize(vec, n))

ReserveFor(n) == Becomes(Reserve(vec, n))

ClearAll == Becomes(Clear(vec))

AssignMany(s) ==
  \/ Replaceable(Len(s), vec.size) /\ Becomes(AssignRange(vec, s))
  \/ Replaceable(Len(s), 0) /\ Becomes(AssignList(vec, s))

AssignSame(n, x) == Replaceable(n, 0) /\ Becomes(AssignCount(vec, n, x))

(* A second vector is built, or assigned to from the first one, takes its  *)
(* block, or changes places with it.                                       *)
Gives(v, other) == other.size <= MaxOther /\ vec' = v /\ vec_other' = other

Construct(s) == Gives(vec, Constructed(vec.objects, s))

CopyConstruct == Gives(vec, Constructed(vec.objects, Content(vec)))

Copy == Copyable(vec_other, vec) /\ Gives(vec, CopyAssign(vec_other, vec))

Move == Gives(NoVector(vec.objects), vec)

Swap == Gives(vec_other, vec)

(* release(): the block is the caller's.                                   *)
Release == Becomes(NoVector(vec.objects))

VectorStep ==
  \/ \E x \in Values : Push(x)
  \/ \E pos \in 0 .. MaxSize : \/ \E x \in Values : InsertOne(pos, x) \/ InsertSame(pos, 2, x)
                              \/ \E s \in Ranges : InsertMany(pos, s)
  \/ \E first, last \in 0 .. MaxSize : EraseMany(first, last)
  \/ \E n \in Sizes : ResizeTo(n) \/ ReserveFor(n) \/ \E x \in Values : AssignSame(n, x)
  \/ \E s \in Ranges : AssignMany(s) \/ Construct(s)
  \/ Pop \/ ClearAll \/ CopyConstruct \/ Copy \/ Move \/ Swap \/ Release

VectorSpec == VectorInit /\ [][VectorStep]_vector_vars
-----------------------------------------------------------------------------
(* Properties.                                                             *)

(* The elements of a vector are built and have not been moved from, there  *)
(* are none behind them, and no step to get there has been a fault.        *)
Alive(v) ==
  /\ ~ v.fault
  /\ v.size <= v.cap /\ v.slot \in [0 .. v.cap - 1 -> Values \cup {Default, Raw, Gone}]
  /\ v.objects => \A i \in DOMAIN v.slot : IF i < v.size THEN HasValue(v.slot[i]) ELSE v.slot[i] = Raw

VectorElementsAlive == Alive(vec) /\ Alive(vec_other)

(* Every call changes the sequence as it says, whether it finds room in    *)
(* the block or not.                                                       *)
VectorCallsAgree ==
  LET s == Content(vec) IN
  /\ \A pos \in 0 .. vec.size, x \in Values :
       /\ Content(Insert(vec, pos, x)) = WithInserted(s, pos, <<x>>)
       /\ \A q \in Ranges : Insertable(pos, Len(q)) => Content(InsertRange(vec, pos, q)) = WithInserted(s, pos, q)
       /\ \A last \in pos + 1 .. vec.size : Content(Erase(vec, pos, last)) = WithoutPart(s, pos, last)
  /\ \A x \in Values : Content(PushBack(vec, x)) = Append(s, x)
  /\ \A n \in Sizes :
       LET t == Content(Resize(vec, n)) IN
       /\ Content(Reserve(vec, n)) = s
       /\ IF vec.objects THEN t = Resized(s, n, Default) ELSE Len(t) = n /\ \A i \in DOMAIN s \cap DOMAIN t : t[i] = s[i]
  /\ \A q \in Ranges : Replaceable(Len(q), vec.size) => Content(AssignRange(vec, q)) = q
  /\ Copyable(vec_other, vec) => Content(CopyAssign(vec_other, vec)) = s
=============================================================================
