------------------------------ MODULE MemoryProofs ------------------------------
(***************************************************************************)
(* Theorems about what the library frees for its client: the objects of    *)
(* SharedPtr, the targets of Callable and the buffers of DisposalQueue,    *)
(* for any number of pointers and blocks, of functions and targets, of     *)
(* threads and pushes.                                                     *)
(*                                                                         *)
(* Pointers: every operation on a control block changes how many shared    *)
(* and how many weak pointers the block fits by one (the lemmas on Shared, *)
(* Released, Watched, Forgotten and Unwatched), and every assignment of a  *)
(* pointer takes one away where it pointed and adds one where it points    *)
(* (CountsOfAssigned): a call keeps the two together.                      *)
(*                                                                         *)
(* Functions: Owned(s, h) says that the functions of memory s have the     *)
(* targets h gives them, each its own.  What the tables do (Reset, Place,  *)
(* MoveFrom, CopyFrom) keeps it and changes h as it is meant to, and every *)
(* call of the client is a few of these.                                   *)
(*                                                                         *)
(* The queue: an entry is in one place: in the queue, in the hands of one  *)
(* flush(), or done with.  Where it is says how much of what is to be seen *)
(* of it has been seen (Reached), and what it has seen is that much of     *)
(* Whole.                                                                  *)
(***************************************************************************)
EXTENDS SharedPtr, Callable, DisposalQueue, Integers,
        FiniteSetTheorems, SequenceTheorems, WellFoundedInduction, TLAPS

-----------------------------------------------------------------------------
(* Pointers.                                                               *)

(* There are finitely many pointers, and no block is no block.             *)
PointersAssumption ==
  IsFiniteSet(Owners) /\ IsFiniteSet(Watchers) /\ Null \notin Blocks

-----------------------------------------------------------------------------
(* The inductive invariant.                                                *)

Block == [strong : Nat, weak : Nat, object : {"none", "alive", "gone", "returned"},
          external : BOOLEAN, self : BOOLEAN, freed : BOOLEAN, touched : BOOLEAN]

(* Block x has s shared and w weak pointers to it.  The object has none to *)
(* itself when nobody shares it.                                           *)
Fits(x, s, w) ==
  /\ x \in Block
  /\ ~ x.touched
  /\ x.strong = s
  /\ x.weak = w + (IF x.self THEN 1 ELSE 0) + (IF s > 0 THEN 1 ELSE 0)
  /\ x.object = "alive" <=> s > 0
  /\ x.object = "gone" => ~ x.external
  /\ x.freed <=> s + w = 0
  /\ x.self => s > 0

(* How many of the pointers in S, which point where f says, point to each  *)
(* block.                                                                  *)
Counts(S, f) == [b \in Blocks |-> Cardinality({p \in S : f[p] = b})]

AllFit(c, s, w) == c = [b \in Blocks |-> c[b]] /\ \A b \in Blocks : Fits(c[b], s[b], w[b])

PointersInv ==
  /\ shared \in [Owners -> Blocks \cup {Null}]
  /\ weak \in [Watchers -> Blocks \cup {Null}]
  /\ AllFit(ctrl, Counts(Owners, shared), Counts(Watchers, weak))

(* One pointer more, one less.                                             *)
More(s, b) == IF b = Null THEN s ELSE [s EXCEPT ![b] = @ + 1]

Less(s, b) == IF b = Null THEN s ELSE [s EXCEPT ![b] = @ - 1]

-----------------------------------------------------------------------------
(* Counts.                                                                 *)

(* Counts are numbers.                                                     *)
LEMMA CountsType ==
  ASSUME NEW S, IsFiniteSet(S), NEW f
  PROVE  Counts(S, f) \in [Blocks -> Nat]
<1>1. ASSUME NEW b PROVE Cardinality({p \in S : f[p] = b}) \in Nat
  <2>1. IsFiniteSet({p \in S : f[p] = b})
    BY FS_Subset
  <2> QED
    BY <2>1, FS_CardinalityType
<1> QED
  BY <1>1 DEF Counts

(* What a pointer points to has a pointer to it; and another one, when     *)
(* that pointer is left out.                                               *)
LEMMA Counted ==
  ASSUME NEW S, IsFiniteSet(S), NEW f, NEW p \in S, f[p] \in Blocks
  PROVE  /\ Counts(S, f)[f[p]] \in Nat \ {0}
         /\ \A q \in S \ {p} : f[q] = f[p] => Counts(S, f)[f[p]] - 1 \in Nat \ {0}
<1> DEFINE T == {q \in S : f[q] = f[p]}
<1>1. IsFiniteSet(T) /\ p \in T
  BY FS_Subset
<1>2. Counts(S, f)[f[p]] = Cardinality(T)
  BY DEF Counts
<1>3. IsFiniteSet(T \ {p}) /\ Cardinality(T \ {p}) = Cardinality(T) - 1
  BY <1>1, FS_RemoveElement
<1>4. Cardinality(T) \in Nat /\ Cardinality(T \ {p}) \in Nat
  BY <1>1, <1>3, FS_CardinalityType
<1>5. Cardinality(T) # 0
  BY <1>1, FS_EmptySet
<1>6. ASSUME NEW q \in S \ {p}, f[q] = f[p] PROVE Cardinality(T \ {p}) # 0
  <2>1. q \in T \ {p}
    BY <1>6
  <2> QED
    BY <1>3, <2>1, FS_EmptySet
<1> QED
  BY <1>2, <1>3, <1>4, <1>5, <1>6

(* An assignment takes one pointer away and adds one.                      *)
LEMMA CountsOfAssigned ==
  ASSUME PointersAssumption,
         NEW S, IsFiniteSet(S), NEW f \in [S -> Blocks \cup {Null}],
         NEW p \in S, NEW v \in Blocks \cup {Null},
         NEW g \in [S -> Blocks \cup {Null}], g[p] = v, \A q \in S \ {p} : g[q] = f[q]
  PROVE  Counts(S, g) = More(Less(Counts(S, f), f[p]), v)
<1> DEFINE T(b) == {q \in S : f[q] = b}
           U(b) == {q \in S : g[q] = b}
<1>1. Counts(S, f) \in [Blocks -> Nat]
  BY CountsType
<1>2. ASSUME NEW b \in Blocks
      PROVE  Cardinality(U(b)) = Cardinality(T(b)) - (IF f[p] = b THEN 1 ELSE 0)
                                 + (IF v = b THEN 1 ELSE 0)
  <2>1. IsFiniteSet(T(b))
    BY FS_Subset
  <2>2. /\ IsFiniteSet(T(b) \ {p})
        /\ Cardinality(T(b) \ {p}) =
             IF p \in T(b) THEN Cardinality(T(b)) - 1 ELSE Cardinality(T(b))
    BY <2>1, FS_RemoveElement
  <2>3. /\ Cardinality((T(b) \ {p}) \cup {p}) =
             IF p \in T(b) \ {p} THEN Cardinality(T(b) \ {p})
                                 ELSE Cardinality(T(b) \ {p}) + 1
    BY <2>2, FS_AddElement
  <2>4. p \in T(b) <=> f[p] = b
    OBVIOUS
  <2>5. U(b) = IF v = b THEN (T(b) \ {p}) \cup {p} ELSE T(b) \ {p}
    <3>1. CASE v = b
      BY <3>1
    <3>2. CASE v # b
      BY <3>2
    <3> QED
      BY <3>1, <3>2
  <2>6. Cardinality(T(b)) \in Nat
    BY <2>1, FS_CardinalityType
  <2> HIDE DEF T, U
  <2> QED
    BY <2>2, <2>3, <2>4, <2>5, <2>6
<1>3. \A b \in Blocks : /\ Counts(S, f)[b] = Cardinality(T(b))
                        /\ Counts(S, g)[b] = Cardinality(U(b))
  BY DEF Counts
<1>4. Counts(S, g) \in [Blocks -> Nat]
  BY CountsType
<1>5. f[p] \in Blocks \cup {Null}
  OBVIOUS
<1> HIDE DEF T, U
<1> DEFINE s == Counts(S, f)
           h == Counts(S, g)
<1>6. \A b \in Blocks : h[b] = s[b] - (IF f[p] = b THEN 1 ELSE 0) + (IF v = b THEN 1 ELSE 0)
  BY <1>2, <1>3
<1>7. h = More(Less(s, f[p]), v)
  <2> HIDE DEF s, h
  <2>1. s \in [Blocks -> Nat] /\ h \in [Blocks -> Nat]
    BY <1>1, <1>4 DEF s, h
  <2>2. ASSUME NEW b \in Blocks PROVE h[b] = More(Less(s, f[p]), v)[b]
    BY <1>5, <1>6, <2>1 DEF More, Less, PointersAssumption
  <2>3. /\ DOMAIN More(Less(s, f[p]), v) = Blocks
        /\ More(Less(s, f[p]), v) = [b \in Blocks |-> More(Less(s, f[p]), v)[b]]
    BY <2>1 DEF More, Less
  <2> QED
    BY <2>1, <2>2, <2>3
<1> QED
  BY <1>7

-----------------------------------------------------------------------------
(* Control blocks.                                                         *)

(* What is done to a block that is not freed leaves no trace of a touch.   *)
LEMMA ChangeLive ==
  ASSUME PointersAssumption, NEW c \in [Blocks -> Block], NEW b \in Blocks,
         NEW x \in Block, ~ c[b].freed
  PROVE  /\ Change(c, b, x) = [c EXCEPT ![b] = x]
         /\ Change(c, b, x) \in [Blocks -> Block]
         /\ Change(c, b, x)[b] = x
<1>1. b # Null
  BY DEF PointersAssumption
<1>2. x.touched \in BOOLEAN /\ ~ c[b].freed
  BY DEF Block
<1>3. (x.touched \/ c[b].freed) = x.touched
  BY <1>2
<1>4. [x EXCEPT !.touched = @ \/ c[b].freed] = x
  <2>1. [x EXCEPT !.touched = x.touched] = x
    BY DEF Block
  <2> QED
    BY <1>3, <2>1
<1> QED
  BY <1>1, <1>4 DEF Change

(* A block that fits its pointers takes the place of another.              *)
LEMMA AllFitChanged ==
  ASSUME NEW c, NEW s \in [Blocks -> Nat], NEW w \in [Blocks -> Nat], AllFit(c, s, w),
         NEW b \in Blocks, NEW x, NEW m, NEW n, Fits(x, m, n)
  PROVE  AllFit([c EXCEPT ![b] = x], [s EXCEPT ![b] = m], [w EXCEPT ![b] = n])
BY DEF AllFit

(* Blocks that fit their pointers are blocks; one with a pointer to it is  *)
(* not freed.                                                              *)
LEMMA FitFacts ==
  ASSUME NEW c, NEW s \in [Blocks -> Nat], NEW w \in [Blocks -> Nat], AllFit(c, s, w)
  PROVE  /\ c \in [Blocks -> Block]
         /\ \A b \in Blocks :
              /\ Fits(c[b], s[b], w[b]) /\ s[b] \in Nat /\ w[b] \in Nat
              /\ s[b] > 0 \/ w[b] > 0 => ~ c[b].freed
<1>1. \A b \in Blocks : Fits(c[b], s[b], w[b]) /\ s[b] \in Nat /\ w[b] \in Nat
  BY DEF AllFit
<1>2. \A b \in Blocks : c[b] \in Block /\ c[b].freed \in BOOLEAN
  BY <1>1 DEF Fits, Block
<1>3. c \in [Blocks -> Block]
  BY <1>2 DEF AllFit
<1>4. ASSUME NEW b \in Blocks, s[b] > 0 \/ w[b] > 0 PROVE ~ c[b].freed
  <2>1. s[b] + w[b] # 0
    BY <1>1, <1>4
  <2>2. ~ c[b].freed
    BY <1>1, <2>1 DEF Fits
  <2> QED
    BY <1>2, <2>2
<1> QED
  BY <1>1, <1>3, <1>4

(* So a change of a block that is not freed keeps all blocks fitting.      *)
LEMMA ChangeFits ==
  ASSUME PointersAssumption, NEW c, NEW s \in [Blocks -> Nat], NEW w \in [Blocks -> Nat],
         AllFit(c, s, w), NEW b \in Blocks, s[b] > 0 \/ w[b] > 0,
         NEW x, NEW m \in Nat, NEW n \in Nat, Fits(x, m, n)
  PROVE  /\ AllFit(Change(c, b, x), [s EXCEPT ![b] = m], [w EXCEPT ![b] = n])
         /\ m = s[b] => [s EXCEPT ![b] = m] = s
         /\ n = w[b] => [w EXCEPT ![b] = n] = w
<1>1. c \in [Blocks -> Block]
  BY FitFacts
<1>5. ~ c[b].freed
  BY FitFacts
<1>2. x \in Block
  BY DEF Fits
<1>6. PointersAssumption /\ b \in Blocks
  OBVIOUS
<1>7. \A y \in Block : Change(c, b, y) = [c EXCEPT ![b] = y]
  BY <1>1, <1>5, <1>6, ChangeLive
<1>3. Change(c, b, x) = [c EXCEPT ![b] = x]
  BY <1>2, <1>7
<1>4. AllFit([c EXCEPT ![b] = x], [s EXCEPT ![b] = m], [w EXCEPT ![b] = n])
  BY AllFitChanged
<1> QED
  BY <1>3, <1>4

(* increment_shared.                                                       *)
LEMMA SharedFits ==
  ASSUME PointersAssumption, NEW c, NEW s \in [Blocks -> Nat], NEW w \in [Blocks -> Nat],
         AllFit(c, s, w), NEW b \in Blocks \cup {Null}, b # Null => s[b] > 0
  PROVE  AllFit(Shared(c, b), More(s, b), w) /\ More(s, b) \in [Blocks -> Nat]
<1>1. CASE b = Null
  BY <1>1 DEF Shared, More
<1>2. CASE b # Null
  <2> DEFINE x == [c[b] EXCEPT !.strong = @ + 1]
  <2>1. /\ b \in Blocks /\ Fits(c[b], s[b], w[b]) /\ s[b] \in Nat /\ w[b] \in Nat
        /\ s[b] > 0
        /\ s[b] > 0 \/ w[b] > 0
    BY <1>2, FitFacts
  <2>2. s[b] + 1 \in Nat /\ w[b] \in Nat
    BY <2>1
  <2>3. Fits(x, s[b] + 1, w[b])
    BY <2>1 DEF Fits, Block
  <2>4. Shared(c, b) = Change(c, b, x)
    BY <1>2 DEF Shared
  <2> HIDE DEF x
  <2>5. /\ AllFit(Change(c, b, x), [s EXCEPT ![b] = s[b] + 1], [w EXCEPT ![b] = w[b]])
        /\ [w EXCEPT ![b] = w[b]] = w
    BY <2>1, <2>2, <2>3, ChangeFits
  <2> QED
    BY <1>2, <2>2, <2>4, <2>5 DEF More
<1> QED
  BY <1>1, <1>2

(* increment_weak.                                                         *)
LEMMA WatchedFits ==
  ASSUME PointersAssumption, NEW c, NEW s \in [Blocks -> Nat], NEW w \in [Blocks -> Nat],
         AllFit(c, s, w), NEW b \in Blocks \cup {Null}, b # Null => (s[b] > 0 \/ w[b] > 0)
  PROVE  AllFit(Watched(c, b), s, More(w, b)) /\ More(w, b) \in [Blocks -> Nat]
<1>1. CASE b = Null
  BY <1>1 DEF Watched, More
<1>2. CASE b # Null
  <2> DEFINE x == [c[b] EXCEPT !.weak = @ + 1]
  <2>1. /\ b \in Blocks /\ Fits(c[b], s[b], w[b]) /\ s[b] \in Nat /\ w[b] \in Nat
        /\ (s[b] > 0 \/ w[b] > 0)
        /\ s[b] > 0 \/ w[b] > 0
    BY <1>2, FitFacts
  <2>2. s[b] \in Nat /\ w[b] + 1 \in Nat
    BY <2>1
  <2>3. Fits(x, s[b], w[b] + 1)
    BY <2>1 DEF Fits, Block
  <2>4. Watched(c, b) = Change(c, b, x)
    BY <1>2 DEF Watched
  <2> HIDE DEF x
  <2>5. /\ AllFit(Change(c, b, x), [s EXCEPT ![b] = s[b]], [w EXCEPT ![b] = w[b] + 1])
        /\ [s EXCEPT ![b] = s[b]] = s
    BY <2>1, <2>2, <2>3, ChangeFits
  <2> QED
    BY <1>2, <2>2, <2>4, <2>5 DEF More
<1> QED
  BY <1>1, <1>2

(* decrement_weak alone: the block still has a pointer afterwards.         *)
LEMMA ForgottenFits ==
  ASSUME PointersAssumption, NEW c, NEW s \in [Blocks -> Nat], NEW w \in [Blocks -> Nat],
         AllFit(c, s, w), NEW b \in Blocks \cup {Null}, b # Null => w[b] > 0 /\ (s[b] > 0 \/ w[b] > 1)
  PROVE  AllFit(Forgotten(c, b), s, Less(w, b)) /\ Less(w, b) \in [Blocks -> Nat]
<1>1. CASE b = Null
  BY <1>1 DEF Forgotten, Less
<1>2. CASE b # Null
  <2> DEFINE x == [c[b] EXCEPT !.weak = @ - 1]
  <2>1. /\ b \in Blocks /\ Fits(c[b], s[b], w[b]) /\ s[b] \in Nat /\ w[b] \in Nat
        /\ w[b] > 0 /\ (s[b] > 0 \/ w[b] > 1)
        /\ s[b] > 0 \/ w[b] > 0
    BY <1>2, FitFacts
  <2>2. s[b] \in Nat /\ w[b] - 1 \in Nat
    BY <2>1
  <2>3. Fits(x, s[b], w[b] - 1)
    BY <2>1 DEF Fits, Block
  <2>4. Forgotten(c, b) = Change(c, b, x)
    BY <1>2 DEF Forgotten
  <2> HIDE DEF x
  <2>5. /\ AllFit(Change(c, b, x), [s EXCEPT ![b] = s[b]], [w EXCEPT ![b] = w[b] - 1])
        /\ [s EXCEPT ![b] = s[b]] = s
    BY <2>1, <2>2, <2>3, ChangeFits
  <2> QED
    BY <1>2, <2>2, <2>4, <2>5 DEF Less
<1> QED
  BY <1>1, <1>2

(* The destructor of a weak pointer frees the block with the last pointer. *)
LEMMA UnwatchedFits ==
  ASSUME PointersAssumption, NEW c, NEW s \in [Blocks -> Nat], NEW w \in [Blocks -> Nat],
         AllFit(c, s, w), NEW b \in Blocks \cup {Null}, b # Null => w[b] > 0
  PROVE  AllFit(Unwatched(c, b), s, Less(w, b)) /\ Less(w, b) \in [Blocks -> Nat]
<1>1. CASE b = Null
  BY <1>1 DEF Unwatched, Less
<1>2. CASE b # Null
  <2> DEFINE last == c[b].strong = 0 /\ c[b].weak = 1
             x == [c[b] EXCEPT !.weak = @ - 1, !.freed = @ \/ last]
  <2>1. /\ b \in Blocks /\ Fits(c[b], s[b], w[b]) /\ s[b] \in Nat /\ w[b] \in Nat
        /\ w[b] > 0
        /\ s[b] > 0 \/ w[b] > 0
    BY <1>2, FitFacts
  <2>2. s[b] \in Nat /\ w[b] - 1 \in Nat
    BY <2>1
  <2>3. Fits(x, s[b], w[b] - 1)
    <3>8. ~ c[b].freed /\ c[b] \in Block
      BY <2>1, FitFacts
    <3>1. c[b].freed = FALSE /\ c[b] \in Block
      BY <3>8 DEF Block
    <3>2. last <=> s[b] + (w[b] - 1) = 0
      BY <2>1 DEF Fits
    <3> DEFINE y == [c[b] EXCEPT !.weak = @ - 1]
    <3>3. y \in Block /\ y.freed = FALSE
      BY <2>1, <3>1 DEF Fits, Block
    <3>4. x = [y EXCEPT !.freed = last]
      BY <3>1 DEF Block
    <3>5. CASE last
      <4>1. x = [y EXCEPT !.freed = TRUE]
        BY <3>4, <3>5
      <4> HIDE DEF x, last
      <4>2. /\ x \in Block /\ x.strong = c[b].strong /\ x.weak = c[b].weak - 1
            /\ x.object = c[b].object
        BY <3>3, <4>1 DEF Block
      <4>3. /\ x.touched = c[b].touched /\ x.external = c[b].external
            /\ x.self = c[b].self /\ x.freed = TRUE
        BY <3>3, <4>1 DEF Block
      <4> HIDE DEF y
      <4> QED
        BY <2>1, <3>2, <3>5, <4>2, <4>3 DEF Fits
    <3>6. CASE ~ last
      <4>1. x = [y EXCEPT !.freed = FALSE]
        BY <3>4, <3>6
      <4> HIDE DEF x, last
      <4>2. /\ x \in Block /\ x.strong = c[b].strong /\ x.weak = c[b].weak - 1
            /\ x.object = c[b].object
        BY <3>3, <4>1 DEF Block
      <4>3. /\ x.touched = c[b].touched /\ x.external = c[b].external
            /\ x.self = c[b].self /\ x.freed = FALSE
        BY <3>3, <4>1 DEF Block
      <4> HIDE DEF y
      <4> QED
        BY <2>1, <3>2, <3>6, <4>2, <4>3 DEF Fits
    <3> QED
      BY <3>5, <3>6
  <2>4. Unwatched(c, b) = Change(c, b, x)
    BY <1>2 DEF Unwatched
  <2> HIDE DEF x
  <2>5. /\ AllFit(Change(c, b, x), [s EXCEPT ![b] = s[b]], [w EXCEPT ![b] = w[b] - 1])
        /\ [s EXCEPT ![b] = s[b]] = s
    BY <2>1, <2>2, <2>3, ChangeFits
  <2> QED
    BY <1>2, <2>2, <2>4, <2>5 DEF Less
<1> QED
  BY <1>1, <1>2

(* What release() does when it has taken the last shared pointer off.      *)
ReleasedLast(less, b) ==
  LET gone == Destroyed(less, b)
      back == Change(gone, b, [gone[b] EXCEPT !.object = IF @ = "gone" /\ gone[b].external THEN "returned" ELSE @])
  IN Change(back, b, [back[b] EXCEPT !.weak = @ - 1, !.freed = @ \/ back[b].weak = 1])

(* The object is destroyed, and its weak pointer to itself goes with it;   *)
(* the block stays, for the shared pointers there were.                    *)
LEMMA DestroyedFits ==
  ASSUME PointersAssumption, NEW c \in [Blocks -> Block], NEW b \in Blocks, NEW n \in Nat,
         ~ c[b].freed, ~ c[b].touched, c[b].strong = 0,
         c[b].weak = n + (IF c[b].self THEN 1 ELSE 0) + 1
  PROVE  \E u \in Block :
           /\ Destroyed(c, b) = [c EXCEPT ![b] = u]
           /\ ~ u.freed /\ ~ u.touched /\ u.strong = 0 /\ u.weak = n + 1
           /\ u.object = "gone" /\ u.external = c[b].external /\ ~ u.self
<1> DEFINE g == [c[b] EXCEPT !.object = "gone", !.self = FALSE]
           gone == Change(c, b, g)
<1>1. /\ g \in Block /\ ~ g.freed /\ ~ g.touched /\ g.strong = 0 /\ g.weak = c[b].weak
      /\ g.object = "gone" /\ g.external = c[b].external /\ ~ g.self
  BY DEF Block
<1>2. Destroyed(c, b) = IF c[b].self THEN Unwatched(gone, b) ELSE gone
  BY DEF Destroyed
<1> HIDE DEF g
<1>3. gone = [c EXCEPT ![b] = g] /\ gone \in [Blocks -> Block] /\ gone[b] = g
  BY <1>1, ChangeLive
<1> HIDE DEF gone
<1>4. CASE ~ c[b].self
  <2>1. c[b].weak = n + 1
    BY <1>4
  <2> QED
    BY <1>1, <1>2, <1>3, <1>4, <2>1
<1>5. CASE c[b].self
  <2> DEFINE last == gone[b].strong = 0 /\ gone[b].weak = 1
             u == [gone[b] EXCEPT !.weak = @ - 1, !.freed = @ \/ last]
  <2>1. c[b].weak = n + 2
    BY <1>5
  <2>2. ~ last
    BY <1>1, <1>3, <2>1
  <2>3. (gone[b].freed \/ last) = FALSE
    BY <1>1, <1>3, <2>2
  <2>4. b # Null
    BY DEF PointersAssumption
  <2>5. Unwatched(gone, b) = Change(gone, b, u)
    BY <2>4 DEF Unwatched
  <2>13. gone[b].weak - 1 = n + 1
    BY <1>1, <1>3, <2>1
  <2> HIDE DEF last
  <2>6. u = [g EXCEPT !.weak = n + 1, !.freed = FALSE]
    BY <1>3, <2>3, <2>13
  <2>7. /\ u \in Block /\ ~ u.freed /\ ~ u.touched /\ u.strong = 0 /\ u.weak = n + 1
        /\ u.object = "gone" /\ u.external = c[b].external /\ ~ u.self
    <3> DEFINE h == [g EXCEPT !.weak = n + 1]
    <3>1. /\ h \in Block /\ ~ h.touched /\ h.strong = 0 /\ h.weak = n + 1
          /\ h.object = "gone" /\ h.external = c[b].external /\ ~ h.self
      BY <1>1 DEF Block
    <3>2. u = [h EXCEPT !.freed = FALSE]
      BY <2>6
    <3> HIDE DEF u, h
    <3> QED
      BY <3>1, <3>2 DEF Block
  <2> HIDE DEF u
  <2>8. ~ gone[b].freed
    BY <1>1, <1>3
  <2>12. u \in Block
    BY <2>7
  <2>14. gone \in [Blocks -> Block]
    BY <1>3
  <2>9. Change(gone, b, u) = [gone EXCEPT ![b] = u]
    <3> SUFFICES ASSUME NEW e \in [Blocks -> Block], e = gone, NEW y \in Block, y = u
                 PROVE  Change(e, b, y) = [e EXCEPT ![b] = y]
      BY <2>12, <2>14
    <3>1. ~ e[b].freed
      BY <2>8
    <3> QED
      BY <3>1, ChangeLive
  <2>10. [gone EXCEPT ![b] = u] = [c EXCEPT ![b] = u]
    BY <1>3
  <2>11. Destroyed(c, b) = [c EXCEPT ![b] = u]
    BY <1>2, <1>5, <2>5, <2>9, <2>10
  <2> QED
    BY <2>7, <2>11
<1> QED
  BY <1>4, <1>5

(* The object is given back if it was the client's, and the block is freed *)
(* unless somebody watches it.                                             *)
LEMMA LastFits ==
  ASSUME PointersAssumption, NEW c \in [Blocks -> Block], NEW b \in Blocks, NEW n \in Nat,
         ~ c[b].freed, ~ c[b].touched, c[b].strong = 0,
         c[b].weak = n + (IF c[b].self THEN 1 ELSE 0) + 1
  PROVE  \E z \in Block : ReleasedLast(c, b) = [c EXCEPT ![b] = z] /\ Fits(z, 0, n)
<1>1. PICK u \in Block :
           /\ Destroyed(c, b) = [c EXCEPT ![b] = u]
           /\ ~ u.freed /\ ~ u.touched /\ u.strong = 0 /\ u.weak = n + 1
           /\ u.object = "gone" /\ u.external = c[b].external /\ ~ u.self
  BY DestroyedFits
<1> DEFINE gone == Destroyed(c, b)
           v == [gone[b] EXCEPT !.object = IF @ = "gone" /\ gone[b].external THEN "returned" ELSE @]
           back == Change(gone, b, v)
           last == back[b].weak = 1
           z == [back[b] EXCEPT !.weak = @ - 1, !.freed = @ \/ last]
<1>2. ReleasedLast(c, b) = Change(back, b, z)
  BY DEF ReleasedLast
<1>3. gone \in [Blocks -> Block] /\ gone[b] = u
  BY <1>1
<1> HIDE DEF gone
<1>4. v = IF u.external THEN [u EXCEPT !.object = "returned"] ELSE u
  <2>1. CASE u.external
    BY <1>1, <1>3, <2>1
  <2>2. CASE ~ u.external
    <3>1. v = [u EXCEPT !.object = u.object]
      BY <1>3, <2>2
    <3> QED
      BY <2>2, <3>1 DEF Block
  <2> QED
    BY <2>1, <2>2
<1> HIDE DEF v
<1>5. /\ v \in Block /\ ~ v.freed /\ ~ v.touched /\ v.strong = 0
      /\ v.weak = n + 1 /\ v.object \in {"gone", "returned"} /\ ~ v.self
      /\ v.object = "gone" => ~ v.external
  <2>1. CASE u.external
    BY <1>1, <1>4, <2>1 DEF Block
  <2>2. CASE ~ u.external
    BY <1>1, <1>4, <2>2
  <2> QED
    BY <2>1, <2>2
<1>6. ~ gone[b].freed
  BY <1>1, <1>3
<1>7. back = [gone EXCEPT ![b] = v] /\ back \in [Blocks -> Block] /\ back[b] = v
  BY <1>3, <1>5, <1>6, ChangeLive
<1> HIDE DEF back
<1>8. last <=> n = 0
  BY <1>5, <1>7
<1>9. z = [v EXCEPT !.weak = n, !.freed = (n = 0)]
  <2>1. (back[b].freed \/ last) = (n = 0)
    BY <1>5, <1>7, <1>8
  <2>2. back[b].weak - 1 = n
    BY <1>5, <1>7
  <2> HIDE DEF last
  <2> QED
    BY <1>7, <2>1, <2>2
<1> HIDE DEF z
<1>10. /\ z \in Block /\ z.strong = 0 /\ z.weak = n /\ z.object = v.object
       /\ z.external = v.external /\ z.self = v.self /\ z.touched = v.touched
       /\ z.freed <=> n = 0
  <2>1. CASE n = 0
    BY <1>5, <1>9, <2>1 DEF Block
  <2>2. CASE n # 0
    BY <1>5, <1>9, <2>2 DEF Block
  <2> QED
    BY <2>1, <2>2
<1>11. Fits(z, 0, n)
  BY <1>5, <1>10 DEF Fits
<1>12. ~ back[b].freed
  BY <1>5, <1>7
<1>15. z \in Block
  BY <1>10
<1>16. back \in [Blocks -> Block]
  BY <1>7
<1>13. /\ Change(back, b, z) = [back EXCEPT ![b] = z]
       /\ Change(back, b, z) \in [Blocks -> Block]
       /\ Change(back, b, z)[b] = z
  BY <1>12, <1>15, <1>16, ChangeLive
<1>14. [back EXCEPT ![b] = z] = [c EXCEPT ![b] = z]
  <2>1. gone = [c EXCEPT ![b] = u]
    BY <1>1 DEF gone
  <2> QED
    BY <1>3, <1>7, <2>1
<1> QED
  BY <1>2, <1>10, <1>11, <1>13, <1>14

(* release(): the last one destroys the object, and with it its weak       *)
(* pointer to itself, gives it back, and frees the block unless it is      *)
(* watched.                                                                *)
LEMMA ReleasedFits ==
  ASSUME PointersAssumption, NEW c, NEW s \in [Blocks -> Nat], NEW w \in [Blocks -> Nat],
         AllFit(c, s, w), NEW b \in Blocks \cup {Null}, b # Null => s[b] > 0
  PROVE  AllFit(Released(c, b), Less(s, b), w) /\ Less(s, b) \in [Blocks -> Nat]
<1>1. CASE b = Null
  BY <1>1 DEF Released, Less
<1>2. CASE b # Null
  <2> DEFINE y == [c[b] EXCEPT !.strong = @ - 1]
             less == Change(c, b, y)
  <2>1. /\ b \in Blocks /\ Fits(c[b], s[b], w[b]) /\ s[b] \in Nat /\ w[b] \in Nat /\ s[b] > 0
        /\ c \in [Blocks -> Block] /\ ~ c[b].freed /\ b # Null
    BY <1>2, FitFacts
  <2>2. c[b] \in Block /\ c[b].strong = s[b] /\ ~ c[b].touched
    BY <2>1 DEF Fits
  <2>3. /\ y \in Block /\ ~ y.freed /\ ~ y.touched
        /\ y.strong = s[b] - 1 /\ y.weak = c[b].weak
        /\ y.object = c[b].object /\ y.external = c[b].external /\ y.self = c[b].self
    BY <2>1, <2>2 DEF Block
  <2> HIDE DEF y
  <2>4. less = [c EXCEPT ![b] = y] /\ less \in [Blocks -> Block] /\ less[b] = y
    BY <2>1, <2>3, ChangeLive
  <2>5. [w EXCEPT ![b] = w[b]] = w
    OBVIOUS
  <2>6. Released(c, b) = IF less[b].strong > 0 THEN less ELSE ReleasedLast(less, b)
    BY <1>2 DEF Released, ReleasedLast, y, less
  <2> HIDE DEF less
  <2>7. CASE s[b] - 1 > 0
    <3>1. Released(c, b) = less
      BY <2>3, <2>4, <2>6, <2>7
    <3>2. Fits(y, s[b] - 1, w[b])
      BY <2>1, <2>3, <2>7 DEF Fits
    <3>3. AllFit([c EXCEPT ![b] = y], [s EXCEPT ![b] = s[b] - 1], [w EXCEPT ![b] = w[b]])
      BY <2>1, <3>2, AllFitChanged
    <3>4. Less(s, b) = [s EXCEPT ![b] = s[b] - 1]
      BY <2>1 DEF Less
    <3> QED
      <4>1. AllFit(Released(c, b), Less(s, b), w)
        BY <2>4, <2>5, <3>1, <3>3, <3>4, Zenon
      <4>2. Less(s, b) \in [Blocks -> Nat]
        BY <2>1, <2>7, <3>4
      <4> QED
        BY <4>1, <4>2
  <2>8. CASE ~ (s[b] - 1 > 0)
    <3>1. Released(c, b) = ReleasedLast(less, b)
      BY <2>3, <2>4, <2>6, <2>8
    <3>2. y.strong = 0 /\ y.weak = w[b] + (IF y.self THEN 1 ELSE 0) + 1 /\ y.object = "alive"
      BY <2>1, <2>3, <2>8 DEF Fits
    <3>3. PICK z \in Block : ReleasedLast(less, b) = [less EXCEPT ![b] = z] /\ Fits(z, 0, w[b])
      BY <2>1, <2>3, <2>4, <3>2, LastFits
    <3>4. [less EXCEPT ![b] = z] = [c EXCEPT ![b] = z]
      BY <2>1, <2>4
    <3>5. AllFit([c EXCEPT ![b] = z], [s EXCEPT ![b] = 0], [w EXCEPT ![b] = w[b]])
      BY <2>1, <3>3, AllFitChanged
    <3>6. s[b] - 1 = 0
      BY <2>1, <2>8
    <3>7. Less(s, b) = [s EXCEPT ![b] = 0]
      BY <2>1, <3>6 DEF Less
    <3> QED
      <4>1. AllFit(Released(c, b), Less(s, b), w)
        BY <2>5, <3>1, <3>3, <3>4, <3>5, <3>7, Zenon
      <4>2. Less(s, b) \in [Blocks -> Nat]
        BY <2>1, <3>7
      <4> QED
        BY <4>1, <4>2
  <2> QED
    BY <2>7, <2>8
<1> QED
  BY <1>1, <1>2

-----------------------------------------------------------------------------
(* The calls.                                                              *)

(* One more here and one less there, in whatever order.                    *)
LEMMA MoreAndLess ==
  ASSUME PointersAssumption, NEW s \in [Blocks -> Int],
         NEW a \in Blocks \cup {Null}, NEW b \in Blocks \cup {Null}
  PROVE  /\ Less(More(s, b), a) = More(Less(s, a), b)
         /\ Less(More(s, b), b) = s
         /\ More(s, b) \in [Blocks -> Int] /\ Less(s, b) \in [Blocks -> Int]
         /\ More(s, Null) = s
         /\ \A e \in Blocks : More(s, b)[e] >= s[e]
<1>1. Null \notin Blocks
  BY DEF PointersAssumption
<1>2. CASE a = Null
  <2>1. CASE b = Null
    BY <1>2, <2>1 DEF More, Less
  <2>2. CASE b # Null
    <3> DEFINE m == [s EXCEPT ![b] = @ + 1]
    <3>1. m \in [Blocks -> Int] /\ \A e \in Blocks : m[e] = (IF e = b THEN s[e] + 1 ELSE s[e])
      BY <2>2
    <3>2. [s EXCEPT ![b] = @ - 1] \in [Blocks -> Int]
      BY <2>2
    <3> HIDE DEF m
    <3>3. [m EXCEPT ![b] = @ - 1] = s
      BY <2>2, <3>1
    <3> QED
      BY <1>2, <2>2, <3>1, <3>2, <3>3 DEF More, Less, m
  <2> QED
    BY <2>1, <2>2
<1>3. CASE a # Null /\ b = Null
  BY <1>1, <1>3 DEF More, Less
<1>4. CASE a # Null /\ b # Null
  <2> DEFINE m == [s EXCEPT ![b] = @ + 1]
             l == [s EXCEPT ![a] = @ - 1]
  <2>1. m \in [Blocks -> Int] /\ l \in [Blocks -> Int]
    BY <1>4
  <2>2. \A e \in Blocks : m[e] = (IF e = b THEN s[e] + 1 ELSE s[e])
    BY <1>4
  <2>3. \A e \in Blocks : l[e] = (IF e = a THEN s[e] - 1 ELSE s[e])
    BY <1>4
  <2> HIDE DEF m, l
  <2>4. [m EXCEPT ![a] = @ - 1] = [l EXCEPT ![b] = @ + 1]
    <3> DEFINE ml == [m EXCEPT ![a] = @ - 1]
               lm == [l EXCEPT ![b] = @ + 1]
    <3>1. ml \in [Blocks -> Int] /\ lm \in [Blocks -> Int]
      BY <1>4, <2>1
    <3>2. \A e \in Blocks : ml[e] = lm[e]
      BY <1>4, <2>1, <2>2, <2>3
    <3> HIDE DEF ml, lm
    <3>3. ml = lm
      BY <3>1, <3>2
    <3> QED
      BY <3>3 DEF ml, lm
  <2>5. [m EXCEPT ![b] = @ - 1] = s
    BY <1>4, <2>1, <2>2
  <2> QED
    BY <1>4, <2>1, <2>2, <2>4, <2>5 DEF More, Less, m, l
<1> QED
  BY <1>2, <1>3, <1>4

(* What the invariant says, by name.                                       *)
LEMMA InvFacts ==
  ASSUME PointersAssumption, PointersInv
  PROVE  /\ Counts(Owners, shared) \in [Blocks -> Nat]
         /\ Counts(Watchers, weak) \in [Blocks -> Nat]
         /\ AllFit(ctrl, Counts(Owners, shared), Counts(Watchers, weak))
         /\ \A p \in Owners : /\ shared[p] \in Blocks \cup {Null}
                              /\ shared[p] # Null => Counts(Owners, shared)[shared[p]] > 0
         /\ \A w \in Watchers : /\ weak[w] \in Blocks \cup {Null}
                                /\ weak[w] # Null => Counts(Watchers, weak)[weak[w]] > 0
<1>1. IsFiniteSet(Owners) /\ IsFiniteSet(Watchers)
  BY DEF PointersAssumption
<1>2. ASSUME NEW p \in Owners, shared[p] # Null
      PROVE  Counts(Owners, shared)[shared[p]] > 0
  <2>1. shared[p] \in Blocks
    BY <1>2 DEF PointersInv
  <2>2. Counts(Owners, shared)[shared[p]] \in Nat \ {0}
    BY <1>1, <2>1, Counted
  <2> QED
    BY <2>2
<1>3. ASSUME NEW w \in Watchers, weak[w] # Null
      PROVE  Counts(Watchers, weak)[weak[w]] > 0
  <2>1. weak[w] \in Blocks
    BY <1>3 DEF PointersInv
  <2>2. Counts(Watchers, weak)[weak[w]] \in Nat \ {0}
    BY <1>1, <2>1, Counted
  <2> QED
    BY <2>2
<1>4. Counts(Owners, shared) \in [Blocks -> Nat] /\ Counts(Watchers, weak) \in [Blocks -> Nat]
  BY <1>1, CountsType
<1> QED
  BY <1>2, <1>3, <1>4 DEF PointersInv

(* A pointer that is about to point to b, where it has been counted        *)
(* already, releases what it had.                                          *)
LEMMA Repointed ==
  ASSUME PointersAssumption, PointersInv, NEW p \in Owners, NEW b \in Blocks \cup {Null},
         NEW c, AllFit(c, More(Counts(Owners, shared), b), Counts(Watchers, weak))
  PROVE  AllFit(Released(c, shared[p]), Counts(Owners, [shared EXCEPT ![p] = b]),
                Counts(Watchers, weak))
<1> DEFINE s == Counts(Owners, shared)
           w == Counts(Watchers, weak)
           old == shared[p]
<1>1. /\ s \in [Blocks -> Nat] /\ w \in [Blocks -> Nat] /\ old \in Blocks \cup {Null}
      /\ old # Null => s[old] > 0
  BY InvFacts
<1>8. shared \in [Owners -> Blocks \cup {Null}] /\ IsFiniteSet(Owners)
  BY DEF PointersInv, PointersAssumption
<1>2. Counts(Owners, [shared EXCEPT ![p] = b]) = More(Less(s, old), b)
  <2> DEFINE g == [shared EXCEPT ![p] = b]
  <2>1. g = [shared EXCEPT ![p] = b]
    OBVIOUS
  <2> HIDE DEF g
  <2>3. /\ g \in [Owners -> Blocks \cup {Null}] /\ g[p] = b
        /\ \A e \in Owners \ {p} : g[e] = shared[e]
    BY <1>8, <2>1
  <2>2. Counts(Owners, g) = More(Less(s, old), b)
    BY <1>8, <2>3, CountsOfAssigned
  <2> QED
    BY <2>2 DEF g
<1>3. AllFit(c, More(s, b), w)
  OBVIOUS
<1> HIDE DEF s, w, old
<1>4. s \in [Blocks -> Int] /\ More(s, b) \in [Blocks -> Nat]
  BY <1>1 DEF More
<1>5. old # Null => More(s, b)[old] > 0
  BY <1>1 DEF More, PointersAssumption
<1>6. AllFit(Released(c, old), Less(More(s, b), old), w)
  BY <1>1, <1>3, <1>4, <1>5, ReleasedFits
<1>7. Less(More(s, b), old) = More(Less(s, old), b)
  BY <1>1, <1>4, MoreAndLess
<1> QED
  BY <1>2, <1>6, <1>7 DEF old, w

(* Every call keeps the counts those of the pointers.                      *)
LEMMA PointersInvStep ==
  ASSUME PointersAssumption, PointersInv, [PtrStep]_ptr_vars
  PROVE  PointersInv'
<1> DEFINE s == Counts(Owners, shared)
           w == Counts(Watchers, weak)
<1>1. /\ s \in [Blocks -> Nat] /\ w \in [Blocks -> Nat] /\ AllFit(ctrl, s, w)
      /\ s \in [Blocks -> Int] /\ w \in [Blocks -> Int]
  BY InvFacts
<1>2. \A p \in Owners : shared[p] \in Blocks \cup {Null} /\ (shared[p] # Null => s[shared[p]] > 0)
  BY InvFacts
<1>3. \A v \in Watchers : weak[v] \in Blocks \cup {Null} /\ (weak[v] # Null => w[weak[v]] > 0)
  BY InvFacts
<1>4. Null \notin Blocks /\ IsFiniteSet(Owners) /\ IsFiniteSet(Watchers)
  BY DEF PointersAssumption
<1>5. /\ shared \in [Owners -> Blocks \cup {Null}] /\ weak \in [Watchers -> Blocks \cup {Null}]
  BY DEF PointersInv
<1>6. \A b \in Blocks : Fits(ctrl[b], s[b], w[b])
  BY <1>1, FitFacts
<1>7. ASSUME NEW p \in Owners, NEW b \in Blocks \cup {Null}, NEW c, AllFit(c, More(s, b), w),
             ctrl' = Released(c, shared[p]), shared' = [shared EXCEPT ![p] = b],
             UNCHANGED weak
      PROVE  PointersInv'
  <2>1. AllFit(Released(c, shared[p]), Counts(Owners, [shared EXCEPT ![p] = b]), w)
    BY <1>7, Repointed
  <2>2. shared' \in [Owners -> Blocks \cup {Null}]
    BY <1>5, <1>7
  <2> QED
    BY <1>5, <1>7, <2>1, <2>2 DEF PointersInv
<1>8. ASSUME NEW v \in Watchers, NEW b \in Blocks \cup {Null},
             AllFit(ctrl', s, More(Less(w, weak[v]), b)), weak' = [weak EXCEPT ![v] = b],
             UNCHANGED shared
      PROVE  PointersInv'
  <2> DEFINE g == weak'
  <2>3. g = [weak EXCEPT ![v] = b]
    BY <1>8
  <2> HIDE DEF g
  <2>5. /\ g \in [Watchers -> Blocks \cup {Null}] /\ g[v] = b
        /\ \A e \in Watchers \ {v} : g[e] = weak[e]
    BY <1>5, <2>3
  <2>4. Counts(Watchers, g) = More(Less(w, weak[v]), b)
    BY <1>4, <1>5, <2>5, CountsOfAssigned
  <2>1. Counts(Watchers, weak') = More(Less(w, weak[v]), b)
    BY <2>4 DEF g
  <2>2. weak' \in [Watchers -> Blocks \cup {Null}]
    BY <2>5 DEF g
  <2> QED
    BY <1>5, <1>8, <2>1, <2>2 DEF PointersInv
<1>9. ASSUME NEW p \in Owners, NEW external \in BOOLEAN, NEW self \in BOOLEAN,
             Make(p, external, self)
      PROVE  PointersInv'
  <2>1. PICK b \in Blocks :
          /\ Fresh(b)
          /\ ctrl' = Released([ctrl EXCEPT ![b] = Created(external, self)], shared[p])
          /\ shared' = [shared EXCEPT ![p] = b]
          /\ UNCHANGED weak
    BY <1>9 DEF Make
  <2> DEFINE x == Created(external, self)
  <2> HIDE DEF s, w
  <2>2. s[b] = 0 /\ w[b] = 0
    <3>1. ctrl[b].freed /\ Fits(ctrl[b], s[b], w[b]) /\ s[b] \in Nat /\ w[b] \in Nat
      BY <1>1, <1>6, <2>1 DEF Fresh
    <3> QED
      BY <3>1 DEF Fits
  <2>3. Fits(x, 1, 0)
    BY DEF Fits, Created, Block
  <2> HIDE DEF x
  <2>4. AllFit([ctrl EXCEPT ![b] = x], [s EXCEPT ![b] = 1], [w EXCEPT ![b] = 0])
    BY <1>1, <2>3, AllFitChanged
  <2>5. [s EXCEPT ![b] = 1] = More(s, b) /\ [w EXCEPT ![b] = 0] = w
    BY <1>1, <1>4, <2>2 DEF More
  <2>6. AllFit([ctrl EXCEPT ![b] = x], More(s, b), w)
    BY <2>4, <2>5, Zenon
  <2> QED
    BY <1>7, <2>1, <2>6 DEF x
<1>10. ASSUME NEW p \in Owners, NEW q \in Owners, AssignShared(p, q) PROVE PointersInv'
  <2>1. /\ p # q /\ ctrl' = Shared(Released(ctrl, shared[p]), shared[q])
        /\ shared' = [shared EXCEPT ![p] = shared[q]] /\ UNCHANGED weak
    BY <1>10 DEF AssignShared
  <2> DEFINE g == shared'
  <2>7. g = [shared EXCEPT ![p] = shared[q]]
    BY <2>1
  <2> HIDE DEF g
  <2>8. /\ g \in [Owners -> Blocks \cup {Null}] /\ g[p] = shared[q]
        /\ \A e \in Owners \ {p} : g[e] = shared[e]
    BY <1>2, <1>5, <2>7
  <2>2. Counts(Owners, g) = More(Less(s, shared[p]), shared[q])
    BY <1>2, <1>4, <1>5, <2>8, CountsOfAssigned
  <2>3. shared[q] # Null => Less(s, shared[p])[shared[q]] > 0
    <3> SUFFICES ASSUME shared[q] # Null PROVE Less(s, shared[p])[shared[q]] > 0
      OBVIOUS
    <3>1. CASE shared[p] = shared[q]
      <4>1. shared[p] \in Blocks
        BY <1>2, <3>1
      <4>2. s[shared[p]] - 1 \in Nat \ {0}
        BY <1>4, <2>1, <3>1, <4>1, Counted
      <4> HIDE DEF s
      <4> QED
        BY <1>1, <1>4, <3>1, <4>1, <4>2 DEF Less
    <3>2. CASE shared[p] # shared[q]
      <4>1. shared[q] \in Blocks /\ s[shared[q]] > 0
        BY <1>2
      <4>2. Less(s, shared[p])[shared[q]] = s[shared[q]]
        <5> HIDE DEF s
        <5> QED
          BY <1>1, <1>2, <3>2, <4>1 DEF Less
      <4> QED
        BY <4>1, <4>2
    <3> QED
      BY <3>1, <3>2
  <2> HIDE DEF s, w
  <2>4. /\ AllFit(Released(ctrl, shared[p]), Less(s, shared[p]), w)
        /\ Less(s, shared[p]) \in [Blocks -> Nat]
    BY <1>1, <1>2, ReleasedFits
  <2>5. AllFit(ctrl', More(Less(s, shared[p]), shared[q]), w)
    BY <1>1, <1>2, <2>1, <2>3, <2>4, SharedFits
  <2>6. shared' \in [Owners -> Blocks \cup {Null}]
    BY <1>2, <1>5, <2>1
  <2> QED
    BY <1>5, <2>1, <2>2, <2>5, <2>6 DEF PointersInv, w, g
<1>11. ASSUME NEW p \in Owners, NEW q \in Owners, MoveShared(p, q) PROVE PointersInv'
  <2> DEFINE f == [shared EXCEPT ![p] = shared[q]]
  <2>1. /\ p # q /\ ctrl' = Released(ctrl, shared[p])
        /\ shared' = [f EXCEPT ![q] = Null] /\ UNCHANGED weak
    BY <1>11 DEF MoveShared
  <2>2. f \in [Owners -> Blocks \cup {Null}] /\ f[q] = shared[q]
    BY <1>2, <1>5, <2>1
  <2>9. f = [shared EXCEPT ![p] = shared[q]]
    OBVIOUS
  <2> HIDE DEF f
  <2>11. f[p] = shared[q] /\ \A e \in Owners \ {p} : f[e] = shared[e]
    BY <1>5, <2>1, <2>9
  <2>3. Counts(Owners, f) = More(Less(s, shared[p]), shared[q])
    BY <1>2, <1>4, <1>5, <2>2, <2>11, CountsOfAssigned
  <2> DEFINE g == shared'
  <2>10. g = [f EXCEPT ![q] = Null]
    BY <2>1
  <2> HIDE DEF g
  <2>12. /\ g \in [Owners -> Blocks \cup {Null}] /\ g[q] = Null
         /\ \A e \in Owners \ {q} : g[e] = f[e]
    BY <2>2, <2>10
  <2>4. Counts(Owners, g) = More(Less(Counts(Owners, f), f[q]), Null)
    BY <1>4, <2>2, <2>12, CountsOfAssigned
  <2> HIDE DEF s, w
  <2>5. /\ AllFit(ctrl', Less(s, shared[p]), w)
        /\ Less(s, shared[p]) \in [Blocks -> Nat]
    BY <1>1, <1>2, <2>1, ReleasedFits
  <2>6. Less(More(Less(s, shared[p]), shared[q]), shared[q]) = Less(s, shared[p])
    <3>1. Less(s, shared[p]) \in [Blocks -> Int]
      BY <2>5
    <3> QED
      BY <1>2, <3>1, MoreAndLess
  <2>7. Counts(Owners, shared') = Less(s, shared[p])
    BY <2>2, <2>3, <2>4, <2>6 DEF More, g
  <2>8. shared' \in [Owners -> Blocks \cup {Null}]
    BY <2>1, <2>2
  <2> QED
    BY <1>5, <2>1, <2>5, <2>7, <2>8 DEF PointersInv, w
<1>12. ASSUME NEW p \in Owners, ResetShared(p) PROVE PointersInv'
  <2>1. AllFit(ctrl, More(s, Null), w)
    BY <1>1 DEF More
  <2> QED
    BY <1>7, <1>12, <2>1 DEF ResetShared
<1>13. ASSUME NEW p \in Owners, NEW v \in Watchers, Lock(p, v) PROVE PointersInv'
  <2> DEFINE b == IF Expired(v) THEN Null ELSE weak[v]
  <2>1. /\ ctrl' = Released(Shared(ctrl, b), shared[p])
        /\ shared' = [shared EXCEPT ![p] = b] /\ UNCHANGED weak
    BY <1>13 DEF Lock
  <2>2. b \in Blocks \cup {Null} /\ (b # Null => s[b] > 0)
    <3>1. CASE Expired(v)
      BY <3>1
    <3>2. CASE ~ Expired(v)
      <4>1. b = weak[v] /\ b \in Blocks /\ ctrl[b].strong # 0
        BY <1>3, <3>2 DEF Expired
      <4> HIDE DEF b, s, w
      <4>2. s[b] \in Nat /\ ctrl[b].strong = s[b]
        BY <1>1, <1>6, <4>1 DEF Fits
      <4> QED
        BY <4>1, <4>2
    <3> QED
      BY <3>1, <3>2
  <2> HIDE DEF b, s, w
  <2>3. AllFit(Shared(ctrl, b), More(s, b), w)
    BY <1>1, <2>2, SharedFits
  <2> QED
    BY <1>7, <2>1, <2>2, <2>3
<1>14. ASSUME NEW p \in Owners, NEW q \in Owners, ShareThis(p, q) PROVE PointersInv'
  <2>1. /\ ctrl' = Released(Shared(ctrl, shared[q]), shared[p])
        /\ shared' = [shared EXCEPT ![p] = shared[q]] /\ UNCHANGED weak
    BY <1>14 DEF ShareThis
  <2> HIDE DEF s, w
  <2>2. AllFit(Shared(ctrl, shared[q]), More(s, shared[q]), w)
    BY <1>1, <1>2, SharedFits
  <2> QED
    BY <1>2, <1>7, <2>1, <2>2
<1>15. ASSUME NEW v \in Watchers, ~ LastWatcher(v), weak[v] # Null
       PROVE  s[weak[v]] > 0 \/ w[weak[v]] > 1
  <2> HIDE DEF s, w
  <2>1. /\ weak[v] \in Blocks /\ w[weak[v]] > 0
        /\ s[weak[v]] \in Nat /\ w[weak[v]] \in Nat
        /\ Fits(ctrl[weak[v]], s[weak[v]], w[weak[v]])
    BY <1>1, <1>3, <1>6, <1>15
  <2>2. ctrl[weak[v]].strong # 0 \/ ctrl[weak[v]].weak # 1
    BY <1>15 DEF LastWatcher
  <2> QED
    BY <2>1, <2>2 DEF Fits
<1>16. ASSUME NEW v \in Watchers, NEW p \in Owners, Watch(v, p) PROVE PointersInv'
  <2> DEFINE a == shared[p]
             o == weak[v]
             c1 == Watched(ctrl, a)
             c2 == Forgotten(c1, o)
             c3 == Watched(c2, a)
             w1 == More(w, a)
             w2 == Less(w1, o)
             w3 == More(w2, a)
  <2>1. /\ ~ LastWatcher(v) /\ ctrl' = Unwatched(c3, a)
        /\ weak' = [weak EXCEPT ![v] = a] /\ UNCHANGED shared
    BY <1>16 DEF Watch
  <2>2. /\ a \in Blocks \cup {Null} /\ (a # Null => s[a] > 0)
        /\ o \in Blocks \cup {Null} /\ (o # Null => w[o] > 0 /\ (s[o] > 0 \/ w[o] > 1))
    BY <1>2, <1>3, <1>15, <2>1
  <2> HIDE DEF s, w, a, o
  <2>3. AllFit(c1, s, w1) /\ w1 \in [Blocks -> Nat]
    BY <1>1, <2>2, WatchedFits
  <2>4. o # Null => w1[o] > 0 /\ (s[o] > 0 \/ w1[o] > 1)
    BY <1>1, <1>4, <2>2 DEF More
  <2> HIDE DEF c1
  <2>5. AllFit(c2, s, w2) /\ w2 \in [Blocks -> Nat]
    <3> HIDE DEF w1
    <3> QED
      BY <1>1, <2>2, <2>3, <2>4, ForgottenFits
  <2>11. w2 = More(Less(w, o), a)
    BY <1>1, <2>2, MoreAndLess
  <2> HIDE DEF c2, w2
  <2>6. AllFit(c3, s, w3) /\ w3 \in [Blocks -> Nat]
    BY <1>1, <2>2, <2>5, WatchedFits
  <2>7. a # Null => w3[a] > 0
    BY <2>2, <2>5 DEF More
  <2>8. Less(w3, a) = w2
    BY <2>2, <2>5, MoreAndLess
  <2> HIDE DEF c3, w3
  <2>9. AllFit(ctrl', s, Less(w3, a))
    BY <1>1, <2>1, <2>2, <2>6, <2>7, UnwatchedFits
  <2>10. AllFit(ctrl', s, More(Less(w, o), a))
    BY <2>8, <2>9, <2>11
  <2> QED
    BY <1>8, <2>1, <2>2, <2>10 DEF o
<1>17. ASSUME NEW v \in Watchers, NEW u \in Watchers, AssignWeak(v, u) PROVE PointersInv'
  <2> DEFINE o == weak[v]
             a == weak[u]
  <2>1. /\ v # u /\ ~ LastWatcher(v) /\ ctrl' = Watched(Forgotten(ctrl, o), a)
        /\ weak' = [weak EXCEPT ![v] = a] /\ UNCHANGED shared
    BY <1>17 DEF AssignWeak
  <2>2. /\ o \in Blocks \cup {Null} /\ (o # Null => w[o] > 0 /\ (s[o] > 0 \/ w[o] > 1))
        /\ a \in Blocks \cup {Null} /\ (a # Null => w[a] > 0)
    BY <1>3, <1>15, <2>1
  <2>3. a # Null /\ a = o => w[o] - 1 > 0
    <3> SUFFICES ASSUME a # Null, a = o PROVE w[o] - 1 > 0
      OBVIOUS
    <3>1. weak[v] \in Blocks /\ weak[u] = weak[v]
      BY <2>2
    <3>2. w[weak[v]] - 1 \in Nat \ {0}
      BY <1>4, <2>1, <3>1, Counted
    <3>3. \A k \in Nat \ {0} : k > 0
      OBVIOUS
    <3> QED
      BY <3>2, <3>3
  <2> HIDE DEF s, w, a, o
  <2>4. AllFit(Forgotten(ctrl, o), s, Less(w, o)) /\ Less(w, o) \in [Blocks -> Nat]
    BY <1>1, <2>2, ForgottenFits
  <2>5. a # Null => Less(w, o)[a] > 0
    BY <1>1, <2>2, <2>3 DEF Less
  <2>6. AllFit(ctrl', s, More(Less(w, o), a))
    BY <1>1, <2>1, <2>2, <2>4, <2>5, WatchedFits
  <2> QED
    BY <1>8, <2>1, <2>2, <2>6 DEF o
<1>18. ASSUME NEW v \in Watchers, EndWeak(v) PROVE PointersInv'
  <2>1. /\ ctrl' = Unwatched(ctrl, weak[v])
        /\ weak' = [weak EXCEPT ![v] = Null] /\ UNCHANGED shared
    BY <1>18 DEF EndWeak
  <2> HIDE DEF s, w
  <2>2. AllFit(ctrl', s, Less(w, weak[v]))
    BY <1>1, <1>3, <2>1, UnwatchedFits
  <2>3. More(Less(w, weak[v]), Null) = Less(w, weak[v])
    BY DEF More
  <2> QED
    BY <1>8, <2>1, <2>2, <2>3
<1>19. CASE UNCHANGED ptr_vars
  BY <1>19 DEF ptr_vars, PointersInv
<1> QED
  BY <1>9, <1>10, <1>11, <1>12, <1>13, <1>14, <1>16, <1>17, <1>18, <1>19 DEF PtrStep

(* The invariant of shared and weak pointers, whatever calls the client    *)
(* makes.                                                                  *)
LEMMA PointersInvInit ==
  ASSUME PointersAssumption, PtrInit PROVE PointersInv
<1>1. \A S, f : IsFiniteSet(S) /\ (\A p \in S : f[p] = Null) =>
        \A b \in Blocks : Counts(S, f)[b] = 0
  <2> SUFFICES ASSUME NEW S, NEW f, IsFiniteSet(S), \A p \in S : f[p] = Null, NEW b \in Blocks
               PROVE  Counts(S, f)[b] = 0
    OBVIOUS
  <2>1. {p \in S : f[p] = b} = {}
    BY DEF PointersAssumption
  <2> QED
    BY <2>1, FS_EmptySet DEF Counts
<1>2. /\ \A b \in Blocks : Counts(Owners, shared)[b] = 0
      /\ \A b \in Blocks : Counts(Watchers, weak)[b] = 0
  BY <1>1 DEF PtrInit, PointersAssumption
<1>3. ctrl = [b \in Blocks |-> ctrl[b]] /\ \A b \in Blocks : ctrl[b] = NoObject
  BY DEF PtrInit
<1>4. Fits(NoObject, 0, 0)
  BY DEF Fits, NoObject, Block
<1>5. AllFit(ctrl, Counts(Owners, shared), Counts(Watchers, weak))
  BY <1>2, <1>3, <1>4 DEF AllFit
<1> QED
  BY <1>5 DEF PointersInv, PtrInit

(* What the invariant says is what the client relies on.                   *)
LEMMA PointersInvImplies ==
  ASSUME PointersAssumption, PointersInv PROVE TypeOK /\ CountsExact
<1>1. ASSUME NEW b \in Blocks
      PROVE  /\ Fits(ctrl[b], Counts(Owners, shared)[b], Counts(Watchers, weak)[b])
             /\ Counts(Owners, shared)[b] = Cardinality({p \in Owners : shared[p] = b})
             /\ Counts(Watchers, weak)[b] = Cardinality({w \in Watchers : weak[w] = b})
             /\ Counts(Owners, shared)[b] \in Nat /\ Counts(Watchers, weak)[b] \in Nat
  <2>1. /\ Counts(Owners, shared) \in [Blocks -> Nat]
        /\ Counts(Watchers, weak) \in [Blocks -> Nat]
        /\ AllFit(ctrl, Counts(Owners, shared), Counts(Watchers, weak))
    BY InvFacts
  <2> QED
    BY <2>1 DEF AllFit, Counts
<1>2. TypeOK
  BY <1>1 DEF TypeOK, PointersInv, Fits, Block
<1>3. CountsExact
  BY <1>1, ZenonT(40) DEF CountsExact, Fits
<1> QED
  BY <1>2, <1>3

-----------------------------------------------------------------------------
(* Theorems                                                                *)

(* The counts in a control block are those of the pointers there are, for  *)
(* any number of pointers and any order of their calls: an object lives as *)
(* long as it is shared, its block as long as it can be seen, nothing is   *)
(* touched after it was freed, and nothing is left behind.                 *)
THEOREM CountsExactHolds ==
  ASSUME PointersAssumption PROVE PtrSpec => [](TypeOK /\ CountsExact)
<1>1. PtrInit => PointersInv
  BY PointersInvInit
<1>2. PointersInv /\ [PtrStep]_ptr_vars => PointersInv'
  BY PointersInvStep
<1>3. PointersInv => TypeOK /\ CountsExact
  BY PointersInvImplies
<1> QED
  BY <1>1, <1>2, <1>3, PTL DEF PtrSpec

-----------------------------------------------------------------------------
(* Functions.                                                              *)

All == Names \cup {Temporary}

(* Nothing is no target and no block, and there is memory for one more     *)
(* target than there are functions.                                        *)
CallableAssumption ==
  /\ Temporary \notin Names
  /\ Raw \notin Targets \cup TargetBlocks
  /\ IsFiniteSet(Names) /\ IsFiniteSet(TargetBlocks)
  /\ Cardinality(TargetBlocks) > Cardinality(Names)

-----------------------------------------------------------------------------
(* The inductive invariant.                                                *)

Tables == {"none", "inplace", "heap"}

Memory == [vt : [All -> Tables], storage : [All -> Targets \cup TargetBlocks \cup {Raw}],
           heap : [TargetBlocks -> Targets \cup {Raw}], unique : BOOLEAN, fault : BOOLEAN]

Given == [All -> Targets \cup {Raw}]

(* Function x has target c, or none.                                       *)
Has(s, x, c) ==
  \/ c = Raw /\ s.vt[x] = "none" /\ s.storage[x] = Raw
  \/ c \in Inplace /\ s.vt[x] = "inplace" /\ s.storage[x] = c
  \/ /\ c \in Targets /\ s.vt[x] = "heap"
     /\ s.storage[x] \in TargetBlocks /\ s.heap[s.storage[x]] = c

InBlock(s, x, b) == s.vt[x] = "heap" /\ s.storage[x] = b

Owned(s, h) ==
  /\ s \in Memory /\ ~ s.fault
  /\ h \in Given
  /\ \A x \in All : Has(s, x, h[x])
  /\ \A b \in TargetBlocks : \A x, y \in All : InBlock(s, x, b) /\ InBlock(s, y, b) => x = y
  /\ \A b \in TargetBlocks : s.heap[b] # Raw => \E x \in All : InBlock(s, x, b)

(* What the client has given its functions; between its calls the          *)
(* temporary of swap() has nothing.                                        *)
Holds == [x \in All |-> IF x = Temporary THEN Raw ELSE holds[x]]

CallsInv == holds \in [Names -> Targets \cup {Raw}] /\ Owned(calls, Holds)

-----------------------------------------------------------------------------
(* What a function has.                                                    *)

(* A function that has a target is not dead, and one without has none.     *)
LEMMA HasFacts ==
  ASSUME CallableAssumption, NEW s, NEW x, NEW c, Has(s, x, c)
  PROVE  /\ c = Raw <=> s.vt[x] = "none"
         /\ s.vt[x] = "none" <=> s.storage[x] = Raw
         /\ c # Raw => ~ Dead(s, x) /\ Target(s, x) = c /\ c \in Targets
<1>1. Raw \notin Targets /\ Raw \notin TargetBlocks /\ Inplace \subseteq Targets
  BY DEF CallableAssumption, Inplace, Targets
<1>2. CASE c = Raw /\ s.vt[x] = "none" /\ s.storage[x] = Raw
  BY <1>1, <1>2
<1>3. CASE c \in Inplace /\ s.vt[x] = "inplace" /\ s.storage[x] = c
  BY <1>1, <1>3 DEF Dead, Target
<1>4. CASE /\ c \in Targets /\ s.vt[x] = "heap"
           /\ s.storage[x] \in TargetBlocks /\ s.heap[s.storage[x]] = c
  BY <1>1, <1>4 DEF Dead, Target
<1> QED
  BY <1>2, <1>3, <1>4 DEF Has

(* A block is free while one function more has no target: the blocks in    *)
(* use are no more than the functions that have one.                       *)
LEMMA BlockFree ==
  ASSUME CallableAssumption, NEW s, NEW h, Owned(s, h), NEW x \in All, h[x] = Raw
  PROVE  \E b \in TargetBlocks : s.heap[b] = Raw
<1> SUFFICES ASSUME \A b \in TargetBlocks : s.heap[b] # Raw PROVE FALSE
  OBVIOUS
<1> DEFINE others == All \ {x}
           owner == [b \in TargetBlocks |-> CHOOSE y \in All : InBlock(s, y, b)]
<1>1. \A b \in TargetBlocks : owner[b] \in All /\ InBlock(s, owner[b], b)
  BY DEF Owned
<1>2. s.vt[x] = "none"
  BY HasFacts DEF Owned
<1> HIDE DEF owner
<1>3. \A b \in TargetBlocks : owner[b] \in others
  BY <1>1, <1>2 DEF InBlock
<1>4. \A b, c \in TargetBlocks : owner[b] = owner[c] => b = c
  BY <1>1 DEF InBlock
<1>5. IsFiniteSet(All) /\ Cardinality(All) = Cardinality(Names) + 1
  BY FS_AddElement DEF CallableAssumption, All
<1>6. IsFiniteSet(others) /\ Cardinality(others) = Cardinality(All) - 1
  BY <1>5, FS_RemoveElement
<1>7. owner \in [TargetBlocks -> others]
  BY <1>3 DEF owner
<1>8. Cardinality(TargetBlocks) <= Cardinality(others)
  <2>1. owner \in Injection(TargetBlocks, others)
    BY <1>4, <1>7 DEF Injection, IsInjective
  <2> QED
    BY <1>6, <2>1, FS_Injection
<1>9. Cardinality(Names) \in Nat /\ Cardinality(TargetBlocks) \in Nat
  BY FS_CardinalityType DEF CallableAssumption
<1> QED
  BY <1>5, <1>6, <1>8, <1>9 DEF CallableAssumption

-----------------------------------------------------------------------------
(* What the tables do.                                                     *)

(* A function that loses its target.                                       *)
LEMMA OwnedReset ==
  ASSUME CallableAssumption, NEW s, NEW h, Owned(s, h), NEW x \in All,
         NEW g \in Given, g[x] = Raw, \A y \in All \ {x} : g[y] = h[y]
  PROVE  Owned(Reset(s, x), g) /\ Reset(s, x).unique = s.unique
<1> DEFINE t == Reset(s, x)
<1>1. s \in Memory /\ ~ s.fault /\ h \in Given /\ \A y \in All : Has(s, y, h[y])
  BY DEF Owned
<1>2. CASE s.vt[x] = "none"
  <2>1. h[x] = Raw
    BY <1>1, <1>2, HasFacts
  <2>2. g = h
    BY <1>1, <2>1 DEF Given
  <2> QED
    BY <1>2, <2>2 DEF Reset
<1>3. CASE s.vt[x] # "none"
  <2>1. ~ Dead(s, x)
    BY <1>1, <1>3, HasFacts
  <2>2. /\ t = [[s EXCEPT !.storage[x] = Raw,
                          !.heap = IF s.vt[x] = "heap" THEN [@ EXCEPT ![s.storage[x]] = Raw] ELSE @,
                          !.fault = @ \/ Dead(s, x)] EXCEPT !.vt[x] = "none"]
    BY <1>3 DEF Reset, Destroy
  <2>3. /\ s.vt \in [All -> Tables] /\ s.storage \in [All -> Targets \cup TargetBlocks \cup {Raw}]
        /\ s.heap \in [TargetBlocks -> Targets \cup {Raw}]
    BY <1>1 DEF Memory
  <2>4. t.vt \in [All -> Tables] /\ t.vt[x] = "none" /\ \A y \in All \ {x} : t.vt[y] = s.vt[y]
    BY <1>1, <2>2, <2>3 DEF Memory, Tables
  <2>5. /\ t.storage \in [All -> Targets \cup TargetBlocks \cup {Raw}]
        /\ t.storage[x] = Raw /\ \A y \in All \ {x} : t.storage[y] = s.storage[y]
    BY <1>1, <2>2, <2>3 DEF Memory
  <2>6. /\ t.heap \in [TargetBlocks -> Targets \cup {Raw}]
        /\ \A b \in TargetBlocks : t.heap[b] = IF InBlock(s, x, b) THEN Raw ELSE s.heap[b]
    <3>1. CASE s.vt[x] = "heap"
      <4>1. t.heap = [s.heap EXCEPT ![s.storage[x]] = Raw]
        BY <1>1, <2>2, <3>1 DEF Memory
      <4>2. s.storage[x] \in TargetBlocks
        BY <1>1, <3>1 DEF Has
      <4> QED
        BY <2>3, <3>1, <4>1, <4>2 DEF InBlock
    <3>2. CASE s.vt[x] # "heap"
      <4>1. t.heap = s.heap
        BY <1>1, <2>2, <3>2 DEF Memory
      <4> QED
        BY <2>3, <3>2, <4>1 DEF InBlock
    <3> QED
      BY <3>1, <3>2
  <2>7. t.unique = s.unique /\ ~ t.fault
    BY <1>1, <2>1, <2>2 DEF Memory
  <2>8. t \in Memory
    BY <1>1, <2>2, <2>4, <2>5, <2>6 DEF Memory
  <2> HIDE DEF t
  <2>9. \A y \in All : \A b \in TargetBlocks : InBlock(t, y, b) <=> y # x /\ InBlock(s, y, b)
    BY <2>4, <2>5 DEF InBlock
  <2>10. \A y \in All : Has(t, y, g[y])
    <3> SUFFICES ASSUME NEW y \in All PROVE Has(t, y, g[y])
      OBVIOUS
    <3>1. CASE y = x
      BY <2>4, <2>5, <3>1 DEF Has
    <3>2. CASE y # x
      <4>1. Has(s, y, h[y]) /\ g[y] = h[y] /\ t.vt[y] = s.vt[y] /\ t.storage[y] = s.storage[y]
        BY <1>1, <2>4, <2>5, <3>2
      <4>2. ASSUME s.vt[y] = "heap", s.storage[y] \in TargetBlocks
            PROVE  t.heap[s.storage[y]] = s.heap[s.storage[y]]
        <5>1. InBlock(s, y, s.storage[y]) /\ ~ InBlock(s, x, s.storage[y])
          BY <3>2, <4>2 DEF InBlock, Owned
        <5> QED
          BY <2>6, <4>2, <5>1
      <4> QED
        BY <4>1, <4>2 DEF Has
    <3> QED
      BY <3>1, <3>2
  <2>11. \A b \in TargetBlocks : \A y, z \in All : InBlock(t, y, b) /\ InBlock(t, z, b) => y = z
    BY <2>9 DEF Owned
  <2>12. \A b \in TargetBlocks : t.heap[b] # Raw => \E y \in All : InBlock(t, y, b)
    BY <2>6, <2>9 DEF Owned
  <2> QED
    BY <2>7, <2>8, <2>10, <2>11, <2>12 DEF Owned, t
<1> QED
  BY <1>2, <1>3

(* A function without a target that is given one, in its storage or in a   *)
(* block that is free.                                                     *)
LEMMA OwnedPlace ==
  ASSUME CallableAssumption, NEW s, NEW h, Owned(s, h), NEW x \in All, h[x] = Raw,
         NEW c \in Targets,
         NEW g \in Given, g[x] = c, \A y \in All \ {x} : g[y] = h[y]
  PROVE  Owned(Place(s, x, c), g) /\ Place(s, x, c).unique = s.unique
<1> DEFINE t == Place(s, x, c)
           b == CHOOSE b \in TargetBlocks : s.heap[b] = Raw
<1>1. /\ s \in Memory /\ ~ s.fault /\ h \in Given /\ \A y \in All : Has(s, y, h[y])
      /\ \A d \in TargetBlocks : \A y, z \in All : InBlock(s, y, d) /\ InBlock(s, z, d) => y = z
      /\ \A d \in TargetBlocks : s.heap[d] # Raw => \E y \in All : InBlock(s, y, d)
  BY DEF Owned
<1>2. s.vt[x] = "none" /\ s.storage[x] = Raw
  BY <1>1, HasFacts
<1>3. b \in TargetBlocks /\ s.heap[b] = Raw
  BY BlockFree
<1>4. /\ s.vt \in [All -> Tables] /\ s.storage \in [All -> Targets \cup TargetBlocks \cup {Raw}]
      /\ s.heap \in [TargetBlocks -> Targets \cup {Raw}]
  BY <1>1 DEF Memory
<1>5. \A d \in TargetBlocks : ~ InBlock(s, x, d)
  BY <1>2 DEF InBlock
<1>6. \A y \in All : ~ InBlock(s, y, b)
  <2> SUFFICES ASSUME NEW y \in All, InBlock(s, y, b) PROVE FALSE
    OBVIOUS
  <2>1. h[y] = Raw
    <3>1. Has(s, y, h[y]) /\ s.heap[s.storage[y]] = Raw /\ s.vt[y] = "heap"
      BY <1>1, <1>3 DEF InBlock
    <3> QED
      BY <3>1 DEF Has
  <2> QED
    BY <1>1, <2>1, HasFacts DEF InBlock
<1> HIDE DEF b
<1>7. CASE c \in Inplace
  <2>1. t = [[s EXCEPT !.fault = @ \/ s.storage[x] # Raw] EXCEPT !.storage[x] = c, !.vt[x] = "inplace"]
    BY <1>7 DEF Place
  <2>2. t.vt \in [All -> Tables] /\ t.vt[x] = "inplace" /\ \A y \in All \ {x} : t.vt[y] = s.vt[y]
    BY <1>1, <1>4, <2>1 DEF Memory, Tables
  <2>3. /\ t.storage \in [All -> Targets \cup TargetBlocks \cup {Raw}]
        /\ t.storage[x] = c /\ \A y \in All \ {x} : t.storage[y] = s.storage[y]
    BY <1>1, <1>4, <2>1 DEF Memory
  <2>4. t.heap = s.heap
    BY <1>1, <2>1 DEF Memory
  <2>5. t.unique = s.unique /\ ~ t.fault
    BY <1>1, <1>2, <2>1 DEF Memory
  <2>6. t \in Memory
    BY <1>1, <2>1, <2>2, <2>3 DEF Memory
  <2> HIDE DEF t
  <2>7. \A y \in All : \A d \in TargetBlocks : InBlock(t, y, d) <=> InBlock(s, y, d)
    <3> SUFFICES ASSUME NEW y \in All, NEW d \in TargetBlocks PROVE InBlock(t, y, d) <=> InBlock(s, y, d)
      OBVIOUS
    <3>1. CASE y = x
      BY <1>5, <2>2, <3>1 DEF InBlock
    <3>2. CASE y # x
      BY <2>2, <2>3, <3>2 DEF InBlock
    <3> QED
      BY <3>1, <3>2
  <2>8. \A y \in All : Has(t, y, g[y])
    <3> SUFFICES ASSUME NEW y \in All PROVE Has(t, y, g[y])
      OBVIOUS
    <3>1. CASE y = x
      BY <1>7, <2>2, <2>3, <3>1 DEF Has
    <3>2. CASE y # x
      <4>1. Has(s, y, h[y]) /\ g[y] = h[y] /\ t.vt[y] = s.vt[y] /\ t.storage[y] = s.storage[y]
        BY <1>1, <2>2, <2>3, <3>2
      <4> QED
        BY <2>4, <4>1 DEF Has
    <3> QED
      BY <3>1, <3>2
  <2> QED
    BY <1>1, <2>4, <2>5, <2>6, <2>7, <2>8 DEF Owned, t
<1>8. CASE c \notin Inplace
  <2>1. t = [[s EXCEPT !.fault = @ \/ s.storage[x] # Raw]
               EXCEPT !.storage[x] = b, !.heap[b] = c, !.vt[x] = "heap"]
    BY <1>8 DEF Place, b
  <2>2. t.vt \in [All -> Tables] /\ t.vt[x] = "heap" /\ \A y \in All \ {x} : t.vt[y] = s.vt[y]
    BY <1>1, <1>4, <2>1 DEF Memory, Tables
  <2>3. /\ t.storage \in [All -> Targets \cup TargetBlocks \cup {Raw}]
        /\ t.storage[x] = b /\ \A y \in All \ {x} : t.storage[y] = s.storage[y]
    BY <1>1, <1>3, <1>4, <2>1 DEF Memory
  <2>4. /\ t.heap \in [TargetBlocks -> Targets \cup {Raw}]
        /\ t.heap[b] = c /\ \A d \in TargetBlocks \ {b} : t.heap[d] = s.heap[d]
    BY <1>1, <1>3, <1>4, <2>1 DEF Memory
  <2>5. t.unique = s.unique /\ ~ t.fault
    BY <1>1, <1>2, <2>1 DEF Memory
  <2>6. t \in Memory
    BY <1>1, <2>1, <2>2, <2>3, <2>4 DEF Memory
  <2> HIDE DEF t
  <2>7. \A y \in All : \A d \in TargetBlocks : InBlock(t, y, d) <=> InBlock(s, y, d) \/ (y = x /\ d = b)
    <3> SUFFICES ASSUME NEW y \in All, NEW d \in TargetBlocks
                 PROVE  InBlock(t, y, d) <=> InBlock(s, y, d) \/ (y = x /\ d = b)
      OBVIOUS
    <3>1. CASE y = x
      BY <1>5, <2>2, <2>3, <3>1 DEF InBlock
    <3>2. CASE y # x
      BY <2>2, <2>3, <3>2 DEF InBlock
    <3> QED
      BY <3>1, <3>2
  <2>8. \A y \in All : Has(t, y, g[y])
    <3> SUFFICES ASSUME NEW y \in All PROVE Has(t, y, g[y])
      OBVIOUS
    <3>1. CASE y = x
      BY <1>3, <2>2, <2>3, <2>4, <3>1 DEF Has
    <3>2. CASE y # x
      <4>1. Has(s, y, h[y]) /\ g[y] = h[y] /\ t.vt[y] = s.vt[y] /\ t.storage[y] = s.storage[y]
        BY <1>1, <2>2, <2>3, <3>2
      <4>2. s.vt[y] = "heap" => s.storage[y] # b
        BY <1>6 DEF InBlock
      <4> QED
        BY <2>4, <4>1, <4>2 DEF Has
    <3> QED
      BY <3>1, <3>2
  <2>9. \A d \in TargetBlocks : \A y, z \in All : InBlock(t, y, d) /\ InBlock(t, z, d) => y = z
    BY <1>1, <1>6, <2>7
  <2>10. \A d \in TargetBlocks : t.heap[d] # Raw => \E y \in All : InBlock(t, y, d)
    BY <1>1, <2>4, <2>7
  <2> QED
    BY <2>5, <2>6, <2>8, <2>9, <2>10 DEF Owned, t
<1> QED
  BY <1>7, <1>8

(* A function without a target that gets that of another one.              *)
LEMMA OwnedMoveFrom ==
  ASSUME CallableAssumption, NEW s, NEW h, Owned(s, h), NEW x \in All, h[x] = Raw,
         NEW y \in All, x # y,
         NEW g \in Given, g[x] = h[y], g[y] = Raw, \A z \in All \ {x, y} : g[z] = h[z]
  PROVE  Owned(MoveFrom(s, x, y), g) /\ MoveFrom(s, x, y).unique = s.unique
<1> DEFINE t == MoveFrom(s, x, y)
<1>1. /\ s \in Memory /\ ~ s.fault /\ h \in Given /\ \A z \in All : Has(s, z, h[z])
      /\ \A b \in TargetBlocks : \A z, w \in All : InBlock(s, z, b) /\ InBlock(s, w, b) => z = w
      /\ \A b \in TargetBlocks : s.heap[b] # Raw => \E z \in All : InBlock(s, z, b)
  BY DEF Owned
<1>2. s.vt[x] = "none" /\ s.storage[x] = Raw
  BY <1>1, HasFacts
<1>3. /\ s.vt \in [All -> Tables] /\ s.storage \in [All -> Targets \cup TargetBlocks \cup {Raw}]
      /\ s.heap \in [TargetBlocks -> Targets \cup {Raw}]
  BY <1>1 DEF Memory
<1>4. CASE s.vt[y] = "none"
  <2>1. h[y] = Raw
    BY <1>1, <1>4, HasFacts
  <2>2. g = h
    BY <1>1, <2>1 DEF Given
  <2>3. [s.vt EXCEPT ![x] = "none"] = s.vt
    BY <1>2, <1>3
  <2>4. t = s
    BY <1>1, <1>4, <2>3 DEF MoveFrom, Memory
  <2> QED
    BY <2>2, <2>4
<1>5. CASE s.vt[y] # "none"
  <2>1. ~ Dead(s, y)
    BY <1>1, <1>5, HasFacts
  <2>2. t = [s EXCEPT !.vt[x] = s.vt[y], !.vt[y] = "none",
                      !.storage[x] = s.storage[y], !.storage[y] = Raw,
                      !.fault = @ \/ Dead(s, y) \/ s.storage[x] # Raw]
    BY <1>5 DEF MoveFrom
  <2>3. /\ t.vt \in [All -> Tables] /\ t.vt[x] = s.vt[y] /\ t.vt[y] = "none"
        /\ \A z \in All \ {x, y} : t.vt[z] = s.vt[z]
    BY <1>1, <1>3, <2>2 DEF Memory, Tables
  <2>4. /\ t.storage \in [All -> Targets \cup TargetBlocks \cup {Raw}]
        /\ t.storage[x] = s.storage[y] /\ t.storage[y] = Raw
        /\ \A z \in All \ {x, y} : t.storage[z] = s.storage[z]
    BY <1>1, <1>3, <2>2 DEF Memory
  <2>5. t.heap = s.heap
    BY <1>1, <2>2 DEF Memory
  <2>6. t.unique = s.unique /\ ~ t.fault
    BY <1>1, <1>2, <2>1, <2>2 DEF Memory
  <2>7. t \in Memory
    BY <1>1, <2>2, <2>3, <2>4 DEF Memory
  <2> HIDE DEF t
  <2>8. \A z \in All : \A b \in TargetBlocks :
          InBlock(t, z, b) <=> \/ z = x /\ InBlock(s, y, b)
                               \/ z \notin {x, y} /\ InBlock(s, z, b)
    <3> SUFFICES ASSUME NEW z \in All, NEW b \in TargetBlocks
                 PROVE  InBlock(t, z, b) <=> \/ z = x /\ InBlock(s, y, b)
                                             \/ z \notin {x, y} /\ InBlock(s, z, b)
      OBVIOUS
    <3>1. CASE z = x
      BY <2>3, <2>4, <3>1 DEF InBlock
    <3>2. CASE z = y
      BY <2>3, <3>2 DEF InBlock
    <3>3. CASE z \notin {x, y}
      BY <2>3, <2>4, <3>3 DEF InBlock
    <3> QED
      BY <3>1, <3>2, <3>3
  <2>9. \A z \in All : Has(t, z, g[z])
    <3> SUFFICES ASSUME NEW z \in All PROVE Has(t, z, g[z])
      OBVIOUS
    <3>1. CASE z = x
      <4>1. Has(s, y, h[y]) /\ g[z] = h[y] /\ t.vt[z] = s.vt[y] /\ t.storage[z] = s.storage[y]
        BY <1>1, <2>3, <2>4, <3>1
      <4> QED
        BY <2>5, <4>1 DEF Has
    <3>2. CASE z = y
      BY <2>3, <2>4, <3>2 DEF Has
    <3>3. CASE z \notin {x, y}
      <4>1. Has(s, z, h[z]) /\ g[z] = h[z] /\ t.vt[z] = s.vt[z] /\ t.storage[z] = s.storage[z]
        BY <1>1, <2>3, <2>4, <3>3
      <4> QED
        BY <2>5, <4>1 DEF Has
    <3> QED
      BY <3>1, <3>2, <3>3
  <2>10. \A b \in TargetBlocks : \A z, w \in All : InBlock(t, z, b) /\ InBlock(t, w, b) => z = w
    BY <1>1, <2>8
  <2>11. \A b \in TargetBlocks : t.heap[b] # Raw => \E z \in All : InBlock(t, z, b)
    <3> SUFFICES ASSUME NEW b \in TargetBlocks, t.heap[b] # Raw PROVE \E z \in All : InBlock(t, z, b)
      OBVIOUS
    <3>1. PICK z \in All : InBlock(s, z, b)
      BY <1>1, <2>5
    <3>2. z # x
      BY <1>2, <3>1 DEF InBlock
    <3>3. CASE z = y
      BY <2>8, <3>1, <3>3
    <3>4. CASE z # y
      BY <2>8, <3>1, <3>2, <3>4
    <3> QED
      BY <3>3, <3>4
  <2> QED
    BY <2>6, <2>7, <2>9, <2>10, <2>11 DEF Owned, t
<1> QED
  BY <1>4, <1>5

(* A function without a target that gets a copy of that of another one.    *)
LEMMA OwnedCopyFrom ==
  ASSUME CallableAssumption, NEW s, NEW h, Owned(s, h), NEW x \in All, h[x] = Raw,
         NEW y \in All, x # y,
         NEW g \in Given, g[x] = h[y], \A z \in All \ {x} : g[z] = h[z]
  PROVE  Owned(CopyFrom(s, x, y), g) /\ CopyFrom(s, x, y).unique = s.unique
<1>1. s \in Memory /\ ~ s.fault /\ h \in Given /\ Has(s, x, h[x]) /\ Has(s, y, h[y])
  BY DEF Owned
<1>2. CASE s.vt[y] = "none"
  <2>1. h[y] = Raw
    BY <1>1, <1>2, HasFacts
  <2>2. g = h
    BY <1>1, <2>1 DEF Given
  <2>3. s.vt \in [All -> Tables] /\ s.vt[x] = "none"
    BY <1>1, HasFacts DEF Memory
  <2>4. [s.vt EXCEPT ![x] = "none"] = s.vt
    BY <2>3
  <2>5. CopyFrom(s, x, y) = s
    BY <1>1, <1>2, <2>4 DEF CopyFrom, Memory
  <2> QED
    BY <2>2, <2>5
<1>3. CASE s.vt[y] # "none"
  <2>1. ~ Dead(s, y) /\ Target(s, y) = h[y] /\ h[y] \in Targets
    BY <1>1, <1>3, HasFacts
  <2>2. [s EXCEPT !.fault = @ \/ Dead(s, y)] = s
    BY <1>1, <2>1 DEF Memory
  <2>3. CopyFrom(s, x, y) = Place(s, x, h[y])
    BY <1>3, <2>1, <2>2 DEF CopyFrom
  <2> QED
    BY <2>1, <2>3, OwnedPlace
<1> QED
  BY <1>2, <1>3

-----------------------------------------------------------------------------
(* The assignments.                                                        *)

(* A function that is assigned another one has a copy of its target.       *)
LEMMA OwnedCopyAssigned ==
  ASSUME CallableAssumption, NEW s, NEW h, Owned(s, h), NEW x \in All, NEW y \in All,
         NEW g \in Given, g[x] = h[y], \A z \in All \ {x} : g[z] = h[z]
  PROVE  Owned(CopyAssigned(s, x, y), g) /\ CopyAssigned(s, x, y).unique = s.unique
<1>1. h \in Given
  BY DEF Owned
<1>2. CASE x = y
  <2>1. g = h
    BY <1>1, <1>2 DEF Given
  <2> QED
    BY <1>2, <2>1 DEF CopyAssigned
<1>3. CASE x # y
  <2> DEFINE h1 == [h EXCEPT ![x] = Raw]
             t == Reset(s, x)
  <2>1. h1 \in Given /\ h1[x] = Raw /\ \A z \in All \ {x} : h1[z] = h[z]
    BY <1>1 DEF Given
  <2> HIDE DEF h1
  <2>2. Owned(t, h1) /\ t.unique = s.unique
    BY <2>1, OwnedReset
  <2>3. CopyAssigned(s, x, y) = CopyFrom(t, x, y)
    BY <1>3 DEF CopyAssigned
  <2>4. g[x] = h1[y] /\ \A z \in All \ {x} : g[z] = h1[z]
    BY <1>3, <2>1
  <2> HIDE DEF t
  <2>5. Owned(CopyFrom(t, x, y), g) /\ CopyFrom(t, x, y).unique = t.unique
    BY <1>3, <2>1, <2>2, <2>4, OwnedCopyFrom
  <2> QED
    BY <2>2, <2>3, <2>5
<1> QED
  BY <1>2, <1>3

(* A function that another one is moved to has its target, and leaves it   *)
(* without one.                                                            *)
LEMMA OwnedMoveAssigned ==
  ASSUME CallableAssumption, NEW s, NEW h, Owned(s, h), NEW x \in All, NEW y \in All, x # y,
         NEW g \in Given, g[x] = h[y], g[y] = Raw, \A z \in All \ {x, y} : g[z] = h[z]
  PROVE  Owned(MoveAssigned(s, x, y), g) /\ MoveAssigned(s, x, y).unique = s.unique
<1>1. h \in Given
  BY DEF Owned
<1> DEFINE h1 == [h EXCEPT ![x] = Raw]
           t == Reset(s, x)
<1>2. h1 \in Given /\ h1[x] = Raw /\ \A z \in All \ {x} : h1[z] = h[z]
  BY <1>1 DEF Given
<1> HIDE DEF h1
<1>3. Owned(t, h1) /\ t.unique = s.unique
  BY <1>2, OwnedReset
<1>4. MoveAssigned(s, x, y) = MoveFrom(t, x, y)
  BY DEF MoveAssigned
<1>5. g[x] = h1[y] /\ \A z \in All \ {x, y} : g[z] = h1[z]
  BY <1>2
<1> HIDE DEF t
<1>6. Owned(MoveFrom(t, x, y), g) /\ MoveFrom(t, x, y).unique = t.unique
  BY <1>2, <1>3, <1>5, OwnedMoveFrom
<1> QED
  BY <1>3, <1>4, <1>6

(* A function that is assigned a target has it; a unique_function is left  *)
(* without one by a null pointer.                                          *)
LEMMA OwnedPut ==
  ASSUME CallableAssumption, NEW s, NEW h, Owned(s, h), NEW x \in All, NEW c \in Targets,
         NEW g \in Given, g[x] = IF s.unique /\ c = NullPointer THEN Raw ELSE c,
         \A z \in All \ {x} : g[z] = h[z]
  PROVE  Owned(Put(s, x, c), g) /\ Put(s, x, c).unique = s.unique
<1>1. h \in Given
  BY DEF Owned
<1>2. CASE s.unique /\ c = NullPointer
  <2>1. g[x] = Raw
    BY <1>2
  <2>2. Put(s, x, c) = Reset(s, x)
    BY <1>2 DEF Put
  <2> QED
    BY <2>1, <2>2, OwnedReset
<1>3. CASE ~ (s.unique /\ c = NullPointer)
  <2> DEFINE h1 == [h EXCEPT ![x] = Raw]
             t == Reset(s, x)
  <2>1. h1 \in Given /\ h1[x] = Raw /\ \A z \in All \ {x} : h1[z] = h[z]
    BY <1>1 DEF Given
  <2> HIDE DEF h1
  <2>2. Owned(t, h1) /\ t.unique = s.unique
    BY <2>1, OwnedReset
  <2>3. Put(s, x, c) = Place(t, x, c)
    BY <1>3 DEF Put
  <2>4. g[x] = c /\ \A z \in All \ {x} : g[z] = h1[z]
    BY <1>3, <2>1
  <2> HIDE DEF t
  <2>5. Owned(Place(t, x, c), g) /\ Place(t, x, c).unique = t.unique
    BY <2>1, <2>2, <2>4, OwnedPlace
  <2> QED
    BY <2>2, <2>3, <2>5
<1> QED
  BY <1>2, <1>3

(* Two functions that are swapped have each other's targets, by way of the *)
(* temporary, which ends without one; a copy on the way needs a block of   *)
(* its own while all three have a target.                                  *)
LEMMA OwnedSwapped ==
  ASSUME CallableAssumption, NEW s, NEW h, Owned(s, h), h[Temporary] = Raw,
         NEW x \in Names, NEW y \in Names,
         NEW g \in Given, g[x] = h[y], g[y] = h[x], \A z \in All \ {x, y} : g[z] = h[z]
  PROVE  Owned(Swapped(s, x, y), g) /\ Swapped(s, x, y).unique = s.unique
<1>1. /\ h \in Given /\ x \in All /\ y \in All /\ Temporary \in All
      /\ x # Temporary /\ y # Temporary
  BY DEF Owned, All, CallableAssumption
<1>2. CASE x = y
  <2>1. g = h
    BY <1>1, <1>2 DEF Given
  <2> QED
    BY <1>2, <2>1 DEF Swapped
<1>3. CASE x # y
  <2> DEFINE first == MoveFrom(s, Temporary, y)
             second == IF s.unique THEN MoveAssigned(first, y, x) ELSE CopyAssigned(first, y, x)
             third == MoveAssigned(second, x, Temporary)
             h1 == [h EXCEPT ![Temporary] = h[y], ![y] = Raw]
             h2 == [h1 EXCEPT ![y] = h[x], ![x] = IF s.unique THEN Raw ELSE @]
  <2>1. h[x] \in Targets \cup {Raw} /\ h[y] \in Targets \cup {Raw}
    BY <1>1 DEF Given
  <2>2. /\ h1 \in Given /\ h1[Temporary] = h[y] /\ h1[y] = Raw
        /\ \A z \in All \ {Temporary, y} : h1[z] = h[z]
    BY <1>1, <2>1 DEF Given
  <2>3. h1[x] = h[x]
    BY <1>1, <1>3, <2>2
  <2>4. /\ h2 \in Given /\ h2[y] = h[x] /\ h2[Temporary] = h[y]
        /\ h2[x] = IF s.unique THEN Raw ELSE h[x]
        /\ \A z \in All \ {x, y} : h2[z] = h1[z]
    <3> HIDE DEF h1
    <3>1. CASE s.unique
      BY <1>1, <1>3, <2>1, <2>2, <2>3, <3>1 DEF Given
    <3>2. CASE ~ s.unique
      BY <1>1, <1>3, <2>1, <2>2, <2>3, <3>2 DEF Given
    <3> QED
      BY <3>1, <3>2
  <2> HIDE DEF h1, h2
  <2>5. Owned(first, h1) /\ first.unique = s.unique
    BY <1>1, <2>2, OwnedMoveFrom
  <2>6. Swapped(s, x, y) = Reset(third, Temporary)
    BY <1>3 DEF Swapped
  <2> HIDE DEF first
  <2>7. Owned(second, h2) /\ second.unique = s.unique
    <3>1. CASE s.unique
      <4>1. second = MoveAssigned(first, y, x)
        BY <3>1
      <4>2. h2[y] = h1[x] /\ h2[x] = Raw /\ \A z \in All \ {y, x} : h2[z] = h1[z]
        BY <2>3, <2>4, <3>1
      <4> HIDE DEF second
      <4>3. Owned(MoveAssigned(first, y, x), h2) /\ MoveAssigned(first, y, x).unique = first.unique
        BY <1>1, <1>3, <2>4, <2>5, <4>2, OwnedMoveAssigned
      <4> QED
        BY <2>5, <4>1, <4>3
    <3>2. CASE ~ s.unique
      <4>1. second = CopyAssigned(first, y, x)
        BY <3>2
      <4>2. h2[y] = h1[x] /\ \A z \in All \ {y} : h2[z] = h1[z]
        BY <2>3, <2>4, <3>2
      <4> HIDE DEF second
      <4>3. Owned(CopyAssigned(first, y, x), h2) /\ CopyAssigned(first, y, x).unique = first.unique
        BY <1>1, <2>4, <2>5, <4>2, OwnedCopyAssigned
      <4> QED
        BY <2>5, <4>1, <4>3
    <3> QED
      BY <3>1, <3>2
  <2> HIDE DEF second
  <2>8. /\ g[x] = h2[Temporary] /\ g[Temporary] = Raw
        /\ \A z \in All \ {x, Temporary} : g[z] = h2[z]
    BY <1>1, <1>3, <2>2, <2>4
  <2>9. Owned(third, g) /\ third.unique = s.unique
    BY <1>1, <2>7, <2>8, OwnedMoveAssigned
  <2> HIDE DEF third
  <2>10. Owned(Reset(third, Temporary), g) /\ Reset(third, Temporary).unique = third.unique
    BY <1>1, <2>8, <2>9, OwnedReset
  <2> QED
    BY <2>6, <2>9, <2>10
<1> QED
  BY <1>2, <1>3

-----------------------------------------------------------------------------
(* The calls of the client.                                                *)

(* What the functions have by Holds when the client has given those in     *)
(* changed something else.                                                 *)
LEMMA HoldsFacts ==
  ASSUME CallableAssumption, holds \in [Names -> Targets \cup {Raw}]
  PROVE  /\ Holds \in Given /\ Holds[Temporary] = Raw
         /\ \A x \in Names : Holds[x] = holds[x] /\ x \in All /\ x # Temporary
         /\ \A z \in All : z = Temporary \/ z \in Names
BY DEF CallableAssumption, Holds, Given, All

(* Each call leaves every function with the target it should have.         *)
LEMMA CallsInvStep ==
  ASSUME CallableAssumption, CallsInv, [FunctionStep]_function_vars PROVE CallsInv'
<1>1. holds \in [Names -> Targets \cup {Raw}] /\ Owned(calls, Holds)
  BY DEF CallsInv
<1>2. /\ Holds \in Given /\ Holds[Temporary] = Raw
      /\ \A x \in Names : Holds[x] = holds[x] /\ x \in All /\ x # Temporary
      /\ \A z \in All : z = Temporary \/ z \in Names
  BY <1>1, HoldsFacts
<1>3. ASSUME holds' \in [Names -> Targets \cup {Raw}]
      PROVE  /\ Holds' \in Given /\ Holds'[Temporary] = Raw
             /\ \A x \in Names : Holds'[x] = holds'[x]
  BY <1>3 DEF CallableAssumption, Holds, Given, All
<1>4. ASSUME NEW x \in Names, NEW c \in Targets, Assign(x, c) PROVE CallsInv'
  <2> DEFINE given == IF calls.unique /\ c = NullPointer THEN Raw ELSE c
  <2>1. calls' = Put(calls, x, c) /\ holds' = [holds EXCEPT ![x] = given]
    BY <1>4 DEF Assign
  <2>2. given \in Targets \cup {Raw}
    OBVIOUS
  <2> HIDE DEF given
  <2>3. /\ holds' \in [Names -> Targets \cup {Raw}] /\ holds'[x] = given
        /\ \A z \in Names \ {x} : holds'[z] = holds[z]
    BY <1>1, <2>1, <2>2
  <2>4. Holds' \in Given /\ Holds'[x] = given /\ \A z \in All \ {x} : Holds'[z] = Holds[z]
    BY <1>2, <1>3, <2>3
  <2>5. Owned(Put(calls, x, c), Holds')
    <3> SUFFICES ASSUME NEW g, g = Holds' PROVE Owned(Put(calls, x, c), g)
      OBVIOUS
    <3>1. /\ g \in Given /\ g[x] = IF calls.unique /\ c = NullPointer THEN Raw ELSE c
          /\ \A z \in All \ {x} : g[z] = Holds[z]
      BY <2>4 DEF given
    <3> QED
      BY <1>1, <1>2, <3>1, OwnedPut
  <2> QED
    BY <2>1, <2>3, <2>5 DEF CallsInv
<1>5. ASSUME NEW x \in Names, NEW y \in Names, Copy(x, y) PROVE CallsInv'
  <2>1. calls' = CopyAssigned(calls, x, y) /\ holds' = [holds EXCEPT ![x] = holds[y]]
    BY <1>5 DEF Copy
  <2>2. /\ holds' \in [Names -> Targets \cup {Raw}] /\ holds'[x] = holds[y]
        /\ \A z \in Names \ {x} : holds'[z] = holds[z]
    BY <1>1, <2>1
  <2>3. Holds' \in Given /\ Holds'[x] = Holds[y] /\ \A z \in All \ {x} : Holds'[z] = Holds[z]
    BY <1>2, <1>3, <2>2
  <2>4. Owned(CopyAssigned(calls, x, y), Holds')
    <3> SUFFICES ASSUME NEW g, g = Holds' PROVE Owned(CopyAssigned(calls, x, y), g)
      OBVIOUS
    <3>1. g \in Given /\ g[x] = Holds[y] /\ \A z \in All \ {x} : g[z] = Holds[z]
      BY <2>3
    <3> QED
      BY <1>1, <1>2, <3>1, OwnedCopyAssigned
  <2> QED
    BY <2>1, <2>2, <2>4 DEF CallsInv
<1>6. ASSUME NEW x \in Names, NEW y \in Names, Move(x, y) PROVE CallsInv'
  <2>1. /\ x # y /\ calls' = MoveAssigned(calls, x, y)
        /\ holds' = [holds EXCEPT ![x] = holds[y], ![y] = Raw]
    BY <1>6 DEF Move
  <2>2. /\ holds' \in [Names -> Targets \cup {Raw}] /\ holds'[x] = holds[y] /\ holds'[y] = Raw
        /\ \A z \in Names \ {x, y} : holds'[z] = holds[z]
    BY <1>1, <2>1
  <2>3. /\ Holds' \in Given /\ Holds'[x] = Holds[y] /\ Holds'[y] = Raw
        /\ \A z \in All \ {x, y} : Holds'[z] = Holds[z]
    BY <1>2, <1>3, <2>2
  <2>4. Owned(MoveAssigned(calls, x, y), Holds')
    <3> SUFFICES ASSUME NEW g, g = Holds' PROVE Owned(MoveAssigned(calls, x, y), g)
      OBVIOUS
    <3>1. g \in Given /\ g[x] = Holds[y] /\ g[y] = Raw /\ \A z \in All \ {x, y} : g[z] = Holds[z]
      BY <2>3
    <3> QED
      BY <1>1, <1>2, <2>1, <3>1, OwnedMoveAssigned
  <2> QED
    BY <2>1, <2>2, <2>4 DEF CallsInv
<1>7. ASSUME NEW x \in Names, NEW y \in Names, Swap(x, y) PROVE CallsInv'
  <2>1. /\ calls' = Swapped(calls, x, y)
        /\ holds' = [holds EXCEPT ![x] = holds[y], ![y] = holds[x]]
    BY <1>7 DEF Swap
  <2>2. /\ holds' \in [Names -> Targets \cup {Raw}] /\ holds'[x] = holds[y] /\ holds'[y] = holds[x]
        /\ \A z \in Names \ {x, y} : holds'[z] = holds[z]
    BY <1>1, <2>1
  <2>3. /\ Holds' \in Given /\ Holds'[x] = Holds[y] /\ Holds'[y] = Holds[x]
        /\ \A z \in All \ {x, y} : Holds'[z] = Holds[z]
    BY <1>2, <1>3, <2>2
  <2>4. Owned(Swapped(calls, x, y), Holds')
    <3> SUFFICES ASSUME NEW g, g = Holds' PROVE Owned(Swapped(calls, x, y), g)
      OBVIOUS
    <3>1. /\ g \in Given /\ g[x] = Holds[y] /\ g[y] = Holds[x]
          /\ \A z \in All \ {x, y} : g[z] = Holds[z]
      BY <2>3
    <3> QED
      BY <1>1, <1>2, <3>1, OwnedSwapped
  <2> QED
    BY <2>1, <2>2, <2>4 DEF CallsInv
<1>8. ASSUME NEW x \in Names, Finish(x) PROVE CallsInv'
  <2>1. calls' = Reset(calls, x) /\ holds' = [holds EXCEPT ![x] = Raw]
    BY <1>8 DEF Finish
  <2>2. /\ holds' \in [Names -> Targets \cup {Raw}] /\ holds'[x] = Raw
        /\ \A z \in Names \ {x} : holds'[z] = holds[z]
    BY <1>1, <2>1
  <2>3. Holds' \in Given /\ Holds'[x] = Raw /\ \A z \in All \ {x} : Holds'[z] = Holds[z]
    BY <1>2, <1>3, <2>2
  <2>4. Owned(Reset(calls, x), Holds')
    <3> SUFFICES ASSUME NEW g, g = Holds' PROVE Owned(Reset(calls, x), g)
      OBVIOUS
    <3>1. g \in Given /\ g[x] = Raw /\ \A z \in All \ {x} : g[z] = Holds[z]
      BY <2>3
    <3> QED
      BY <1>1, <1>2, <3>1, OwnedReset
  <2> QED
    BY <2>1, <2>2, <2>4 DEF CallsInv
<1>9. CASE UNCHANGED function_vars
  <2>1. holds' = holds /\ calls' = calls
    BY <1>9 DEF function_vars
  <2>2. Holds' = Holds
    BY <2>1 DEF Holds
  <2> QED
    BY <1>1, <2>1, <2>2 DEF CallsInv
<1> QED
  BY <1>4, <1>5, <1>6, <1>7, <1>8, <1>9 DEF FunctionStep

(* Initially, and what the invariant says of the functions.                *)
LEMMA CallsInvInit == ASSUME CallableAssumption, FunctionInit PROVE CallsInv
<1>1. PICK unique \in BOOLEAN :
        /\ calls = [vt |-> [x \in All |-> "none"], storage |-> [x \in All |-> Raw],
                    heap |-> [b \in TargetBlocks |-> Raw], unique |-> unique, fault |-> FALSE]
        /\ holds = [x \in Names |-> Raw]
  BY DEF FunctionInit, All
<1>2. calls \in Memory /\ ~ calls.fault
  BY <1>1 DEF Memory, Tables
<1>3. /\ \A x \in All : calls.vt[x] = "none" /\ calls.storage[x] = Raw
      /\ \A b \in TargetBlocks : calls.heap[b] = Raw
  BY <1>1
<1>4. Holds \in Given /\ \A x \in All : Holds[x] = Raw
  BY <1>1 DEF Holds, Given, All
<1>5. Owned(calls, Holds)
  BY <1>2, <1>3, <1>4 DEF Owned, Has, InBlock
<1> QED
  BY <1>1, <1>5 DEF CallsInv

(* The invariant says that the targets are owned as they should be.        *)
LEMMA CallsInvImplies == ASSUME CallableAssumption, CallsInv PROVE TargetsOwned
<1>1. /\ ~ calls.fault /\ \A x \in All : Has(calls, x, Holds[x])
      /\ \A b \in TargetBlocks : \A x, y \in All : InBlock(calls, x, b) /\ InBlock(calls, y, b) => x = y
      /\ \A b \in TargetBlocks : calls.heap[b] # Raw => \E x \in All : InBlock(calls, x, b)
  BY DEF CallsInv, Owned
<1>2. /\ Holds[Temporary] = Raw
      /\ \A x \in Names : Holds[x] = holds[x] /\ x \in All /\ x # Temporary
      /\ \A z \in All : z = Temporary \/ z \in Names
  BY HoldsFacts DEF CallsInv
<1>3. ASSUME NEW x \in Names
      PROVE  IF holds[x] = Raw THEN calls.vt[x] = "none"
             ELSE ~ Dead(calls, x) /\ Target(calls, x) = holds[x]
  BY <1>1, <1>2, HasFacts
<1>4. ASSUME NEW x \in All PROVE calls.vt[x] = "none" <=> calls.storage[x] = Raw
  BY <1>1, HasFacts
<1>5. ASSUME NEW b \in TargetBlocks, calls.heap[b] # Raw
      PROVE  Cardinality({x \in Names : calls.vt[x] = "heap" /\ calls.storage[x] = b}) = 1
  <2>1. PICK x \in All : InBlock(calls, x, b)
    BY <1>1, <1>5
  <2>2. x # Temporary
    <3>1. calls.vt[Temporary] = "none"
      <4>1. Temporary \in All
        BY DEF All
      <4> QED
        BY <1>1, <1>2, <4>1, HasFacts
    <3> QED
      BY <2>1, <3>1 DEF InBlock
  <2>3. {y \in Names : calls.vt[y] = "heap" /\ calls.storage[y] = b} = {x}
    BY <1>1, <1>2, <2>1, <2>2 DEF InBlock
  <2> QED
    BY <2>3, FS_Singleton
<1> QED
  BY <1>1, <1>3, <1>4, <1>5 DEF TargetsOwned, All

-----------------------------------------------------------------------------
(* The theorem.                                                            *)

(* TargetsOwned: through any calls on any number of functions, each calls  *)
(* the target it was given, no target is shared, destroyed twice, used     *)
(* after that, or left behind.                                             *)
THEOREM TargetsOwnedHolds == ASSUME CallableAssumption PROVE FunctionSpec => []TargetsOwned
<1>1. FunctionInit => CallsInv
  BY CallsInvInit
<1>2. CallsInv /\ [FunctionStep]_function_vars => CallsInv'
  BY CallsInvStep
<1>3. CallsInv => TargetsOwned
  BY CallsInvImplies
<1> QED
  BY <1>1, <1>2, <1>3, PTL DEF FunctionSpec

-----------------------------------------------------------------------------
(* The disposal_queue.                                                     *)

Entries == [id : Pushes, wait : BOOLEAN, buffers : Buffers]

(* An entry in the hands of flush().                                       *)
Hands == [entry : Entries, pc : {"wait", "free", "reset"}, i : Nat \ {0}]

(* Pushes have numbers from 1 on, and a flush() that is not running is at no place   *)
(* in its loop.                                                            *)
QueueAssumption ==
  /\ Pushes \subseteq Nat \ {0}
  /\ Buffers \subseteq Nat
  /\ Idle \notin Hands \cup {NextPop}

Notes ==
  {<<"pushed", wait, n>> : wait \in BOOLEAN, n \in Buffers} \cup {<<"waited">>}
  \cup ({"on_free", "reset", "dropped"} \X Nat)

-----------------------------------------------------------------------------
(* The inductive invariant.                                                *)

(* What is to be seen of an entry before its first buffer, and in all.     *)
Before(entry) == IF entry.wait THEN 2 ELSE 1

Size(entry) == Before(entry) + 2 * entry.buffers

(* What has been seen of an entry is the first k of all there is.          *)
Follows(seen, entry, k) ==
  /\ k \in 1 .. Size(entry)
  /\ Len(seen) = k
  /\ \A j \in 1 .. k : seen[j] = Whole(entry.wait, entry.buffers)[j]

Dropped(seen, entry) ==
  \E k \in 1 .. Size(entry) :
    /\ Len(seen) = k + 1
    /\ \A j \in 1 .. k : seen[j] = Whole(entry.wait, entry.buffers)[j]
    /\ seen[k + 1][1] = "dropped"

(* How much that is where flush() has come to.                             *)
Reached(d) ==
  IF d.pc = "wait" THEN 1
  ELSE Before(d.entry) + 2 * (d.i - 1) + (IF d.pc = "reset" THEN 1 ELSE 0)

Held(t) == data[t] \in Hands

TypesFit ==
  /\ queue \in Seq(Entries)
  /\ data \in [Threads -> Hands \cup {NextPop, Idle}]
  /\ log \in [Pushes -> Seq(Notes)]

QueuedFollow == \A i \in DOMAIN queue : Follows(log[queue[i].id], queue[i], 1)

HeldFollow ==
  \A t \in Threads : Held(t) =>
    /\ data[t].pc # "wait" => data[t].i <= data[t].entry.buffers
    /\ Follows(log[data[t].entry.id], data[t].entry, Reached(data[t]))

OneHolder ==
  /\ \A i, j \in DOMAIN queue : queue[i].id = queue[j].id => i = j
  /\ \A t, u \in Threads : Held(t) /\ Held(u) /\ data[t].entry.id = data[u].entry.id => t = u
  /\ \A t \in Threads : Held(t) => \A i \in DOMAIN queue : data[t].entry.id # queue[i].id

Queued(e) == \E i \in DOMAIN queue : queue[i].id = e

InHands(e) == \E t \in Threads : Held(t) /\ data[t].entry.id = e

DoneWith(e) ==
  \E entry \in Entries : Follows(log[e], entry, Size(entry)) \/ Dropped(log[e], entry)

Accounted == \A e \in Pushed : Queued(e) \/ InHands(e) \/ DoneWith(e)

QueueInv == TypesFit /\ QueuedFollow /\ HeldFollow /\ OneHolder /\ Accounted

-----------------------------------------------------------------------------
(* Of some pushes there is a first one.                                    *)
LEMMA FirstOne ==
  ASSUME NEW S \in SUBSET Nat, S # {}
  PROVE  \E x \in S : \A y \in S : x <= y
<1> DEFINE R == {ss \in Nat \X Nat : ss[1] < ss[2]}
<1>1. IsWellFoundedOn(R, Nat)
  BY NatLessThanWellFounded, Zenon DEF OpToRel
<1> HIDE DEF R
<1>2. \E x \in S : \A y \in S : ~ (<<y, x>> \in R)
  BY <1>1, WFMin
<1>3. \A x, y \in S : ~ (<<y, x>> \in R) => x <= y
  <2> SUFFICES ASSUME NEW x \in S, NEW y \in S, ~ (<<y, x>> \in R) PROVE x <= y
    OBVIOUS
  <2>1. x \in Nat /\ y \in Nat
    OBVIOUS
  <2>2. ~ (y < x)
    BY <2>1 DEF R
  <2> QED
    BY <2>1, <2>2
<1> QED
  BY <1>2, <1>3

-----------------------------------------------------------------------------
(* What is to be seen of an entry.                                         *)

(* It begins with the push and on_wait, has on_free and the reset of each  *)
(* buffer, and no exception.                                               *)
LEMMA WholeFacts ==
  ASSUME QueueAssumption, NEW entry \in Entries
  PROVE  LET whole == Whole(entry.wait, entry.buffers)
         IN  /\ whole \in Seq(Notes) /\ Len(whole) = Size(entry)
             /\ Size(entry) \in Nat \ {0} /\ Before(entry) \in {1, 2}
             /\ entry.buffers \in Nat
             /\ whole[1] = <<"pushed", entry.wait, entry.buffers>>
             /\ entry.wait => whole[2] = <<"waited">>
             /\ \A i \in 1 .. entry.buffers :
                  /\ whole[Before(entry) + 2 * (i - 1) + 1] = <<"on_free", i>>
                  /\ whole[Before(entry) + 2 * (i - 1) + 2] = <<"reset", i>>
             /\ \A j \in 1 .. Size(entry) : whole[j][1] # "dropped"
<1> DEFINE n == entry.buffers
           pushed == << <<"pushed", entry.wait, n>> >>
           waited == IF entry.wait THEN << <<"waited">> >> ELSE <<>>
           note(j) == IF j % 2 = 1 THEN <<"on_free", j \div 2 + 1>> ELSE <<"reset", j \div 2>>
           rest == [j \in 1 .. 2 * n |-> note(j)]
           first == pushed \o waited
           whole == Whole(entry.wait, entry.buffers)
<1>1. n \in Nat /\ n \in Buffers /\ entry.wait \in BOOLEAN
  BY DEF Entries, QueueAssumption
<1>2. whole = (pushed \o waited) \o rest
  BY DEF Whole
<1>3. pushed \in Seq(Notes) /\ Len(pushed) = 1 /\ pushed[1] = <<"pushed", entry.wait, n>>
  <2>1. <<"pushed", entry.wait, n>> \in Notes
    BY <1>1 DEF Notes
  <2> QED
    BY <2>1
<1>4. /\ waited \in Seq(Notes) /\ Len(waited) = Before(entry) - 1 /\ Before(entry) \in {1, 2}
      /\ entry.wait => waited[1] = <<"waited">>
  <2>1. <<"waited">> \in Notes
    BY DEF Notes
  <2>2. CASE entry.wait
    BY <2>1, <2>2 DEF Before
  <2>3. CASE ~ entry.wait
    BY <2>3, EmptySeq DEF Before
  <2> QED
    BY <2>2, <2>3
<1>5. \A j \in 1 .. 2 * n : note(j) \in Notes /\ note(j)[1] \in {"on_free", "reset"}
  <2> SUFFICES ASSUME NEW j \in 1 .. 2 * n
               PROVE  note(j) \in Notes /\ note(j)[1] \in {"on_free", "reset"}
    OBVIOUS
  <2>1. j \div 2 \in Nat /\ j \div 2 + 1 \in Nat
    BY <1>1
  <2>2. CASE j % 2 = 1
    BY <2>1, <2>2 DEF Notes
  <2>3. CASE j % 2 # 1
    BY <2>1, <2>3 DEF Notes
  <2> QED
    BY <2>2, <2>3
<1>6. /\ rest \in Seq(Notes) /\ Len(rest) = 2 * n
      /\ \A j \in 1 .. 2 * n : rest[j] = note(j)
  <2>1. 2 * n \in Nat
    BY <1>1
  <2>2. rest \in [1 .. 2 * n -> Notes]
    BY <1>5
  <2>3. rest \in Seq(Notes)
    BY <2>1, <2>2, SeqDef, ZenonT(40)
  <2>4. Len(rest) \in Nat /\ DOMAIN rest = 1 .. Len(rest)
    BY <2>3, LenProperties
  <2> QED
    BY <2>1, <2>2, <2>3, <2>4
<1> HIDE DEF pushed, waited, rest, whole
<1>7. /\ first \in Seq(Notes) /\ Len(first) = Before(entry)
      /\ first[1] = <<"pushed", entry.wait, n>>
      /\ entry.wait => first[2] = <<"waited">>
  <2>1. /\ first \in Seq(Notes) /\ Len(first) = Before(entry)
        /\ \A k \in 1 .. Len(pushed) + Len(waited) :
             first[k] = IF k <= Len(pushed) THEN pushed[k] ELSE waited[k - Len(pushed)]
    <3>1. pushed \in Seq(Notes)
      BY <1>3
    <3>2. waited \in Seq(Notes)
      BY <1>4
    <3>3. /\ pushed \o waited \in Seq(Notes) /\ Len(pushed \o waited) = Len(pushed) + Len(waited)
          /\ \A k \in 1 .. Len(pushed) + Len(waited) :
               (pushed \o waited)[k] = IF k <= Len(pushed) THEN pushed[k] ELSE waited[k - Len(pushed)]
      BY <3>1, <3>2, ConcatProperties
    <3>4. Len(pushed) = 1 /\ Len(waited) = Before(entry) - 1 /\ Before(entry) \in {1, 2}
      BY <1>3, <1>4
    <3>5. Len(pushed) + Len(waited) = Before(entry)
      BY <3>4
    <3> QED
      BY <3>3, <3>5
  <2>2. first[1] = pushed[1]
    BY <1>3, <1>4, <2>1
  <2>3. entry.wait => first[2] = waited[1]
    BY <1>3, <1>4, <2>1 DEF Before
  <2> QED
    BY <1>3, <1>4, <2>1, <2>2, <2>3
<1> HIDE DEF first
<1>8. /\ whole \in Seq(Notes) /\ Len(whole) = Before(entry) + 2 * n
      /\ \A k \in 1 .. Before(entry) + 2 * n :
           whole[k] = IF k <= Before(entry) THEN first[k] ELSE rest[k - Before(entry)]
  <2>1. whole = first \o rest
    BY <1>2 DEF first
  <2>2. first \in Seq(Notes)
    BY <1>7
  <2>3. rest \in Seq(Notes)
    BY <1>6
  <2>4. /\ first \o rest \in Seq(Notes) /\ Len(first \o rest) = Len(first) + Len(rest)
        /\ \A k \in 1 .. Len(first) + Len(rest) :
             (first \o rest)[k] = IF k <= Len(first) THEN first[k] ELSE rest[k - Len(first)]
    BY <2>2, <2>3, ConcatProperties
  <2> QED
    BY <1>6, <1>7, <2>1, <2>4
<1>9. whole[1] = first[1] /\ (entry.wait => whole[2] = first[2])
  BY <1>1, <1>4, <1>8 DEF Before
<1>10. ASSUME NEW i \in 1 .. n
       PROVE  /\ whole[Before(entry) + 2 * (i - 1) + 1] = <<"on_free", i>>
              /\ whole[Before(entry) + 2 * (i - 1) + 2] = <<"reset", i>>
  <2> DEFINE j == 2 * (i - 1) + 1
  <2>1. /\ j \in 1 .. 2 * n /\ j + 1 \in 1 .. 2 * n
        /\ j % 2 = 1 /\ j \div 2 + 1 = i
        /\ (j + 1) % 2 # 1 /\ (j + 1) \div 2 = i
    BY <1>1
  <2>2. rest[j] = <<"on_free", i>> /\ rest[j + 1] = <<"reset", i>>
    BY <1>6, <2>1
  <2>3. /\ Before(entry) + 2 * (i - 1) + 1 = Before(entry) + j
        /\ Before(entry) + 2 * (i - 1) + 2 = Before(entry) + (j + 1)
    BY <1>4
  <2> HIDE DEF j
  <2>4. \A k \in 1 .. 2 * n : whole[Before(entry) + k] = rest[k]
    <3> SUFFICES ASSUME NEW k \in 1 .. 2 * n PROVE whole[Before(entry) + k] = rest[k]
      OBVIOUS
    <3>1. /\ Before(entry) + k \in 1 .. Before(entry) + 2 * n
          /\ ~ (Before(entry) + k <= Before(entry)) /\ (Before(entry) + k) - Before(entry) = k
      BY <1>1, <1>4
    <3>2. ASSUME NEW m \in 1 .. Before(entry) + 2 * n, ~ (m <= Before(entry))
          PROVE  whole[m] = rest[m - Before(entry)]
      BY <1>8, <3>2
    <3> DEFINE m == Before(entry) + k
    <3>3. m \in 1 .. Before(entry) + 2 * n
      BY <3>1
    <3>5. ~ (m <= Before(entry))
      BY <3>1
    <3>6. m - Before(entry) = k
      BY <3>1
    <3> HIDE DEF m
    <3>4. whole[m] = rest[k]
      BY <3>2, <3>3, <3>5, <3>6
    <3> QED
      BY <3>4 DEF m
  <2> QED
    BY <2>1, <2>2, <2>3, <2>4
<1>11. ASSUME NEW k \in 1 .. Before(entry) + 2 * n PROVE whole[k][1] # "dropped"
  <2>1. CASE k <= Before(entry)
    <3>1. whole[k] = first[k]
      BY <1>8, <2>1
    <3>2. k = 1 \/ (k = 2 /\ entry.wait)
      <4>1. k \in Nat \ {0}
        BY <1>1, <1>4
      <4>2. CASE entry.wait
        BY <2>1, <4>1, <4>2 DEF Before
      <4>3. CASE ~ entry.wait
        BY <2>1, <4>1, <4>3 DEF Before
      <4> QED
        BY <4>2, <4>3
    <3> QED
      BY <1>7, <3>1, <3>2
  <2>2. CASE k > Before(entry)
    <3>1. k - Before(entry) \in 1 .. 2 * n /\ whole[k] = rest[k - Before(entry)]
      BY <1>1, <1>4, <1>8, <2>2
    <3>2. whole[k] = note(k - Before(entry))
      BY <1>6, <3>1
    <3> HIDE DEF note
    <3> QED
      BY <1>5, <3>1, <3>2
  <2> QED
    BY <1>1, <1>4, <2>1, <2>2
<1>12. Size(entry) = Before(entry) + 2 * n /\ Size(entry) \in Nat \ {0}
  BY <1>1, <1>4 DEF Size
<1>13. /\ whole \in Seq(Notes) /\ Len(whole) = Size(entry)
       /\ \A j \in 1 .. Size(entry) : whole[j][1] # "dropped"
  BY <1>8, <1>11, <1>12
<1>14. whole[1] = <<"pushed", entry.wait, n>> /\ (entry.wait => whole[2] = <<"waited">>)
  BY <1>7, <1>9
<1> QED
  BY <1>1, <1>4, <1>10, <1>12, <1>13, <1>14 DEF whole

(* A note that is the next of all there is.                                *)
LEMMA FollowsOn ==
  ASSUME QueueAssumption, NEW entry \in Entries, NEW seen \in Seq(Notes), NEW k,
         Follows(seen, entry, k), k + 1 \in 1 .. Size(entry),
         NEW note \in Notes, Whole(entry.wait, entry.buffers)[k + 1] = note
  PROVE  Append(seen, note) \in Seq(Notes) /\ Follows(Append(seen, note), entry, k + 1)
<1> DEFINE whole == Whole(entry.wait, entry.buffers)
           more == Append(seen, note)
<1>1. Size(entry) \in Nat
  BY WholeFacts
<1>2. /\ k \in 1 .. Size(entry) /\ Len(seen) = k
      /\ \A j \in 1 .. k : seen[j] = whole[j]
  BY DEF Follows
<1>3. /\ more \in Seq(Notes) /\ Len(more) = Len(seen) + 1
      /\ \A j \in 1 .. Len(seen) : more[j] = seen[j]
      /\ more[Len(seen) + 1] = note
  BY AppendProperties
<1> HIDE DEF more, whole
<1>4. ASSUME NEW j \in 1 .. k + 1 PROVE more[j] = whole[j]
  <2>1. CASE j = k + 1
    BY <1>2, <1>3, <2>1 DEF whole
  <2>2. CASE j # k + 1
    <3>1. j \in 1 .. k
      BY <1>1, <1>2, <2>2
    <3> QED
      BY <1>2, <1>3, <3>1
  <2> QED
    BY <2>1, <2>2
<1> QED
  BY <1>2, <1>3, <1>4 DEF Follows, more, whole

(* What has followed of an entry that an exception ends.                   *)
LEMMA DroppedOn ==
  ASSUME QueueAssumption, NEW entry \in Entries, NEW seen \in Seq(Notes), NEW k,
         Follows(seen, entry, k), NEW i \in Nat
  PROVE  /\ Append(seen, <<"dropped", i>>) \in Seq(Notes)
         /\ Dropped(Append(seen, <<"dropped", i>>), entry)
<1> DEFINE note == <<"dropped", i>>
           more == Append(seen, note)
<1>1. note \in Notes
  BY DEF Notes
<1>2. /\ k \in 1 .. Size(entry) /\ Len(seen) = k
      /\ \A j \in 1 .. k : seen[j] = Whole(entry.wait, entry.buffers)[j]
  BY DEF Follows
<1>3. note[1] = "dropped"
  OBVIOUS
<1> HIDE DEF note
<1>4. /\ more \in Seq(Notes) /\ Len(more) = Len(seen) + 1
      /\ \A j \in 1 .. Len(seen) : more[j] = seen[j]
      /\ more[Len(seen) + 1] = note
  BY <1>1, AppendProperties
<1> HIDE DEF more
<1>5. Dropped(more, entry)
  BY <1>2, <1>3, <1>4 DEF Dropped
<1> QED
  BY <1>4, <1>5 DEF more, note

-----------------------------------------------------------------------------
(* The steps.                                                              *)

(* A place in the loop over the buffers, and at try_pop, of a flush().     *)
LEMMA PlaceFacts ==
  ASSUME QueueAssumption, NEW entry \in Entries, NEW i \in Nat \ {0}
  PROVE  /\ NextPop \notin Hands /\ Idle \notin Hands /\ Idle # NextPop
         /\ \A pc \in {"wait", "free", "reset"} :
              /\ At(entry, pc, i) \in Hands
              /\ At(entry, pc, i).entry = entry /\ At(entry, pc, i).pc = pc
              /\ At(entry, pc, i).i = i
<1>1. NextPop.pc = "pop"
  BY DEF NextPop, At
<1>2. \A d \in Hands : d.pc # "pop"
  BY DEF Hands
<1> QED
  BY <1>1, <1>2 DEF QueueAssumption, Hands, At

(* Of an entry that waits or is worked on something has been seen, and its *)
(* exception has not been.                                                 *)
LEMMA SeenOf ==
  ASSUME QueueAssumption, TypesFit, QueuedFollow, HeldFollow, NEW e \in Pushes
  PROVE  /\ Queued(e) \/ InHands(e) =>
              \E entry \in Entries, k \in Nat \ {0} : Follows(log[e], entry, k)
         /\ log[e] = <<>> => ~ Queued(e) /\ ~ InHands(e)
<1>1. ASSUME Queued(e)
      PROVE  \E entry \in Entries, k \in Nat \ {0} : Follows(log[e], entry, k)
  <2>1. PICK i \in DOMAIN queue : queue[i].id = e
    BY <1>1 DEF Queued
  <2>2. queue[i] \in Entries
    BY <2>1, LenProperties, ElementOfSeq DEF TypesFit
  <2>3. Follows(log[e], queue[i], 1)
    BY <2>1 DEF QueuedFollow
  <2> QED
    BY <2>2, <2>3
<1>2. ASSUME InHands(e)
      PROVE  \E entry \in Entries, k \in Nat \ {0} : Follows(log[e], entry, k)
  <2>1. PICK t \in Threads : Held(t) /\ data[t].entry.id = e
    BY <1>2 DEF InHands
  <2>2. data[t].entry \in Entries
    BY <2>1 DEF Held, Hands
  <2>3. Follows(log[e], data[t].entry, Reached(data[t]))
    BY <2>1 DEF HeldFollow
  <2>4. Reached(data[t]) \in Nat \ {0}
    <3>1. Size(data[t].entry) \in Nat
      BY <2>2, WholeFacts
    <3> QED
      BY <2>3, <3>1 DEF Follows
  <2> QED
    BY <2>2, <2>3, <2>4
<1>3. ASSUME NEW entry \in Entries, NEW k \in Nat \ {0}, Follows(log[e], entry, k)
      PROVE  log[e] # <<>>
  <2>1. Len(log[e]) = k
    BY <1>3 DEF Follows
  <2> QED
    BY <2>1, EmptySeq
<1> QED
  BY <1>1, <1>2, <1>3

(* A flush() that begins, or finds the queue empty.                        *)
LEMMA BetweenEntriesKeeps ==
  ASSUME QueueAssumption, QueueInv, NEW t \in Threads, ~ Held(t), NEW d \in {NextPop, Idle},
         data' = [data EXCEPT ![t] = d], UNCHANGED <<queue, log>>
  PROVE  QueueInv'
<1>1. NextPop \notin Hands /\ Idle \notin Hands /\ d \notin Hands
  <2>1. NextPop.pc = "pop"
    BY DEF NextPop, At
  <2>2. \A x \in Hands : x.pc # "pop"
    BY DEF Hands
  <2> QED
    BY <2>1, <2>2 DEF QueueAssumption
<1>2. data \in [Threads -> Hands \cup {NextPop, Idle}]
  BY DEF QueueInv, TypesFit
<1>3. /\ data' \in [Threads -> Hands \cup {NextPop, Idle}]
      /\ data'[t] = d /\ \A u \in Threads \ {t} : data'[u] = data[u]
  BY <1>2
<1>4. \A u \in Threads : (Held(u)' <=> Held(u)) /\ (Held(u) => data'[u] = data[u])
  BY <1>1, <1>3 DEF Held
<1>5. queue' = queue /\ log' = log /\ Pushed' = Pushed
  BY DEF Pushed
<1>6. TypesFit'
  BY <1>3, <1>5 DEF QueueInv, TypesFit
<1>7. QueuedFollow'
  BY <1>5 DEF QueueInv, QueuedFollow
<1>8. HeldFollow'
  <2> SUFFICES ASSUME NEW u \in Threads, Held(u)'
               PROVE  /\ data'[u].pc # "wait" => data'[u].i <= data'[u].entry.buffers
                      /\ Follows(log'[data'[u].entry.id], data'[u].entry, Reached(data'[u]))
    BY DEF HeldFollow
  <2>1. Held(u) /\ data'[u] = data[u]
    BY <1>4
  <2> QED
    BY <1>5, <2>1 DEF QueueInv, HeldFollow
<1>9. OneHolder'
  <2>1. \A u \in Threads : Held(u)' => Held(u) /\ data'[u].entry.id = data[u].entry.id
    BY <1>4
  <2> QED
    BY <1>5, <2>1 DEF QueueInv, OneHolder
<1>10. Accounted'
  <2>1. \A e : InHands(e) => InHands(e)'
    BY <1>4 DEF InHands
  <2>2. \A e : Queued(e) => Queued(e)'
    BY <1>5 DEF Queued
  <2>3. \A e : DoneWith(e) => DoneWith(e)'
    BY <1>5 DEF DoneWith
  <2> QED
    BY <1>5, <2>1, <2>2, <2>3 DEF QueueInv, Accounted
<1> QED
  BY <1>6, <1>7, <1>8, <1>9, <1>10 DEF QueueInv

(* A flush() that takes an entry from the queue.                           *)
LEMMA PopKeeps ==
  ASSUME QueueAssumption, QueueInv, NEW t \in Threads, Pop(t)
  PROVE  QueueInv'
<1> DEFINE entry == Head(queue)
           d == At(entry, "wait", 1)
<1>1. /\ queue \in Seq(Entries) /\ queue # <<>>
      /\ data \in [Threads -> Hands \cup {NextPop, Idle}]
      /\ log \in [Pushes -> Seq(Notes)]
  BY DEF QueueInv, TypesFit, Pop
<1>2. /\ entry \in Entries /\ Tail(queue) \in Seq(Entries)
      /\ Len(Tail(queue)) = Len(queue) - 1
      /\ \A i \in 1 .. Len(Tail(queue)) : Tail(queue)[i] = queue[i + 1]
  BY <1>1, HeadTailProperties
<1>3. Len(queue) \in Nat \ {0} /\ DOMAIN queue = 1 .. Len(queue)
  BY <1>1, EmptySeq, LenProperties
<1>4. entry = queue[1] /\ 1 \in DOMAIN queue
  BY <1>1, <1>3
<1>5. queue' = Tail(queue) /\ log' = log /\ Pushed' = Pushed
  BY DEF Pop, Pushed
<1>6. queue' \in Seq(Entries) /\ DOMAIN queue' = 1 .. Len(queue) - 1
  <2>1. queue' \in Seq(Entries)
    BY <1>2, <1>5
  <2>2. DOMAIN queue' = 1 .. Len(queue')
    BY <2>1, LenProperties
  <2> QED
    BY <1>2, <1>5, <2>1, <2>2
<1>7. \A i \in DOMAIN queue' : i + 1 \in DOMAIN queue /\ i + 1 # 1 /\ queue'[i] = queue[i + 1]
  BY <1>2, <1>3, <1>5, <1>6
<1>8. \A i \in DOMAIN queue : i # 1 => i - 1 \in DOMAIN queue' /\ queue'[i - 1] = queue[i]
  <2> SUFFICES ASSUME NEW i \in DOMAIN queue, i # 1
               PROVE  i - 1 \in DOMAIN queue' /\ queue'[i - 1] = queue[i]
    OBVIOUS
  <2>1. i - 1 \in DOMAIN queue' /\ (i - 1) + 1 = i
    BY <1>3, <1>6
  <2> QED
    BY <1>7, <2>1
<1>9. d \in Hands /\ d.entry = entry /\ d.pc = "wait"
  BY <1>2, PlaceFacts
<1>10. ~ Held(t)
  BY DEF Held, Hands, Pop
<1>11. data' = [data EXCEPT ![t] = d]
  BY DEF Pop
<1> HIDE DEF d, entry
<1>12. /\ data' \in [Threads -> Hands \cup {NextPop, Idle}]
       /\ data'[t] = d /\ \A u \in Threads \ {t} : data'[u] = data[u]
  BY <1>1, <1>9, <1>11
<1>13. Held(t)' /\ \A u \in Threads \ {t} : (Held(u)' <=> Held(u)) /\ data'[u] = data[u]
  BY <1>9, <1>12 DEF Held
<1>14. \A i \in DOMAIN queue' : queue'[i].id # entry.id
  <2> SUFFICES ASSUME NEW i \in DOMAIN queue', queue'[i].id = entry.id PROVE FALSE
    OBVIOUS
  <2>1. i + 1 \in DOMAIN queue /\ queue[i + 1].id = queue[1].id /\ i + 1 # 1
    BY <1>4, <1>7
  <2> QED
    BY <1>4, <2>1 DEF QueueInv, OneHolder
<1>15. \A u \in Threads : Held(u) => data[u].entry.id # entry.id
  BY <1>4 DEF QueueInv, OneHolder
<1>16. TypesFit'
  BY <1>1, <1>5, <1>6, <1>12 DEF TypesFit
<1>17. QueuedFollow'
  BY <1>5, <1>7 DEF QueueInv, QueuedFollow
<1>18. HeldFollow'
  <2> SUFFICES ASSUME NEW u \in Threads, Held(u)'
               PROVE  /\ data'[u].pc # "wait" => data'[u].i <= data'[u].entry.buffers
                      /\ Follows(log'[data'[u].entry.id], data'[u].entry, Reached(data'[u]))
    BY DEF HeldFollow
  <2>1. CASE u = t
    <3>1. Follows(log[entry.id], entry, 1)
      BY <1>4 DEF QueueInv, QueuedFollow
    <3>2. data'[u] = d /\ Reached(d) = 1
      BY <1>9, <1>12, <2>1 DEF Reached
    <3> QED
      BY <1>5, <1>9, <3>1, <3>2
  <2>2. CASE u # t
    BY <1>5, <1>13, <2>2 DEF QueueInv, HeldFollow
  <2> QED
    BY <2>1, <2>2
<1>19. OneHolder'
  <2>1. \A i, j \in DOMAIN queue' : queue'[i].id = queue'[j].id => i = j
    <3> SUFFICES ASSUME NEW i \in DOMAIN queue', NEW j \in DOMAIN queue',
                        queue'[i].id = queue'[j].id
                 PROVE  i = j
      OBVIOUS
    <3>1. i + 1 = j + 1
      BY <1>7 DEF QueueInv, OneHolder
    <3> QED
      BY <1>3, <1>6, <3>1
  <2>2. \A u, v \in Threads :
          Held(u)' /\ Held(v)' /\ data'[u].entry.id = data'[v].entry.id => u = v
    BY <1>9, <1>12, <1>13, <1>15 DEF QueueInv, OneHolder
  <2>3. \A u \in Threads : Held(u)' => \A i \in DOMAIN queue' : data'[u].entry.id # queue'[i].id
    <3> SUFFICES ASSUME NEW u \in Threads, Held(u)', NEW i \in DOMAIN queue'
                 PROVE  data'[u].entry.id # queue'[i].id
      OBVIOUS
    <3>1. CASE u = t
      BY <1>9, <1>12, <1>14, <3>1
    <3>2. CASE u # t
      BY <1>7, <1>13, <3>2 DEF QueueInv, OneHolder
    <3> QED
      BY <3>1, <3>2
  <2> QED
    BY <2>1, <2>2, <2>3 DEF OneHolder
<1>20. Accounted'
  <2> SUFFICES ASSUME NEW e \in Pushed PROVE Queued(e)' \/ InHands(e)' \/ DoneWith(e)'
    BY <1>5 DEF Accounted
  <2>1. CASE Queued(e)
    <3>1. PICK i \in DOMAIN queue : queue[i].id = e
      BY <2>1 DEF Queued
    <3>2. CASE i = 1
      BY <1>4, <1>9, <1>12, <1>13, <3>1, <3>2 DEF InHands
    <3>3. CASE i # 1
      BY <1>8, <3>1, <3>3 DEF Queued
    <3> QED
      BY <3>2, <3>3
  <2>2. CASE InHands(e)
    <3>1. PICK u \in Threads : Held(u) /\ data[u].entry.id = e
      BY <2>2 DEF InHands
    <3>2. u # t
      BY <1>10, <3>1
    <3> QED
      BY <1>13, <3>1, <3>2 DEF InHands
  <2>3. CASE DoneWith(e)
    BY <1>5, <2>3 DEF DoneWith
  <2> QED
    BY <2>1, <2>2, <2>3 DEF QueueInv, Accounted
<1> QED
  BY <1>16, <1>17, <1>18, <1>19, <1>20 DEF QueueInv

(* A flush() that goes on with its entry, or is done with it.              *)
LEMMA WorkKeeps ==
  ASSUME QueueAssumption, QueueInv, NEW t \in Threads, Held(t),
         NEW d \in Hands \cup {NextPop, Idle}, NEW seen \in Seq(Notes), seen # <<>>,
         queue' = queue, data' = [data EXCEPT ![t] = d],
         log' = [log EXCEPT ![data[t].entry.id] = seen],
         d \in Hands => /\ d.entry = data[t].entry
                        /\ d.pc # "wait" => d.i <= d.entry.buffers
                        /\ Follows(seen, d.entry, Reached(d)),
         d \notin Hands => \/ Follows(seen, data[t].entry, Size(data[t].entry))
                           \/ Dropped(seen, data[t].entry)
  PROVE  QueueInv'
<1> DEFINE entry == data[t].entry
           own == entry.id
<1>1. /\ queue \in Seq(Entries)
      /\ data \in [Threads -> Hands \cup {NextPop, Idle}]
      /\ log \in [Pushes -> Seq(Notes)]
  BY DEF QueueInv, TypesFit
<1>2. entry \in Entries /\ own \in Pushes
  BY DEF Held, Hands, Entries
<1>3. own \in Pushed /\ log[own] # <<>>
  <2>1. InHands(own)
    BY DEF InHands
  <2> QED
    BY <1>2, <2>1, SeenOf DEF QueueInv, Pushed
<1> HIDE DEF entry, own
<1>4. /\ data' \in [Threads -> Hands \cup {NextPop, Idle}]
      /\ data'[t] = d /\ \A u \in Threads \ {t} : data'[u] = data[u]
  BY <1>1
<1>5. /\ log' \in [Pushes -> Seq(Notes)]
      /\ log'[own] = seen /\ \A e \in Pushes \ {own} : log'[e] = log[e]
  BY <1>1, <1>2 DEF own, entry
<1>6. Pushed' = Pushed
  BY <1>3, <1>5 DEF Pushed
<1>7. Held(t)' <=> d \in Hands
  BY <1>4 DEF Held
<1>8. \A u \in Threads \ {t} : (Held(u)' <=> Held(u)) /\ data'[u] = data[u]
  BY <1>4 DEF Held
<1>9. \A u \in Threads : Held(u)' => Held(u) /\ data'[u].entry.id = data[u].entry.id
  BY <1>4, <1>7, <1>8 DEF entry
<1>10. \A u \in Threads \ {t} : Held(u) => data[u].entry.id # own
  BY DEF QueueInv, OneHolder, own, entry
<1>11. \A i \in DOMAIN queue : queue[i].id # own
  BY DEF QueueInv, OneHolder, own, entry
<1>12. TypesFit'
  BY <1>1, <1>4, <1>5 DEF TypesFit
<1>13. QueuedFollow'
  <2> SUFFICES ASSUME NEW i \in DOMAIN queue PROVE Follows(log'[queue[i].id], queue[i], 1)
    BY DEF QueuedFollow
  <2>1. queue[i] \in Entries
    BY <1>1, LenProperties, ElementOfSeq
  <2>2. queue[i].id \in Pushes \ {own}
    BY <1>11, <2>1 DEF Entries
  <2> QED
    BY <1>5, <2>2 DEF QueueInv, QueuedFollow
<1>14. HeldFollow'
  <2> SUFFICES ASSUME NEW u \in Threads, Held(u)'
               PROVE  /\ data'[u].pc # "wait" => data'[u].i <= data'[u].entry.buffers
                      /\ Follows(log'[data'[u].entry.id], data'[u].entry, Reached(data'[u]))
    BY DEF HeldFollow
  <2>1. CASE u = t
    <3>1. d \in Hands /\ data'[u] = d /\ d.entry = entry
      BY <1>4, <1>7, <2>1 DEF entry
    <3>2. /\ d.pc # "wait" => d.i <= d.entry.buffers
          /\ Follows(seen, d.entry, Reached(d))
      BY <3>1
    <3>3. log'[d.entry.id] = seen
      BY <1>5, <3>1 DEF own
    <3> QED
      BY <3>1, <3>2, <3>3
  <2>2. CASE u # t
    <3>1. Held(u) /\ data'[u] = data[u] /\ data[u].entry.id # own
      BY <1>8, <1>10, <2>2
    <3>2. data[u].entry.id \in Pushes
      BY <3>1 DEF Held, Hands, Entries
    <3> QED
      BY <1>5, <3>1, <3>2 DEF QueueInv, HeldFollow
  <2> QED
    BY <2>1, <2>2
<1>15. OneHolder'
  BY <1>9 DEF QueueInv, OneHolder
<1>16. Accounted'
  <2> SUFFICES ASSUME NEW e \in Pushed PROVE Queued(e)' \/ InHands(e)' \/ DoneWith(e)'
    BY <1>6 DEF Accounted
  <2>1. CASE e = own
    <3>1. CASE d \in Hands
      <4>1. Held(t)' /\ data'[t].entry.id = own
        BY <1>4, <1>7, <3>1 DEF own, entry
      <4> QED
        BY <2>1, <4>1 DEF InHands
    <3>2. CASE d \notin Hands
      <4>1. Follows(seen, entry, Size(entry)) \/ Dropped(seen, entry)
        BY <3>2 DEF entry
      <4> QED
        BY <1>2, <1>5, <2>1, <4>1 DEF DoneWith
    <3> QED
      BY <3>1, <3>2
  <2>2. CASE e # own
    <3>1. e \in Pushes \ {own} /\ log'[e] = log[e]
      BY <1>5, <2>2 DEF Pushed
    <3>2. CASE Queued(e)
      BY <3>2 DEF Queued
    <3>3. CASE InHands(e)
      <4>1. PICK u \in Threads : Held(u) /\ data[u].entry.id = e
        BY <3>3 DEF InHands
      <4>2. u # t
        BY <2>2, <4>1 DEF own, entry
      <4> QED
        BY <1>8, <4>1, <4>2 DEF InHands
    <3>4. CASE DoneWith(e)
      BY <3>1, <3>4 DEF DoneWith
    <3> QED
      BY <3>2, <3>3, <3>4 DEF QueueInv, Accounted
  <2> QED
    BY <2>1, <2>2
<1> QED
  BY <1>12, <1>13, <1>14, <1>15, <1>16 DEF QueueInv

(* A push, of the first of those not made yet.                             *)
LEMMA PushKeeps ==
  ASSUME QueueAssumption, QueueInv, NEW wait \in BOOLEAN, NEW n \in Buffers, Push(wait, n)
  PROVE  QueueInv'
<1> DEFINE rest == Pushes \ Pushed
           new == CHOOSE x \in rest : \A y \in rest : x <= y
           entry == [id |-> new, wait |-> wait, buffers |-> n]
           note == <<"pushed", wait, n>>
<1>1. /\ queue \in Seq(Entries)
      /\ data \in [Threads -> Hands \cup {NextPop, Idle}]
      /\ log \in [Pushes -> Seq(Notes)]
  BY DEF QueueInv, TypesFit
<1>2. rest # {} /\ rest \in SUBSET Nat
  BY DEF Push, Pushed, QueueAssumption
<1>3. new \in rest
  <2> HIDE DEF rest
  <2>1. \E x \in rest : \A y \in rest : x <= y
    BY <1>2, FirstOne
  <2> QED
    BY <2>1
<1>4. /\ queue' = Append(queue, entry) /\ data' = data
      /\ log' = [log EXCEPT ![new] = Append(@, note)]
  BY DEF Push, Noted
<1>5. new \in Pushes /\ log[new] = <<>>
  BY <1>3 DEF Pushed
<1> HIDE DEF new
<1>6. entry \in Entries /\ entry.id = new /\ entry.wait = wait /\ entry.buffers = n
  BY <1>5 DEF Entries
<1>7. note \in Notes
  BY DEF Notes
<1> HIDE DEF note, entry
<1>8. /\ queue' \in Seq(Entries) /\ Len(queue') = Len(queue) + 1
      /\ \A i \in 1 .. Len(queue) : queue'[i] = queue[i]
      /\ queue'[Len(queue) + 1] = entry
  BY <1>1, <1>4, <1>6, AppendProperties
<1>9. /\ Len(queue) \in Nat /\ DOMAIN queue = 1 .. Len(queue)
      /\ DOMAIN queue' = 1 .. Len(queue) + 1
  BY <1>1, <1>8, LenProperties
<1>10. /\ log' \in [Pushes -> Seq(Notes)] /\ log'[new] = <<note>>
       /\ \A e \in Pushes \ {new} : log'[e] = log[e]
  <2>1. Append(log[new], note) = <<note>> /\ Append(log[new], note) \in Seq(Notes)
    BY <1>5, <1>7
  <2> QED
    BY <1>1, <1>4, <1>5, <2>1
<1>11. ~ Queued(new) /\ ~ InHands(new)
  BY <1>5, SeenOf DEF QueueInv
<1>12. Pushed' = Pushed \cup {new}
  <2>1. <<note>> # <<>>
    OBVIOUS
  <2> QED
    BY <1>5, <1>10, <2>1 DEF Pushed
<1>13. \A i \in DOMAIN queue : queue'[i] = queue[i] /\ queue[i].id \in Pushes \ {new}
  <2> SUFFICES ASSUME NEW i \in DOMAIN queue
               PROVE  queue'[i] = queue[i] /\ queue[i].id \in Pushes \ {new}
    OBVIOUS
  <2>1. queue[i] \in Entries
    BY <1>1, <1>9, ElementOfSeq
  <2> QED
    BY <1>8, <1>9, <1>11, <2>1 DEF Queued, Entries
<1>14. \A i \in DOMAIN queue' :
         \/ i \in DOMAIN queue
         \/ i = Len(queue) + 1 /\ queue'[i] = entry /\ i \notin DOMAIN queue
  BY <1>8, <1>9
<1>15. \A u \in Threads : (Held(u)' <=> Held(u)) /\ data'[u] = data[u]
  BY <1>4 DEF Held
<1>16. \A u \in Threads : Held(u) => data[u].entry.id \in Pushes \ {new}
  <2> SUFFICES ASSUME NEW u \in Threads, Held(u) PROVE data[u].entry.id \in Pushes \ {new}
    OBVIOUS
  <2>1. data[u].entry.id \in Pushes
    BY DEF Held, Hands, Entries
  <2> QED
    BY <1>11, <2>1 DEF InHands
<1>17. TypesFit'
  BY <1>1, <1>4, <1>8, <1>10 DEF TypesFit
<1>18. QueuedFollow'
  <2> SUFFICES ASSUME NEW i \in DOMAIN queue' PROVE Follows(log'[queue'[i].id], queue'[i], 1)
    BY DEF QueuedFollow
  <2>1. CASE i \in DOMAIN queue
    <3>1. Follows(log[queue[i].id], queue[i], 1)
      BY <2>1 DEF QueueInv, QueuedFollow
    <3> QED
      BY <1>10, <1>13, <2>1, <3>1
  <2>2. CASE i \notin DOMAIN queue
    <3>1. queue'[i] = entry
      BY <1>14, <2>2
    <3>2. log'[entry.id] = <<note>>
      BY <1>6, <1>10
    <3>3. Whole(entry.wait, entry.buffers)[1] = note /\ Size(entry) \in Nat \ {0}
      BY <1>6, WholeFacts DEF note
    <3>4. Len(<<note>>) = 1 /\ <<note>>[1] = note
      OBVIOUS
    <3>5. Follows(<<note>>, entry, 1)
      BY <3>3, <3>4 DEF Follows
    <3> QED
      BY <3>1, <3>2, <3>5
  <2> QED
    BY <2>1, <2>2
<1>19. HeldFollow'
  <2> SUFFICES ASSUME NEW u \in Threads, Held(u)'
               PROVE  /\ data'[u].pc # "wait" => data'[u].i <= data'[u].entry.buffers
                      /\ Follows(log'[data'[u].entry.id], data'[u].entry, Reached(data'[u]))
    BY DEF HeldFollow
  <2>1. Held(u) /\ data'[u] = data[u] /\ data[u].entry.id \in Pushes \ {new}
    BY <1>15, <1>16
  <2> QED
    BY <1>10, <2>1 DEF QueueInv, HeldFollow
<1>20. OneHolder'
  <2>1. ASSUME NEW i \in DOMAIN queue', NEW j \in DOMAIN queue', queue'[i].id = queue'[j].id
        PROVE  i = j
    BY <1>6, <1>13, <1>14, <2>1 DEF QueueInv, OneHolder
  <2>2. \A u, v \in Threads :
          Held(u)' /\ Held(v)' /\ data'[u].entry.id = data'[v].entry.id => u = v
    BY <1>15 DEF QueueInv, OneHolder
  <2>3. ASSUME NEW u \in Threads, Held(u)', NEW i \in DOMAIN queue'
        PROVE  data'[u].entry.id # queue'[i].id
    <3>1. CASE i \in DOMAIN queue
      BY <1>13, <1>15, <2>3, <3>1 DEF QueueInv, OneHolder
    <3>2. CASE i \notin DOMAIN queue
      BY <1>6, <1>14, <1>15, <1>16, <2>3, <3>2
    <3> QED
      BY <3>1, <3>2
  <2> QED
    BY <2>1, <2>2, <2>3 DEF OneHolder
<1>21. Accounted'
  <2> SUFFICES ASSUME NEW e \in Pushed' PROVE Queued(e)' \/ InHands(e)' \/ DoneWith(e)'
    BY DEF Accounted
  <2>1. CASE e = new
    <3>1. Len(queue) + 1 \in DOMAIN queue' /\ queue'[Len(queue) + 1].id = new
      BY <1>6, <1>8, <1>9
    <3> QED
      BY <2>1, <3>1 DEF Queued
  <2>2. CASE e # new
    <3>1. e \in Pushed /\ e \in Pushes \ {new}
      BY <1>12, <2>2 DEF Pushed
    <3>2. CASE Queued(e)
      <4>1. DOMAIN queue \subseteq DOMAIN queue'
        BY <1>9
      <4> QED
        BY <1>13, <3>2, <4>1 DEF Queued
    <3>3. CASE InHands(e)
      BY <1>15, <3>3 DEF InHands
    <3>4. CASE DoneWith(e)
      BY <1>10, <3>1, <3>4 DEF DoneWith
    <3> QED
      BY <3>1, <3>2, <3>3, <3>4 DEF QueueInv, Accounted
  <2> QED
    BY <2>1, <2>2
<1> QED
  BY <1>17, <1>18, <1>19, <1>20, <1>21 DEF QueueInv

(* Where flush() goes on from, when all before buffer i has been seen.     *)
LEMMA FromFacts ==
  ASSUME QueueAssumption, NEW entry \in Entries, NEW seen, NEW i \in Nat \ {0},
         i <= entry.buffers + 1, Follows(seen, entry, Before(entry) + 2 * (i - 1))
  PROVE  LET d == From(entry, i)
         IN  /\ d \in Hands \cup {NextPop, Idle}
             /\ d \in Hands => /\ d.entry = entry
                               /\ d.pc # "wait" => d.i <= d.entry.buffers
                               /\ Follows(seen, d.entry, Reached(d))
             /\ d \notin Hands => Follows(seen, entry, Size(entry))
<1>1. entry.buffers \in Nat /\ Before(entry) \in {1, 2}
  BY WholeFacts
<1>2. CASE i > entry.buffers
  <2>1. i = entry.buffers + 1
    BY <1>1, <1>2
  <2>2. Before(entry) + 2 * (i - 1) = Size(entry)
    BY <1>1, <2>1 DEF Size
  <2>3. From(entry, i) = NextPop
    BY <1>2 DEF From
  <2>4. NextPop \notin Hands
    BY PlaceFacts
  <2> QED
    BY <2>2, <2>3, <2>4
<1>3. CASE ~ (i > entry.buffers)
  <2> DEFINE d == At(entry, "free", i)
  <2>1. From(entry, i) = d
    BY <1>3 DEF From
  <2>2. d \in Hands /\ d.entry = entry /\ d.pc = "free" /\ d.i = i
    BY PlaceFacts
  <2> HIDE DEF d
  <2>3. Reached(d) = Before(entry) + 2 * (i - 1)
    BY <1>1, <2>2 DEF Reached
  <2>4. i <= entry.buffers
    BY <1>1, <1>3
  <2> QED
    BY <2>1, <2>2, <2>3, <2>4
<1> QED
  BY <1>2, <1>3

(* Where a flush() is, of which the invariant holds.                       *)
LEMMA HeldFacts ==
  ASSUME QueueAssumption, QueueInv, NEW t \in Threads, InFlush(t),
         data[t].pc \in {"wait", "free", "reset"}
  PROVE  /\ Held(t) /\ data[t] = At(data[t].entry, data[t].pc, data[t].i)
         /\ data[t].entry \in Entries /\ data[t].entry.id \in Pushes
         /\ data[t].i \in Nat \ {0} /\ data[t].entry.wait \in BOOLEAN
         /\ log[data[t].entry.id] \in Seq(Notes) /\ log[data[t].entry.id] # <<>>
         /\ data[t].pc # "wait" => data[t].i <= data[t].entry.buffers
         /\ Follows(log[data[t].entry.id], data[t].entry, Reached(data[t]))
<1>1. data[t] \in Hands \cup {NextPop, Idle} /\ log \in [Pushes -> Seq(Notes)]
  BY DEF QueueInv, TypesFit
<1>2. data[t] # Idle /\ data[t] # NextPop
  BY DEF InFlush, NextPop, At
<1>3. Held(t)
  BY <1>1, <1>2 DEF Held
<1>4. /\ data[t] = At(data[t].entry, data[t].pc, data[t].i)
      /\ data[t].entry \in Entries /\ data[t].i \in Nat \ {0}
  BY <1>3 DEF Held, Hands, At
<1>5. data[t].entry.id \in Pushes /\ data[t].entry.wait \in BOOLEAN
  BY <1>4 DEF Entries
<1>6. InHands(data[t].entry.id)
  BY <1>3 DEF InHands
<1>7. log[data[t].entry.id] # <<>>
  BY <1>5, <1>6, SeenOf DEF QueueInv
<1> QED
  BY <1>1, <1>3, <1>4, <1>5, <1>7 DEF QueueInv, HeldFollow

(* on_wait is called, if there is one, and the first buffer is up.         *)
LEMMA OnWaitKeeps ==
  ASSUME QueueAssumption, QueueInv, NEW t \in Threads, OnWait(t)
  PROVE  QueueInv'
<1> DEFINE entry == data[t].entry
           own == entry.id
           d == From(entry, 1)
           seen == IF entry.wait THEN Append(log[own], <<"waited">>) ELSE log[own]
<1>1. InFlush(t) /\ data[t].pc = "wait"
  BY DEF OnWait
<1>2. /\ Held(t) /\ entry \in Entries /\ own \in Pushes /\ entry.wait \in BOOLEAN
      /\ log[own] \in Seq(Notes) /\ log[own] # <<>>
      /\ Follows(log[own], entry, 1)
  BY <1>1, HeldFacts DEF Reached
<1>3. /\ queue' = queue /\ data' = [data EXCEPT ![t] = d]
      /\ IF entry.wait THEN log' = [log EXCEPT ![own] = Append(@, <<"waited">>)]
                       ELSE log' = log
  BY DEF OnWait, Noted
<1>4. log \in [Pushes -> Seq(Notes)]
  BY DEF QueueInv, TypesFit
<1>5. /\ Whole(entry.wait, entry.buffers)[2] = <<"waited">> \/ ~ entry.wait
      /\ entry.buffers \in Nat /\ Size(entry) \in Nat
  BY <1>2, WholeFacts
<1> HIDE DEF d, entry, own
<1>6. log' = [log EXCEPT ![own] = seen]
  <2>1. CASE entry.wait
    BY <1>3, <2>1
  <2>2. CASE ~ entry.wait
    BY <1>2, <1>3, <1>4, <2>2
  <2> QED
    BY <2>1, <2>2
<1>7. seen \in Seq(Notes) /\ seen # <<>> /\ Follows(seen, entry, Before(entry))
  <2>1. CASE entry.wait
    <3>1. Before(entry) = 2 /\ 1 + 1 \in 1 .. Size(entry)
      BY <1>5, <2>1 DEF Before, Size
    <3>2. <<"waited">> \in Notes
      BY DEF Notes
    <3>3. Whole(entry.wait, entry.buffers)[1 + 1] = <<"waited">>
      <4>1. Whole(entry.wait, entry.buffers)[2] = <<"waited">>
        BY <1>5, <2>1, Zenon
      <4>2. 1 + 1 = 2
        OBVIOUS
      <4> QED
        BY <4>1, <4>2, Zenon
    <3>4. seen = Append(log[own], <<"waited">>)
      BY <2>1
    <3> HIDE DEF seen
    <3>5. seen \in Seq(Notes) /\ Follows(seen, entry, 1 + 1)
      BY <1>2, <3>1, <3>2, <3>3, <3>4, FollowsOn
    <3>6. seen # <<>>
      BY <1>2, <3>2, <3>4, AppendProperties
    <3> QED
      BY <3>1, <3>5, <3>6
  <2>2. CASE ~ entry.wait
    BY <1>2, <2>2 DEF Before
  <2> QED
    BY <2>1, <2>2
<1> HIDE DEF seen
<1>8. Follows(seen, entry, Before(entry) + 2 * (1 - 1)) /\ 1 <= entry.buffers + 1
  <2>1. Before(entry) \in {1, 2}
    BY <1>2, WholeFacts
  <2>2. Before(entry) + 2 * (1 - 1) = Before(entry)
    BY <2>1
  <2> QED
    BY <1>5, <1>7, <2>2
<1>9. /\ d \in Hands \cup {NextPop, Idle}
      /\ d \in Hands => /\ d.entry = entry
                        /\ d.pc # "wait" => d.i <= d.entry.buffers
                        /\ Follows(seen, d.entry, Reached(d))
      /\ d \notin Hands => Follows(seen, entry, Size(entry))
  <2>1. 1 \in Nat \ {0}
    OBVIOUS
  <2> QED
    BY <1>2, <1>8, <2>1, FromFacts DEF d
<1> QED
  BY <1>2, <1>3, <1>6, <1>7, <1>9, WorkKeeps DEF entry, own

(* on_free is called for the buffer that is up.                            *)
LEMMA OnFreeKeeps ==
  ASSUME QueueAssumption, QueueInv, NEW t \in Threads, OnFree(t)
  PROVE  QueueInv'
<1> DEFINE entry == data[t].entry
           own == entry.id
           i == data[t].i
           d == At(entry, "reset", i)
           note == <<"on_free", i>>
           seen == Append(log[own], note)
           k == Before(entry) + 2 * (i - 1)
<1>1. InFlush(t) /\ data[t].pc = "free"
  BY DEF OnFree
<1>2. /\ Held(t) /\ data[t] = At(entry, data[t].pc, i)
      /\ entry \in Entries /\ own \in Pushes /\ i \in Nat \ {0} /\ i <= entry.buffers
      /\ log[own] \in Seq(Notes)
      /\ Follows(log[own], entry, Reached(data[t]))
  BY <1>1, HeldFacts
<1>3. /\ entry.buffers \in Nat /\ Before(entry) \in {1, 2}
      /\ Whole(entry.wait, entry.buffers)[k + 1] = note
  <2>1. /\ entry.buffers \in Nat /\ Before(entry) \in {1, 2}
        /\ \A j \in 1 .. entry.buffers :
             Whole(entry.wait, entry.buffers)[Before(entry) + 2 * (j - 1) + 1] = <<"on_free", j>>
    BY <1>2, WholeFacts
  <2>2. i \in 1 .. entry.buffers
    BY <1>2, <2>1
  <2> QED
    BY <2>1, <2>2, Zenon
<1>4. Reached(data[t]) = k
  BY <1>1, <1>2, <1>3 DEF Reached
<1>5. k + 1 \in 1 .. Size(entry)
  BY <1>2, <1>3, SMTT(30) DEF Size
<1>6. queue' = queue /\ log' = [log EXCEPT ![own] = seen]
  BY DEF OnFree, Noted
<1>7. data' = [data EXCEPT ![t] = d]
  <2>1. data' = [data EXCEPT ![t].pc = "reset"]
    BY DEF OnFree
  <2>2. [data[t] EXCEPT !.pc = "reset"] = d
    BY <1>2 DEF At
  <2> QED
    BY <2>1, <2>2
<1>8. d \in Hands /\ d.entry = entry /\ d.pc = "reset" /\ d.i = i
  BY <1>2, PlaceFacts
<1>9. note \in Notes
  BY <1>2 DEF Notes
<1> HIDE DEF d, entry, own, note, i
<1>10. Reached(d) = k + 1
  BY <1>2, <1>3, <1>8 DEF Reached
<1> HIDE DEF k
<1>11. Follows(log[own], entry, k)
  BY <1>2, <1>4
<1>12. seen \in Seq(Notes) /\ Follows(seen, entry, k + 1)
  BY <1>2, <1>3, <1>5, <1>9, <1>11, FollowsOn
<1>13. seen # <<>>
  BY <1>2, <1>9, AppendProperties
<1> HIDE DEF seen
<1>14. d.i <= d.entry.buffers /\ Follows(seen, d.entry, Reached(d))
  BY <1>2, <1>8, <1>10, <1>12
<1> QED
  BY <1>2, <1>6, <1>7, <1>8, <1>12, <1>13, <1>14, WorkKeeps DEF entry, own

(* The buffer is reset, and the next one is up.                            *)
LEMMA ResetBufferKeeps ==
  ASSUME QueueAssumption, QueueInv, NEW t \in Threads, ResetBuffer(t)
  PROVE  QueueInv'
<1> DEFINE entry == data[t].entry
           own == entry.id
           i == data[t].i
           d == From(entry, i + 1)
           note == <<"reset", i>>
           seen == Append(log[own], note)
           k == Before(entry) + 2 * (i - 1) + 1
<1>1. InFlush(t) /\ data[t].pc = "reset"
  BY DEF ResetBuffer
<1>2. /\ Held(t)
      /\ entry \in Entries /\ own \in Pushes /\ i \in Nat \ {0} /\ i <= entry.buffers
      /\ log[own] \in Seq(Notes)
      /\ Follows(log[own], entry, Reached(data[t]))
  BY <1>1, HeldFacts
<1>3. entry.buffers \in Nat /\ Before(entry) \in {1, 2}
  BY <1>2, WholeFacts
<1>4. Reached(data[t]) = k
  BY <1>1, <1>2, <1>3 DEF Reached
<1>5. k + 1 \in 1 .. Size(entry)
  <2>1. i \in Nat \ {0} /\ i <= entry.buffers
    BY <1>2
  <2> QED
    BY <1>3, <2>1 DEF Size
<1>6. queue' = queue /\ log' = [log EXCEPT ![own] = seen] /\ data' = [data EXCEPT ![t] = d]
  BY DEF ResetBuffer, Noted
<1>7. note \in Notes
  BY <1>2 DEF Notes
<1>8. /\ k + 1 = Before(entry) + 2 * (i - 1) + 2
      /\ k + 1 = Before(entry) + 2 * ((i + 1) - 1)
      /\ i + 1 \in Nat \ {0} /\ i + 1 <= entry.buffers + 1
  <2>1. i \in Nat \ {0} /\ i <= entry.buffers
    BY <1>2
  <2> QED
    BY <1>3, <2>1
<1> HIDE DEF d, entry, own, note, i, k
<1>9. Whole(entry.wait, entry.buffers)[k + 1] = note
  <2>1. \A j \in 1 .. entry.buffers :
          Whole(entry.wait, entry.buffers)[Before(entry) + 2 * (j - 1) + 2] = <<"reset", j>>
    BY <1>2, WholeFacts
  <2>2. i \in 1 .. entry.buffers
    BY <1>2, <1>3
  <2> QED
    BY <1>8, <2>1, <2>2, Zenon DEF note
<1>10. Follows(log[own], entry, k)
  BY <1>2, <1>4
<1>11. seen \in Seq(Notes) /\ Follows(seen, entry, k + 1)
  BY <1>2, <1>5, <1>7, <1>9, <1>10, FollowsOn
<1>12. seen # <<>>
  BY <1>2, <1>7, AppendProperties
<1> HIDE DEF seen
<1>13. Follows(seen, entry, Before(entry) + 2 * ((i + 1) - 1))
  BY <1>8, <1>11
<1>14. /\ d \in Hands \cup {NextPop, Idle}
       /\ d \in Hands => /\ d.entry = entry
                         /\ d.pc # "wait" => d.i <= d.entry.buffers
                         /\ Follows(seen, d.entry, Reached(d))
       /\ d \notin Hands => Follows(seen, entry, Size(entry))
  BY <1>2, <1>8, <1>13, FromFacts DEF d
<1> QED
  BY <1>2, <1>6, <1>11, <1>12, <1>14, WorkKeeps DEF entry, own

(* An exception drops the rest of the entry in hand.                       *)
LEMMA ThrowKeeps ==
  ASSUME QueueAssumption, QueueInv, NEW t \in Threads, Throw(t)
  PROVE  QueueInv'
<1> DEFINE entry == data[t].entry
           own == entry.id
           note == <<"dropped", data[t].i>>
           seen == Append(log[own], note)
<1>1. InFlush(t) /\ data[t].pc \in {"wait", "free", "reset"}
  BY DEF Throw
<1>2. /\ Held(t) /\ entry \in Entries /\ own \in Pushes /\ data[t].i \in Nat
      /\ log[own] \in Seq(Notes)
      /\ Follows(log[own], entry, Reached(data[t]))
  BY <1>1, HeldFacts
<1>3. queue' = queue /\ log' = [log EXCEPT ![own] = seen] /\ data' = [data EXCEPT ![t] = Idle]
  BY DEF Throw, Noted, Returned
<1>4. note \in Notes
  BY <1>2 DEF Notes
<1>5. seen \in Seq(Notes) /\ Dropped(seen, entry)
  BY <1>2, DroppedOn
<1> HIDE DEF note
<1>6. seen # <<>>
  BY <1>2, <1>4, AppendProperties
<1>7. Idle \notin Hands
  BY DEF QueueAssumption
<1> HIDE DEF seen
<1> QED
  BY <1>2, <1>3, <1>5, <1>6, <1>7, WorkKeeps

-----------------------------------------------------------------------------
(* The invariant.                                                          *)

(* QueueInv holds at first, and every step of a client or of flush() keeps  *)
(* it.                                                                     *)
LEMMA QueueInvInit == ASSUME QueueAssumption, QueueInit PROVE QueueInv
<1>1. /\ queue = <<>> /\ DOMAIN queue = {}
      /\ \A t \in Threads : data[t] = Idle
      /\ \A e \in Pushes : log[e] = <<>>
  BY DEF QueueInit
<1>2. \A t \in Threads : ~ Held(t)
  BY <1>1 DEF Held, QueueAssumption
<1>3. Pushed = {}
  BY <1>1 DEF Pushed
<1>4. TypesFit
  BY EmptySeq DEF QueueInit, TypesFit
<1> QED
  BY <1>1, <1>2, <1>3, <1>4 DEF QueueInv, QueuedFollow, HeldFollow, OneHolder, Accounted

(* Every step of the queue keeps the invariant.                            *)
LEMMA QueueInvStep == ASSUME QueueAssumption, QueueInv, [QueueStep]_queue_vars PROVE QueueInv'
<1>1. CASE UNCHANGED queue_vars
  BY <1>1 DEF queue_vars, QueueInv, TypesFit, QueuedFollow, HeldFollow, OneHolder, Accounted,
              Pushed, Held, Queued, InHands, DoneWith
<1>2. ASSUME NEW wait \in BOOLEAN, NEW n \in Buffers, Push(wait, n) PROVE QueueInv'
  BY <1>2, PushKeeps
<1>3. ASSUME NEW t \in Threads,
             \/ Flush(t) \/ Pop(t) \/ FindEmpty(t)
             \/ OnWait(t) \/ OnFree(t) \/ ResetBuffer(t) \/ Throw(t)
      PROVE  QueueInv'
  <2>1. CASE Flush(t)
    <3>1. ~ Held(t)
      BY <2>1 DEF Flush, InFlush, Held, QueueAssumption
    <3>2. data' = [data EXCEPT ![t] = NextPop] /\ UNCHANGED <<queue, log>>
      BY <2>1 DEF Flush
    <3>3. NextPop \in {NextPop, Idle}
      OBVIOUS
    <3> QED
      BY <3>1, <3>2, <3>3, BetweenEntriesKeeps
  <2>2. CASE Pop(t)
    BY <2>2, PopKeeps
  <2>3. CASE FindEmpty(t)
    <3>1. ~ Held(t)
      BY <2>3 DEF FindEmpty, Held, Hands
    <3>2. data' = [data EXCEPT ![t] = Idle] /\ UNCHANGED <<queue, log>>
      BY <2>3 DEF FindEmpty, Returned
    <3>3. Idle \in {NextPop, Idle}
      OBVIOUS
    <3> QED
      BY <3>1, <3>2, <3>3, BetweenEntriesKeeps
  <2>4. CASE OnWait(t)
    BY <2>4, OnWaitKeeps
  <2>5. CASE OnFree(t)
    BY <2>5, OnFreeKeeps
  <2>6. CASE ResetBuffer(t)
    BY <2>6, ResetBufferKeeps
  <2>7. CASE Throw(t)
    BY <2>7, ThrowKeeps
  <2> QED
    BY <1>3, <2>1, <2>2, <2>3, <2>4, <2>5, <2>6, <2>7
<1> QED
  BY <1>1, <1>2, <1>3 DEF QueueStep

(* QueueInv holds in every state: an entry is in the queue, in the hands   *)
(* of one flush(), or done with, and what has been seen of it is that much *)
(* of all there is.                                                        *)
THEOREM QueueInvariance == ASSUME QueueAssumption PROVE QueueSpec => []QueueInv
<1>1. QueueInit => QueueInv
  BY QueueInvInit
<1>2. QueueInv /\ [QueueStep]_queue_vars => QueueInv'
  BY QueueInvStep
<1> QED
  BY <1>1, <1>2, PTL DEF QueueSpec

-----------------------------------------------------------------------------
(* What the invariant says of an entry.                                    *)

(* What has been seen is how all there is begins.                          *)
LEMMA FollowsIsPrefix ==
  ASSUME QueueAssumption, NEW entry \in Entries, NEW seen \in Seq(Notes), NEW k,
         Follows(seen, entry, k)
  PROVE  /\ Last(seen)[1] # "dropped"
         /\ IsPrefix(seen, Whole(seen[1][2], seen[1][3]))
         /\ k = Size(entry) => seen = Whole(seen[1][2], seen[1][3])
<1> DEFINE whole == Whole(entry.wait, entry.buffers)
<1>1. /\ whole \in Seq(Notes) /\ Len(whole) = Size(entry)
      /\ Size(entry) \in Nat \ {0}
      /\ whole[1] = <<"pushed", entry.wait, entry.buffers>>
      /\ \A j \in 1 .. Size(entry) : whole[j][1] # "dropped"
  BY WholeFacts
<1>2. /\ k \in 1 .. Size(entry) /\ Len(seen) = k
      /\ \A j \in 1 .. k : seen[j] = whole[j]
  BY DEF Follows
<1>3. k \in Nat /\ 1 <= k /\ k <= Size(entry) /\ 1 \in 1 .. k /\ k \in 1 .. k
  BY <1>1, <1>2
<1>4. Whole(seen[1][2], seen[1][3]) = whole
  <2>1. seen[1] = <<"pushed", entry.wait, entry.buffers>>
    BY <1>1, <1>2, <1>3
  <2>2. seen[1][2] = entry.wait /\ seen[1][3] = entry.buffers
    BY <2>1
  <2> QED
    BY <2>2, Zenon
<1> HIDE DEF whole
<1>5. Last(seen)[1] # "dropped"
  BY <1>1, <1>2, <1>3 DEF Last
<1>6. SubSeq(seen, 1, k) = seen
  BY <1>2, SubSeqFull
<1>7. SubSeq(whole, 1, k) = seen
  <2>1. \A j \in 1 .. k : whole[j] \in Notes
    BY <1>1, <1>2, <1>3, ElementOfSeq
  <2>2. /\ SubSeq(whole, 1, k) \in Seq(Notes)
        /\ Len(SubSeq(whole, 1, k)) = IF 1 <= k THEN k - 1 + 1 ELSE 0
        /\ \A j \in 1 .. k - 1 + 1 : SubSeq(whole, 1, k)[j] = whole[1 + j - 1]
    <3>1. 1 \in Int /\ k \in Int
      BY <1>3
    <3> QED
      BY <2>1, <3>1, SubSeqProperties
  <2>3. Len(SubSeq(whole, 1, k)) = Len(seen)
    BY <1>2, <1>3, <2>2
  <2>4. \A j \in 1 .. Len(SubSeq(whole, 1, k)) : SubSeq(whole, 1, k)[j] = seen[j]
    <3> SUFFICES ASSUME NEW j \in 1 .. k PROVE SubSeq(whole, 1, k)[j] = seen[j]
      BY <1>2, <2>3
    <3>1. 1 + j - 1 = j /\ k - 1 + 1 = k
      BY <1>3
    <3> QED
      BY <1>2, <2>2, <3>1
  <2> QED
    BY <2>2, <2>3, <2>4, SeqEqual
<1>8. k = Size(entry) => seen = whole
  BY <1>1, <1>7, SubSeqFull
<1>9. IsPrefix(seen, whole)
  BY <1>1, <1>2, <1>3, <1>6, <1>7 DEF IsPrefix
<1> QED
  BY <1>4, <1>5, <1>8, <1>9

(* Nothing but what it begins with has been seen before an exception.      *)
LEMMA DroppedIsPrefix ==
  ASSUME QueueAssumption, NEW entry \in Entries, NEW seen \in Seq(Notes), Dropped(seen, entry)
  PROVE  /\ Last(seen)[1] = "dropped"
         /\ IsPrefix(Front(seen), Whole(seen[1][2], seen[1][3]))
<1>1. PICK k \in 1 .. Size(entry) :
        /\ Len(seen) = k + 1
        /\ \A j \in 1 .. k : seen[j] = Whole(entry.wait, entry.buffers)[j]
        /\ seen[k + 1][1] = "dropped"
  BY DEF Dropped
<1>2. Size(entry) \in Nat \ {0}
  BY WholeFacts
<1>3. k \in Nat /\ k \in Int /\ 1 <= k /\ (k + 1) - 1 = k /\ k - 1 + 1 = k
  BY <1>2
<1>4. Last(seen)[1] = "dropped"
  BY <1>1 DEF Last
<1>5. Front(seen) = SubSeq(seen, 1, k)
  BY <1>1, <1>3 DEF Front
<1>6. /\ SubSeq(seen, 1, k) \in Seq(Notes) /\ Len(SubSeq(seen, 1, k)) = k
      /\ \A j \in 1 .. k : SubSeq(seen, 1, k)[j] = seen[j]
  <2>1. \A j \in 1 .. k : seen[j] \in Notes
    BY <1>1, <1>3, ElementOfSeq
  <2>2. /\ SubSeq(seen, 1, k) \in Seq(Notes)
        /\ Len(SubSeq(seen, 1, k)) = IF 1 <= k THEN k - 1 + 1 ELSE 0
        /\ \A j \in 1 .. k - 1 + 1 : SubSeq(seen, 1, k)[j] = seen[1 + j - 1]
    BY <1>3, <2>1, SubSeqProperties
  <2>3. \A j \in 1 .. k : 1 + j - 1 = j
    BY <1>3
  <2> QED
    BY <1>3, <2>2, <2>3
<1>7. Follows(Front(seen), entry, k)
  BY <1>1, <1>5, <1>6 DEF Follows
<1>8. IsPrefix(Front(seen), Whole(Front(seen)[1][2], Front(seen)[1][3]))
  BY <1>5, <1>6, <1>7, FollowsIsPrefix
<1>9. Front(seen)[1] = seen[1]
  <2>1. 1 \in 1 .. k
    BY <1>3
  <2> QED
    BY <1>5, <1>6, <2>1
<1> QED
  BY <1>4, <1>8, <1>9

Holders(e) == {t \in Threads : InFlush(t) /\ data[t].entry.id = e}

Waiting(e) == {i \in DOMAIN queue : queue[i].id = e}

(* It is in at most one place.                                             *)
LEMMA OnePlace ==
  ASSUME QueueAssumption, QueueInv, NEW e \in Pushes
  PROVE  /\ Holders(e) # {} <=> InHands(e)
         /\ Waiting(e) # {} <=> Queued(e)
         /\ Cardinality(Holders(e)) + Cardinality(Waiting(e)) <= 1
         /\ Holders(e) = {} /\ Waiting(e) = {} =>
              Cardinality(Holders(e)) + Cardinality(Waiting(e)) = 0
<1>1. data \in [Threads -> Hands \cup {NextPop, Idle}]
  BY DEF QueueInv, TypesFit
<1>2. NextPop.entry.id # e /\ Idle \notin Hands /\ e # 0
  BY DEF NextPop, At, QueueAssumption
<1>3. Holders(e) = {t \in Threads : Held(t) /\ data[t].entry.id = e}
  BY <1>1, <1>2 DEF Holders, InFlush, Held
<1>4. Holders(e) # {} <=> InHands(e)
  BY <1>3 DEF InHands
<1>5. Waiting(e) # {} <=> Queued(e)
  BY DEF Waiting, Queued
<1>6. \A t, u \in Holders(e) : t = u
  BY <1>3 DEF QueueInv, OneHolder
<1>7. \A i, j \in Waiting(e) : i = j
  BY DEF QueueInv, OneHolder, Waiting
<1>8. Holders(e) = {} \/ Waiting(e) = {}
  BY <1>3 DEF QueueInv, OneHolder, Waiting
<1>9. \A S : (\A x, y \in S : x = y) =>
        /\ Cardinality(S) \in {0, 1}
        /\ S = {} => Cardinality(S) = 0
  <2> SUFFICES ASSUME NEW S, \A x, y \in S : x = y
               PROVE  Cardinality(S) \in {0, 1} /\ (S = {} => Cardinality(S) = 0)
    OBVIOUS
  <2>1. CASE S = {}
    BY <2>1, FS_EmptySet
  <2>2. CASE S # {}
    <3>1. PICK x \in S : TRUE
      BY <2>2
    <3>2. S = {x}
      BY <3>1
    <3>3. Cardinality({x}) = 1
      BY FS_Singleton
    <3> QED
      BY <2>2, <3>2, <3>3
  <2> QED
    BY <2>1, <2>2
<1>10. /\ Cardinality(Holders(e)) \in {0, 1} /\ Cardinality(Waiting(e)) \in {0, 1}
       /\ Holders(e) = {} => Cardinality(Holders(e)) = 0
       /\ Waiting(e) = {} => Cardinality(Waiting(e)) = 0
  BY <1>6, <1>7, <1>9
<1> QED
  BY <1>4, <1>5, <1>8, <1>10

(* What the invariant says of one entry is what is promised of it.         *)
LEMMA QueueInvImplies == ASSUME QueueAssumption, QueueInv PROVE EachFreedOnce
<1> SUFFICES ASSUME NEW e \in Pushed
             PROVE  LET seen == log[e]
                        thrown == Last(seen)[1] = "dropped"
                        called == IF thrown THEN Front(seen) ELSE seen
                        whole == Whole(seen[1][2], seen[1][3])
                    IN  /\ IsPrefix(called, whole)
                        /\ Cardinality(Holders(e)) + Cardinality(Waiting(e))
                             <= IF thrown THEN 0 ELSE 1
                        /\ called # whole =>
                             thrown \/ Holders(e) # {} \/ Waiting(e) # {}
  BY DEF EachFreedOnce, Holders, Waiting
<1> DEFINE seen == log[e]
           whole == Whole(seen[1][2], seen[1][3])
<1>1. e \in Pushes /\ seen \in Seq(Notes)
  BY DEF QueueInv, TypesFit, Pushed
<1>2. /\ Holders(e) # {} <=> InHands(e)
      /\ Waiting(e) # {} <=> Queued(e)
      /\ Cardinality(Holders(e)) + Cardinality(Waiting(e)) <= 1
      /\ Holders(e) = {} /\ Waiting(e) = {} =>
           Cardinality(Holders(e)) + Cardinality(Waiting(e)) = 0
  BY <1>1, OnePlace
<1>3. CASE Queued(e) \/ InHands(e)
  <2>1. PICK entry \in Entries, k \in Nat \ {0} : Follows(seen, entry, k)
    BY <1>1, <1>3, SeenOf DEF QueueInv
  <2>2. Last(seen)[1] # "dropped" /\ IsPrefix(seen, whole)
    BY <1>1, <2>1, FollowsIsPrefix
  <2> QED
    BY <1>2, <1>3, <2>2
<1>4. CASE ~ Queued(e) /\ ~ InHands(e)
  <2>1. Cardinality(Holders(e)) + Cardinality(Waiting(e)) = 0
    BY <1>2, <1>4
  <2>2. PICK entry \in Entries : Follows(seen, entry, Size(entry)) \/ Dropped(seen, entry)
    BY <1>4 DEF QueueInv, Accounted, DoneWith
  <2>3. CASE Follows(seen, entry, Size(entry))
    <3>1. Last(seen)[1] # "dropped" /\ IsPrefix(seen, whole) /\ seen = whole
      BY <1>1, <2>3, FollowsIsPrefix
    <3> QED
      BY <2>1, <3>1
  <2>4. CASE Dropped(seen, entry)
    <3>1. Last(seen)[1] = "dropped" /\ IsPrefix(Front(seen), whole)
      BY <1>1, <2>4, DroppedIsPrefix
    <3> QED
      BY <2>1, <3>1
  <2> QED
    BY <2>2, <2>3, <2>4
<1> QED
  BY <1>3, <1>4

(* EachFreedOnce: with any number of threads in flush(), and pushes and    *)
(* exceptions at any time, on_wait comes before the first on_free of its   *)
(* entry, each buffer is freed once and destroyed after that, an entry is  *)
(* never taken twice, and none is lost but by an exception.                *)
THEOREM EachFreedOnceHolds == ASSUME QueueAssumption PROVE QueueSpec => []EachFreedOnce
<1>1. QueueInv => EachFreedOnce
  BY QueueInvImplies
<1> QED
  BY <1>1, QueueInvariance, PTL
=============================================================================
