----------------------------- MODULE StorageProofs -----------------------------
(***************************************************************************)
(* Theorems about what the library keeps in a row: the elements of Vector, *)
(* the bytes of BinStream and the characters of BasicString, for every set *)
(* of values and characters, any capacities and ranges, any width of a     *)
(* scalar, any items, any size of a string and any texts.                  *)
(*                                                                         *)
(* Vectors: Keeps(v, s) says that the vector v holds the sequence s, each  *)
(* element built and still having its value, that nothing is built behind  *)
(* them, and that no step so far was a fault.  Each call on a vector that  *)
(* keeps a sequence gives one that keeps the sequence it should; that all  *)
(* elements are alive and what the calls return both follow.  What is in   *)
(* the slots halfway through a loop that shifts the elements is in         *)
(* MovedUpSoFar and MovedDownSoFar.                                        *)
(*                                                                         *)
(* Streams: each write puts the bytes of its item behind those of the one  *)
(* before; what was written stands where it was put, as far as the stream  *)
(* goes (StreamInv).  A read that begins where an item stands finds its    *)
(* bytes, so it makes of them what they were made of and ends where the    *)
(* next item stands (ReadItemThere); behind the end of a stream that was   *)
(* cut nothing but text is read, and that is empty (ReadItemBeyond).       *)
(* Number undoes Bytes because what the last n bytes stand for is what is  *)
(* left of the value behind the others (NumberOfBytes).                    *)
(*                                                                         *)
(* Strings: KeepsText(s, t) says that the string s has the text t, which   *)
(* is inside its characters and followed by the terminator.  Each call on  *)
(* a string that keeps a text gives one that keeps the text it should,     *)
(* whether it writes where the text is, in the object or in a new block;   *)
(* that the strings are sound and what the calls return both follow.       *)
(***************************************************************************)
EXTENDS Vector, BinStream, BasicString, SeqsProofs

-----------------------------------------------------------------------------
(* Vectors.                                                                *)

Live == Values \cup {Default}

VectorAssumption ==
  /\ Raw # Gone /\ Raw \notin Live /\ Gone \notin Live
  /\ \A s \in Ranges : s \in Seq(Values)
  /\ Sizes \subseteq Nat /\ MaxSize \in Nat

-----------------------------------------------------------------------------
(* The inductive invariant.                                                *)

Elements == Live \cup {Raw, Gone}

Fields == {"slot", "size", "cap", "objects", "fault"}

(* A block of slots, whatever is in them.                                  *)
Formed(v) ==
  /\ DOMAIN v = Fields
  /\ v.size \in Nat /\ v.cap \in Nat /\ v.objects \in BOOLEAN /\ v.fault \in BOOLEAN
  /\ v.slot \in [0 .. v.cap - 1 -> Elements]

(* A sequence that a vector of objects or of plain elements can hold.      *)
Holdable(objects, s) == s \in Seq(Elements) /\ (objects => \A i \in 1 .. Len(s) : HasValue(s[i]))

Keeps(v, s) ==
  /\ Formed(v) /\ ~ v.fault
  /\ Holdable(v.objects, s) /\ v.size = Len(s) /\ Len(s) <= v.cap
  /\ \A i \in 0 .. Len(s) - 1 : v.slot[i] = s[i + 1]
  /\ v.objects => \A i \in Len(s) .. v.cap - 1 : v.slot[i] = Raw

(* Two vectors of the same elements.                                       *)
VectorsInv ==
  /\ Formed(vec) /\ Formed(vec_other) /\ vec.objects = vec_other.objects
  /\ VectorElementsAlive

-----------------------------------------------------------------------------
(* One slot.                                                               *)

(* w is v with other slots.                                                *)
SameVector(w, v) == Formed(w) /\ w.size = v.size /\ w.cap = v.cap /\ w.objects = v.objects

(* One slot is built in.                                                   *)
LEMMA BuildFacts ==
  ASSUME NEW v, Formed(v), NEW i \in 0 .. v.cap - 1, NEW x \in Elements
  PROVE  LET w == Build(v, i, x) IN
         /\ SameVector(w, v) /\ w.slot = [v.slot EXCEPT ![i] = x]
         /\ w.fault = (v.fault \/ (v.objects /\ HasValue(v.slot[i])))
BY DEF Build, SameVector, Formed, Fields, HasValue

(* One slot is assigned to.                                                *)
LEMMA SetFacts ==
  ASSUME NEW v, Formed(v), NEW i \in 0 .. v.cap - 1, NEW x \in Elements
  PROVE  LET w == Set(v, i, x) IN
         /\ SameVector(w, v) /\ w.slot = [v.slot EXCEPT ![i] = x]
         /\ w.fault = (v.fault \/ (v.objects /\ v.slot[i] = Raw))
BY DEF Set, SameVector, Formed, Fields, HasValue

(* What is in a slot is destroyed.                                         *)
LEMMA DestroyFacts ==
  ASSUME NEW v, Formed(v), NEW i \in 0 .. v.cap - 1
  PROVE  LET w == Destroy(v, i) IN
         /\ SameVector(w, v) /\ w.slot = [v.slot EXCEPT ![i] = Raw]
         /\ w.fault = (v.fault \/ (v.objects /\ v.slot[i] = Raw))
BY DEF Destroy, SameVector, Formed, Fields, Elements

(* A slot is moved from, which plain elements do not notice.               *)
LEMMA MoveOutFacts ==
  ASSUME NEW v, Formed(v), NEW i \in 0 .. v.cap - 1
  PROVE  LET w == MoveOut(v, i) IN
         /\ SameVector(w, v) /\ w.fault = v.fault
         /\ w.slot = IF v.objects THEN [v.slot EXCEPT ![i] = Gone] ELSE v.slot
BY DEF MoveOut, SameVector, Formed, Fields, Elements

-----------------------------------------------------------------------------
(* Many slots.                                                             *)

(* The slots from lo to below hi are destroyed.                            *)
LEMMA DestroyAllFacts ==
  ASSUME NEW v, Formed(v), NEW lo \in Nat, NEW hi \in Nat, hi <= v.cap
  PROVE  LET w == DestroyAll(v, lo, hi) IN
         /\ SameVector(w, v)
         /\ \A i \in 0 .. v.cap - 1 : w.slot[i] = IF lo <= i /\ i < hi THEN Raw ELSE v.slot[i]
         /\ w.fault = (v.fault \/ (v.objects /\ \E i \in lo .. hi - 1 : v.slot[i] = Raw))
<1> DEFINE f == [i \in 0 .. v.cap - 1 |-> IF i \in lo .. hi - 1 THEN Raw ELSE v.slot[i]]
           b == v.fault \/ (v.objects /\ \E i \in lo .. hi - 1 : v.slot[i] = Raw)
<1>1. DestroyAll(v, lo, hi) = [v EXCEPT !.slot = f, !.fault = b]
  BY DEF DestroyAll, Formed, Fields
<1>2. f \in [0 .. v.cap - 1 -> Elements]
  BY DEF Formed, Elements
<1>3. \A i \in 0 .. v.cap - 1 : f[i] = IF lo <= i /\ i < hi THEN Raw ELSE v.slot[i]
  BY DEF Formed
<1>4. b \in BOOLEAN
  OBVIOUS
<1> HIDE DEF f, b
<1>5. LET w == [v EXCEPT !.slot = f, !.fault = b] IN
      SameVector(w, v) /\ w.slot = f /\ w.fault = b
  BY <1>2, <1>4 DEF Formed, Fields, SameVector
<1> QED
  BY <1>1, <1>3, <1>5 DEF b

(* A sequence is built in the slots from at on.                            *)
LEMMA BuildAllFacts ==
  ASSUME NEW v, Formed(v), NEW s \in Seq(Elements), NEW at \in Nat, at + Len(s) <= v.cap
  PROVE  LET w == BuildAll(v, at, s) IN
         /\ SameVector(w, v)
         /\ \A i \in 0 .. v.cap - 1 :
              w.slot[i] = IF at <= i /\ i < at + Len(s) THEN s[(i - at) + 1] ELSE v.slot[i]
         /\ w.fault = (v.fault \/ (v.objects /\ \E i \in at .. at + Len(s) - 1 : HasValue(v.slot[i])))
<1> DEFINE E(i) == IF i \in at .. at + Len(s) - 1 THEN s[i - at + 1] ELSE v.slot[i]
           f == [i \in 0 .. v.cap - 1 |-> E(i)]
           b == v.fault \/ (v.objects /\ \E i \in at .. at + Len(s) - 1 : HasValue(v.slot[i]))
<1>0. Len(s) \in Nat /\ v.cap \in Nat /\ v.slot \in [0 .. v.cap - 1 -> Elements]
  BY LenProperties DEF Formed
<1>1. BuildAll(v, at, s) = [v EXCEPT !.slot = f, !.fault = b]
  BY DEF BuildAll, Formed, Fields
<1>2. ASSUME NEW i \in 0 .. v.cap - 1
      PROVE  E(i) \in Elements /\ E(i) = IF at <= i /\ i < at + Len(s) THEN s[(i - at) + 1] ELSE v.slot[i]
  <2>1. CASE i \in at .. at + Len(s) - 1
    <3>1. /\ i - at + 1 = (i - at) + 1 /\ (i - at) + 1 \in 1 .. Len(s)
          /\ at <= i /\ i < at + Len(s)
      BY <1>0, <2>1
    <3> QED
      BY <2>1, <3>1, ElementOfSeq
  <2>2. CASE i \notin at .. at + Len(s) - 1
    <3>1. ~ (at <= i /\ i < at + Len(s))
      BY <1>0, <2>2
    <3> QED
      BY <1>0, <2>2, <3>1
  <2> QED
    BY <2>1, <2>2
<1> HIDE DEF E
<1>3. f \in [0 .. v.cap - 1 -> Elements]
  BY <1>2
<1>4. \A i \in 0 .. v.cap - 1 : f[i] = E(i)
  OBVIOUS
<1>5. b \in BOOLEAN
  OBVIOUS
<1> HIDE DEF f, b
<1>6. LET w == [v EXCEPT !.slot = f, !.fault = b] IN
      SameVector(w, v) /\ w.slot = f /\ w.fault = b
  BY <1>3, <1>5 DEF Formed, Fields, SameVector
<1> QED
  BY <1>1, <1>2, <1>4, <1>6 DEF b

(* A sequence is assigned to the first slots.                              *)
LEMMA SetAllFacts ==
  ASSUME NEW v, Formed(v), NEW s \in Seq(Elements), Len(s) <= v.cap
  PROVE  LET w == SetAll(v, s) IN
         /\ SameVector(w, v)
         /\ \A i \in 0 .. v.cap - 1 : w.slot[i] = IF i < Len(s) THEN s[i + 1] ELSE v.slot[i]
         /\ w.fault = (v.fault \/ (v.objects /\ \E i \in 0 .. Len(s) - 1 : v.slot[i] = Raw))
<1> DEFINE E(i) == IF i < Len(s) THEN s[i + 1] ELSE v.slot[i]
           f == [i \in 0 .. v.cap - 1 |-> E(i)]
           b == v.fault \/ (v.objects /\ \E i \in 0 .. Len(s) - 1 : v.slot[i] = Raw)
<1>0. Len(s) \in Nat /\ v.cap \in Nat /\ v.slot \in [0 .. v.cap - 1 -> Elements]
  BY LenProperties DEF Formed
<1>1. SetAll(v, s) = [v EXCEPT !.slot = f, !.fault = b]
  BY DEF SetAll, Formed, Fields
<1>2. ASSUME NEW i \in 0 .. v.cap - 1 PROVE E(i) \in Elements
  <2>1. CASE i < Len(s)
    <3>1. i + 1 \in 1 .. Len(s)
      BY <1>0, <2>1
    <3> QED
      BY <2>1, <3>1, ElementOfSeq
  <2> QED
    BY <1>0, <2>1
<1>4. \A i \in 0 .. v.cap - 1 : f[i] = E(i)
  OBVIOUS
<1>5. b \in BOOLEAN
  OBVIOUS
<1> HIDE DEF E
<1>3. f \in [0 .. v.cap - 1 -> Elements]
  BY <1>2
<1> HIDE DEF f, b
<1>6. LET w == [v EXCEPT !.slot = f, !.fault = b] IN
      SameVector(w, v) /\ w.slot = f /\ w.fault = b
  BY <1>3, <1>5 DEF Formed, Fields, SameVector
<1> QED
  BY <1>1, <1>4, <1>6 DEF b, E

(* reallocate(): the elements go to another block.                         *)
LEMMA ReallocatedFacts ==
  ASSUME NEW v, Formed(v), v.size <= v.cap, NEW n \in Nat
  PROVE  LET w == Reallocated(v, n) IN
         /\ Formed(w) /\ w.size = v.size /\ w.cap = n /\ w.objects = v.objects
         /\ \A i \in 0 .. n - 1 : w.slot[i] = IF i < v.size THEN v.slot[i] ELSE Raw
         /\ w.fault = (v.fault \/ (v.objects /\ \E i \in 0 .. v.size - 1 : v.slot[i] = Raw))
<1> DEFINE f == [i \in 0 .. n - 1 |-> IF i < v.size THEN v.slot[i] ELSE Raw]
           b == v.fault \/ (v.objects /\ \E i \in 0 .. v.size - 1 : v.slot[i] = Raw)
<1>1. Reallocated(v, n) = [v EXCEPT !.slot = f, !.cap = n, !.fault = b]
  BY DEF Reallocated, Formed, Fields
<1>2. f \in [0 .. n - 1 -> Elements]
  BY DEF Formed, Elements
<1>3. \A i \in 0 .. n - 1 : f[i] = IF i < v.size THEN v.slot[i] ELSE Raw
  OBVIOUS
<1>4. b \in BOOLEAN
  OBVIOUS
<1> HIDE DEF f, b
<1>5. LET w == [v EXCEPT !.slot = f, !.cap = n, !.fault = b] IN
      Formed(w) /\ w.size = v.size /\ w.cap = n /\ w.objects = v.objects /\ w.slot = f /\ w.fault = b
  BY <1>2, <1>4 DEF Formed, Fields
<1> QED
  BY <1>1, <1>3, <1>5 DEF b

(* Another size: what is in the slots stays.                               *)
LEMMA SizedFacts ==
  ASSUME NEW v, Formed(v), NEW n \in Nat
  PROVE  LET w == [v EXCEPT !.size = n] IN
         /\ Formed(w) /\ w.size = n /\ w.cap = v.cap /\ w.objects = v.objects
         /\ w.slot = v.slot /\ w.fault = v.fault
BY DEF Formed, Fields

-----------------------------------------------------------------------------
(* Vectors and the sequences they keep.                                    *)

(* A vector that keeps a sequence has that content and is alive.           *)
LEMMA KeepsContent ==
  ASSUME NEW v, NEW s, Keeps(v, s)
  PROVE  /\ Content(v) = s /\ Alive(v) /\ Formed(v) /\ s \in Seq(Elements)
         /\ v.size = Len(s) /\ Len(s) \in Nat /\ v.cap \in Nat /\ Len(s) <= v.cap
<1>1. Formed(v) /\ s \in Seq(Elements) /\ v.size = Len(s) /\ Len(s) \in Nat /\ v.cap \in Nat /\ Len(s) <= v.cap
  BY LenProperties DEF Keeps, Holdable, Formed
<1>2. \A i \in 1 .. Len(s) : v.slot[i - 1] = s[i]
  <2> TAKE i \in 1 .. Len(s)
  <2>1. i - 1 \in 0 .. Len(s) - 1 /\ (i - 1) + 1 = i
    BY <1>1
  <2> QED
    BY <2>1 DEF Keeps
<1>3. Content(v) = [i \in 1 .. Len(s) |-> s[i]]
  BY <1>1, <1>2 DEF Content
<1>4. s = [i \in 1 .. Len(s) |-> s[i]]
  BY <1>1
<1>5. ASSUME v.objects, NEW i \in 0 .. v.cap - 1
      PROVE  IF i < v.size THEN HasValue(v.slot[i]) ELSE v.slot[i] = Raw
  <2>1. CASE i < v.size
    <3>1. i \in 0 .. Len(s) - 1 /\ i + 1 \in 1 .. Len(s)
      BY <1>1, <2>1
    <3> QED
      BY <1>5, <2>1, <3>1 DEF Keeps, Holdable
  <2>2. CASE ~ (i < v.size)
    <3>1. i \in Len(s) .. v.cap - 1
      BY <1>1, <2>2
    <3> QED
      BY <1>5, <2>2, <3>1 DEF Keeps
  <2> QED
    BY <2>1, <2>2
<1>6. DOMAIN v.slot = 0 .. v.cap - 1 /\ v.slot \in [0 .. v.cap - 1 -> Values \cup {Default, Raw, Gone}]
  BY <1>1 DEF Formed, Elements, Live
<1>7. Alive(v)
  BY <1>1, <1>5, <1>6 DEF Alive, Keeps
<1> QED
  BY <1>1, <1>3, <1>4, <1>7

(* A vector that is alive keeps its content.                               *)
LEMMA AliveKeeps ==
  ASSUME NEW v, Formed(v), Alive(v)
  PROVE  Keeps(v, Content(v))
<1>1. v.size \in Nat /\ v.cap \in Nat /\ v.size <= v.cap /\ v.slot \in [0 .. v.cap - 1 -> Elements] /\ ~ v.fault
  BY DEF Formed, Alive
<1>2. \A i \in 1 .. v.size : i - 1 \in 0 .. v.cap - 1 /\ i - 1 < v.size
  BY <1>1
<1>3. Content(v) \in [1 .. v.size -> Elements]
  BY <1>1, <1>2 DEF Content
<1>4. Content(v) \in Seq(Elements) /\ Len(Content(v)) = v.size
  BY <1>1, <1>3
<1>5. \A i \in 0 .. v.size - 1 : Content(v)[i + 1] = v.slot[i]
  BY <1>1 DEF Content
<1>6. ASSUME v.objects PROVE \A i \in 1 .. v.size : HasValue(Content(v)[i])
  <2> TAKE i \in 1 .. v.size
  <2>1. Content(v)[i] = v.slot[i - 1] /\ i - 1 \in DOMAIN v.slot /\ i - 1 < v.size
    BY <1>1, <1>2 DEF Content
  <2> QED
    BY <1>6, <2>1 DEF Alive
<1>7. ASSUME v.objects PROVE \A i \in v.size .. v.cap - 1 : v.slot[i] = Raw
  <2> TAKE i \in v.size .. v.cap - 1
  <2>1. i \in DOMAIN v.slot /\ ~ (i < v.size)
    BY <1>1
  <2> QED
    BY <1>7, <2>1 DEF Alive
<1> HIDE DEF Content
<1> QED
  BY <1>1, <1>4, <1>5, <1>6, <1>7 DEF Keeps, Holdable

(* What an element of a vector that keeps a sequence is.                   *)
LEMMA KeptSlots ==
  ASSUME NEW v, NEW s, Keeps(v, s)
  PROVE  /\ \A i \in 0 .. v.size - 1 : v.slot[i] = s[i + 1] /\ v.slot[i] \in Elements
         /\ v.objects => \A i \in 0 .. v.size - 1 : v.slot[i] # Raw /\ HasValue(v.slot[i])
         /\ v.objects => \A i \in v.size .. v.cap - 1 : v.slot[i] = Raw /\ ~ HasValue(v.slot[i])
<1>1. Alive(v) /\ Formed(v) /\ v.size = Len(s) /\ Len(s) \in Nat /\ v.cap \in Nat /\ Len(s) <= v.cap
  BY KeepsContent
<1>2. DOMAIN v.slot = 0 .. v.cap - 1
  BY <1>1 DEF Formed
<1>3. v.objects => \A i \in 0 .. v.cap - 1 : IF i < v.size THEN HasValue(v.slot[i]) ELSE v.slot[i] = Raw
  BY <1>1, <1>2 DEF Alive
<1>4. \A x : HasValue(x) => x # Raw
  BY DEF HasValue
<1>5. ~ HasValue(Raw)
  BY DEF HasValue
<1> HIDE DEF HasValue
<1>6. \A i \in 0 .. v.size - 1 : v.slot[i] = s[i + 1] /\ v.slot[i] \in Elements
  BY <1>1 DEF Keeps, Formed
<1> QED
  BY <1>1, <1>3, <1>4, <1>5, <1>6

(* What has the elements of a sequence in its first slots, and nothing     *)
(* behind them, keeps the sequence.                                        *)
LEMMA KeepsBy ==
  ASSUME NEW v, Formed(v), ~ v.fault, NEW s, Holdable(v.objects, s), v.size = Len(s), Len(s) <= v.cap,
         \A i \in 0 .. Len(s) - 1 : v.slot[i] = s[i + 1],
         v.objects => \A i \in Len(s) .. v.cap - 1 : v.slot[i] = Raw
  PROVE  Keeps(v, s)
BY DEF Keeps

-----------------------------------------------------------------------------
(* Calls that make or empty a block.                                       *)

(* What is empty can be held by anybody.                                   *)
LEMMA EmptyHoldable == \A objects \in BOOLEAN : Holdable(objects, <<>>)
<1>1. <<>> \in Seq(Elements) /\ Len(<<>>) = 0
  BY EmptySeq
<1>2. 1 .. 0 = {}
  OBVIOUS
<1> QED
  BY <1>1, <1>2 DEF Holdable

(* A vector without a block, new or moved from.                            *)
LEMMA NoVectorKeeps ==
  ASSUME NEW objects \in BOOLEAN
  PROVE  Keeps(NoVector(objects), <<>>) /\ NoVector(objects).objects = objects
<1>1. Block(0) \in [0 .. 0 - 1 -> Elements]
  BY DEF Block, Elements
<1>2. Formed(NoVector(objects))
  BY <1>1 DEF NoVector, Formed, Fields
<1>3. /\ ~ NoVector(objects).fault /\ NoVector(objects).size = 0 /\ NoVector(objects).cap = 0
      /\ NoVector(objects).objects = objects
  BY DEF NoVector
<1>4. Holdable(objects, <<>>) /\ Len(<<>>) = 0
  BY EmptyHoldable, EmptySeq
<1>5. (\A i \in 0 .. 0 - 1 : FALSE) /\ \A i \in 0 .. 0 - 1 : FALSE
  OBVIOUS
<1> HIDE DEF NoVector
<1> QED
  BY <1>2, <1>3, <1>4, <1>5 DEF Keeps

(* clear() destroys every element, each of which there is.                 *)
LEMMA ClearKeeps ==
  ASSUME NEW v, NEW s, Keeps(v, s)
  PROVE  Keeps(Clear(v), <<>>) /\ Clear(v).objects = v.objects /\ Clear(v).cap = v.cap
<1> DEFINE w == DestroyAll(v, 0, v.size)
           r == [w EXCEPT !.size = 0]
<1>1. Formed(v) /\ v.size \in Nat /\ v.cap \in Nat /\ v.size <= v.cap /\ v.objects \in BOOLEAN
  BY KeepsContent DEF Formed
<1>2. v.objects => \A i \in 0 .. v.size - 1 : v.slot[i] # Raw
  BY KeptSlots
<1>3. v.objects => \A i \in v.size .. v.cap - 1 : v.slot[i] = Raw
  BY KeptSlots
<1>4. /\ SameVector(w, v)
      /\ \A i \in 0 .. v.cap - 1 : w.slot[i] = IF 0 <= i /\ i < v.size THEN Raw ELSE v.slot[i]
      /\ w.fault = (v.fault \/ (v.objects /\ \E i \in 0 .. v.size - 1 : v.slot[i] = Raw))
  BY <1>1, DestroyAllFacts
<1> HIDE DEF w
<1>5. ~ w.fault /\ Formed(w)
  BY <1>2, <1>4 DEF Keeps, SameVector
<1>6. Formed(r) /\ r.size = 0 /\ r.cap = v.cap /\ r.objects = v.objects /\ r.slot = w.slot /\ ~ r.fault
  BY <1>4, <1>5, SizedFacts DEF SameVector
<1> HIDE DEF r
<1>7. ASSUME v.objects PROVE \A i \in 0 .. v.cap - 1 : w.slot[i] = Raw
  BY <1>1, <1>3, <1>4, <1>7
<1>8. Holdable(v.objects, <<>>) /\ Len(<<>>) = 0
  BY <1>1, EmptyHoldable, EmptySeq
<1>9. Keeps(r, <<>>)
  BY <1>1, <1>6, <1>7, <1>8 DEF Keeps
<1> QED
  BY <1>6, <1>9 DEF Clear, r, w

(* The constructors.                                                       *)
LEMMA ConstructedKeeps ==
  ASSUME NEW objects \in BOOLEAN, NEW s, Holdable(objects, s)
  PROVE  /\ Keeps(Constructed(objects, s), s)
         /\ Constructed(objects, s).objects = objects /\ Constructed(objects, s).cap = Len(s)
<1> DEFINE f == [i \in 0 .. Len(s) - 1 |-> s[i + 1]]
           r == [NoVector(objects) EXCEPT !.slot = f, !.size = Len(s), !.cap = Len(s)]
<1>1. s \in Seq(Elements) /\ Len(s) \in Nat
  BY LenProperties DEF Holdable
<1>2. f \in [0 .. Len(s) - 1 -> Elements] /\ \A i \in 0 .. Len(s) - 1 : f[i] = s[i + 1]
  <2>1. \A i \in 0 .. Len(s) - 1 : i + 1 \in 1 .. Len(s)
    BY <1>1
  <2>2. \A i \in 0 .. Len(s) - 1 : s[i + 1] \in Elements
    BY <1>1, <2>1, ElementOfSeq
  <2> QED
    BY <2>2
<1> HIDE DEF f
<1>3. /\ Formed(r) /\ r.size = Len(s) /\ r.cap = Len(s) /\ r.objects = objects /\ r.slot = f /\ ~ r.fault
  BY <1>1, <1>2 DEF NoVector, Formed, Fields
<1>4. Constructed(objects, s) = r
  BY DEF Constructed, f
<1> HIDE DEF r
<1>5. \A i \in Len(s) .. Len(s) - 1 : FALSE
  BY <1>1
<1>6. Keeps(r, s)
  BY <1>1, <1>2, <1>3, <1>5 DEF Keeps
<1> QED
  BY <1>3, <1>4, <1>6

(* A new block in place of the old one.                                    *)
LEMMA ReplacedKeeps ==
  ASSUME NEW v, NEW t, Keeps(v, t), NEW s, Holdable(v.objects, s)
  PROVE  Keeps(Replaced(v, s), s) /\ Replaced(v, s).objects = v.objects
<1> DEFINE c == Constructed(v.objects, s)
           b == Clear(v).fault
           r == [c EXCEPT !.fault = b]
<1>1. v.objects \in BOOLEAN
  BY KeepsContent DEF Formed
<1>2. Keeps(c, s) /\ c.objects = v.objects
  BY <1>1, ConstructedKeeps
<1>3. b = FALSE
  BY ClearKeeps DEF Keeps, Formed
<1>4. Replaced(v, s) = r
  BY DEF Replaced
<1> HIDE DEF c, b
<1>5. /\ Formed(r) /\ r.size = c.size /\ r.cap = c.cap /\ r.objects = c.objects /\ r.slot = c.slot /\ ~ r.fault
  BY <1>2, <1>3 DEF Keeps, Formed, Fields
<1> HIDE DEF r
<1>6. Keeps(r, s)
  BY <1>2, <1>5 DEF Keeps
<1> QED
  BY <1>2, <1>4, <1>5, <1>6

(* Another block for the same elements.                                    *)
LEMMA ReallocatedKeeps ==
  ASSUME NEW v, NEW s, Keeps(v, s), NEW n \in Nat, n >= v.size
  PROVE  /\ Keeps(Reallocated(v, n), s)
         /\ Reallocated(v, n).cap = n /\ Reallocated(v, n).objects = v.objects
<1> DEFINE w == Reallocated(v, n)
<1>1. Formed(v) /\ v.size = Len(s) /\ Len(s) \in Nat /\ v.cap \in Nat /\ v.size <= v.cap /\ ~ v.fault
  BY KeepsContent DEF Keeps
<1>2. /\ \A i \in 0 .. v.size - 1 : v.slot[i] = s[i + 1]
      /\ v.objects => \A i \in 0 .. v.size - 1 : v.slot[i] # Raw
  BY KeptSlots
<1>3. /\ Formed(w) /\ w.size = v.size /\ w.cap = n /\ w.objects = v.objects
      /\ \A i \in 0 .. n - 1 : w.slot[i] = IF i < v.size THEN v.slot[i] ELSE Raw
      /\ w.fault = (v.fault \/ (v.objects /\ \E i \in 0 .. v.size - 1 : v.slot[i] = Raw))
  BY <1>1, ReallocatedFacts
<1> HIDE DEF w
<1>4. ~ w.fault
  BY <1>1, <1>2, <1>3
<1>5. Holdable(w.objects, s)
  BY <1>3 DEF Keeps
<1>6. \A i \in 0 .. Len(s) - 1 : w.slot[i] = s[i + 1]
  BY <1>1, <1>2, <1>3
<1>7. \A i \in Len(s) .. n - 1 : w.slot[i] = Raw
  BY <1>1, <1>3
<1>8. Keeps(w, s)
  BY <1>1, <1>3, <1>4, <1>5, <1>6, <1>7, KeepsBy
<1> QED
  BY <1>3, <1>8 DEF w

(* reserve().                                                              *)
LEMMA ReserveKeeps ==
  ASSUME NEW v, NEW s, Keeps(v, s), NEW n \in Nat
  PROVE  Keeps(Reserve(v, n), s) /\ Reserve(v, n).cap >= n /\ Reserve(v, n).objects = v.objects
<1>1. v.size = Len(s) /\ Len(s) \in Nat /\ v.cap \in Nat /\ v.size <= v.cap
  BY KeepsContent
<1>2. CASE n <= v.cap
  BY <1>1, <1>2 DEF Reserve
<1>3. CASE ~ (n <= v.cap)
  <2>1. n >= v.size
    BY <1>1, <1>3
  <2>2. /\ Keeps(Reallocated(v, n), s)
        /\ Reallocated(v, n).cap = n /\ Reallocated(v, n).objects = v.objects
    BY <2>1, ReallocatedKeeps
  <2> QED
    BY <1>3, <2>2 DEF Reserve
<1> QED
  BY <1>2, <1>3

(* Room for one more.                                                      *)
LEMMA GrownKeeps ==
  ASSUME NEW v, NEW s, Keeps(v, s)
  PROVE  Keeps(GrownByOne(v), s) /\ GrownByOne(v).cap > Len(s) /\ GrownByOne(v).objects = v.objects
<1>1. v.size = Len(s) /\ Len(s) \in Nat /\ v.cap \in Nat /\ v.size <= v.cap
  BY KeepsContent
<1>2. CASE v.size = v.cap
  <2> DEFINE n == GrowthSize(v.cap, v.cap + 1)
  <2>1. n \in Nat /\ n >= v.cap + 1
    <3>1. v.cap + 1 \in Nat
      BY <1>1
    <3> QED
      BY <1>1, <3>1, GrowthSizeFacts
  <2> HIDE DEF n
  <2>2. n >= v.size /\ n > Len(s)
    BY <1>1, <1>2, <2>1
  <2>3. /\ Keeps(Reallocated(v, n), s)
        /\ Reallocated(v, n).cap = n /\ Reallocated(v, n).objects = v.objects
    BY <2>1, <2>2, ReallocatedKeeps
  <2> QED
    BY <1>2, <2>2, <2>3 DEF GrownByOne, n
<1>3. CASE v.size # v.cap
  BY <1>1, <1>3 DEF GrownByOne
<1> QED
  BY <1>2, <1>3

-----------------------------------------------------------------------------
(* Calls at the end.                                                       *)

(* A sequence and one element more, and a sequence without its last one.   *)
LEMMA AppendFacts ==
  ASSUME NEW s \in Seq(Elements), NEW x \in Elements
  PROVE  /\ Append(s, x) \in Seq(Elements) /\ Len(Append(s, x)) = Len(s) + 1
         /\ \A i \in 1 .. Len(s) : Append(s, x)[i] = s[i]
         /\ Append(s, x)[Len(s) + 1] = x
BY AppendProperties

(* push_back() builds the element behind the others.                       *)
LEMMA PushBackKeeps ==
  ASSUME VectorAssumption, NEW v, NEW s, Keeps(v, s), NEW x \in Live
  PROVE  Keeps(PushBack(v, x), Append(s, x)) /\ PushBack(v, x).objects = v.objects
<1> DEFINE g == GrownByOne(v)
           n == Len(s)
           b == Build(g, n, x)
           r == [b EXCEPT !.size = n + 1]
           t == Append(s, x)
<1>1. v.size = n /\ n \in Nat /\ s \in Seq(Elements)
  BY KeepsContent
<1>2. Keeps(g, s) /\ g.cap > n /\ g.objects = v.objects
  BY GrownKeeps
<1>3. x \in Elements /\ HasValue(x)
  BY DEF VectorAssumption, Elements, HasValue
<1>4. PushBack(v, x) = [Build(g, v.size, x) EXCEPT !.size = @ + 1]
  BY DEF PushBack
<1> HIDE DEF g
<1>5. Formed(g) /\ g.size = n /\ g.cap \in Nat /\ n \in 0 .. g.cap - 1 /\ n \in n .. g.cap - 1 /\ ~ g.fault
  <2>1. Formed(g) /\ g.size = n /\ ~ g.fault /\ g.cap \in Nat
    BY <1>2 DEF Keeps, Formed
  <2> QED
    BY <1>1, <1>2, <2>1
<1>6. /\ \A i \in 0 .. n - 1 : g.slot[i] = s[i + 1]
      /\ g.objects => \A i \in n .. g.cap - 1 : g.slot[i] = Raw /\ ~ HasValue(g.slot[i])
  BY <1>2, <1>5, KeptSlots
<1>7. /\ SameVector(b, g) /\ b.slot = [g.slot EXCEPT ![n] = x]
      /\ b.fault = (g.fault \/ (g.objects /\ HasValue(g.slot[n])))
  BY <1>3, <1>5, BuildFacts
<1> HIDE DEF b
<1>8. ~ b.fault /\ Formed(b) /\ b.size = n /\ b.cap = g.cap /\ b.objects = g.objects
  <2>1. g.objects => ~ HasValue(g.slot[n])
    BY <1>5, <1>6
  <2> HIDE DEF HasValue
  <2> QED
    BY <1>5, <1>7, <2>1 DEF SameVector
<1>9. PushBack(v, x) = r
  BY <1>1, <1>4, <1>8 DEF b, Formed, Fields
<1>10. /\ Formed(r) /\ r.size = n + 1 /\ r.cap = b.cap /\ r.objects = b.objects
       /\ r.slot = b.slot /\ r.fault = b.fault
  <2>1. n + 1 \in Nat
    BY <1>1
  <2> QED
    BY <1>8, <2>1, SizedFacts
<1> HIDE DEF r
<1>11. /\ t \in Seq(Elements) /\ Len(t) = n + 1
       /\ \A i \in 1 .. n : t[i] = s[i]
       /\ t[n + 1] = x
  BY <1>1, <1>3, AppendFacts
<1> HIDE DEF t
<1>12. Holdable(r.objects, t)
  BY <1>1, <1>2, <1>3, <1>8, <1>10, <1>11 DEF Holdable, Keeps
<1>13. g.slot \in [0 .. g.cap - 1 -> Elements]
  BY <1>5 DEF Formed
<1>14. ASSUME NEW i \in 0 .. Len(t) - 1 PROVE r.slot[i] = t[i + 1]
  <2>1. CASE i = n
    BY <1>5, <1>7, <1>10, <1>11, <1>13, <2>1
  <2>2. CASE i # n
    <3>1. i \in 0 .. n - 1 /\ i + 1 \in 1 .. n /\ i \in 0 .. g.cap - 1
      BY <1>1, <1>5, <1>11, <2>2
    <3>2. r.slot[i] = g.slot[i]
      BY <1>5, <1>7, <1>10, <1>13, <2>2, <3>1
    <3> QED
      BY <1>6, <1>11, <3>1, <3>2
  <2> QED
    BY <2>1, <2>2
<1>15. r.objects => \A i \in Len(t) .. r.cap - 1 : r.slot[i] = Raw
  BY <1>1, <1>5, <1>6, <1>7, <1>8, <1>10, <1>11, <1>13
<1>16. Len(t) <= r.cap /\ r.size = Len(t) /\ ~ r.fault
  BY <1>1, <1>2, <1>5, <1>8, <1>10, <1>11
<1>17. Keeps(r, t)
  BY <1>10, <1>12, <1>14, <1>15, <1>16 DEF Keeps
<1> QED
  BY <1>2, <1>8, <1>9, <1>10, <1>17 DEF t

(* pop_back() destroys the last element, if there is one.                  *)
LEMMA PopBackKeeps ==
  ASSUME NEW v, NEW s, Keeps(v, s)
  PROVE  (\E t : Keeps(PopBack(v), t)) /\ PopBack(v).objects = v.objects
<1> DEFINE n == Len(s)
           w == Destroy(v, n - 1)
           r == [w EXCEPT !.size = n - 1]
           t == UpTo(s, n - 1)
<1>1. v.size = n /\ n \in Nat /\ s \in Seq(Elements) /\ Formed(v) /\ v.cap \in Nat /\ n <= v.cap /\ ~ v.fault
  BY KeepsContent DEF Keeps
<1>2. CASE n = 0
  BY <1>1, <1>2 DEF PopBack
<1>3. CASE n # 0
  <2>1. n - 1 \in Nat /\ n - 1 \in 0 .. v.cap - 1 /\ n - 1 \in 0 .. v.size - 1 /\ n - 1 \in 0 .. n
    BY <1>1, <1>3
  <2>2. /\ \A i \in 0 .. v.size - 1 : v.slot[i] = s[i + 1]
        /\ v.objects => \A i \in 0 .. v.size - 1 : v.slot[i] # Raw
        /\ v.objects => \A i \in v.size .. v.cap - 1 : v.slot[i] = Raw
    BY KeptSlots
  <2>3. /\ SameVector(w, v) /\ w.slot = [v.slot EXCEPT ![n - 1] = Raw]
        /\ w.fault = (v.fault \/ (v.objects /\ v.slot[n - 1] = Raw))
    BY <1>1, <2>1, DestroyFacts
  <2>4. PopBack(v) = [w EXCEPT !.size = @ - 1]
    BY <1>1, <1>3 DEF PopBack
  <2> HIDE DEF w
  <2>5. ~ w.fault /\ Formed(w) /\ w.size = n /\ w.cap = v.cap /\ w.objects = v.objects
    BY <1>1, <2>1, <2>2, <2>3 DEF SameVector
  <2>6. PopBack(v) = r
    BY <2>4, <2>5 DEF Formed, Fields
  <2>7. /\ Formed(r) /\ r.size = n - 1 /\ r.cap = w.cap /\ r.objects = w.objects
        /\ r.slot = w.slot /\ r.fault = w.fault
    BY <2>1, <2>5, SizedFacts
  <2> HIDE DEF r
  <2>8. t \in Seq(Elements) /\ Len(t) = n - 1 /\ \A i \in 1 .. n - 1 : t[i] = s[i]
    BY <1>1, <2>1, UpToFacts
  <2> HIDE DEF t
  <2>9. Holdable(r.objects, t)
    BY <1>1, <2>5, <2>7, <2>8 DEF Holdable, Keeps
  <2>10. v.slot \in [0 .. v.cap - 1 -> Elements]
    BY <1>1 DEF Formed
  <2>11. \A i \in 0 .. Len(t) - 1 : r.slot[i] = t[i + 1]
    BY <1>1, <2>1, <2>2, <2>3, <2>7, <2>8, <2>10
  <2>12. r.objects => \A i \in Len(t) .. r.cap - 1 : r.slot[i] = Raw
    BY <1>1, <2>1, <2>2, <2>3, <2>5, <2>7, <2>8, <2>10
  <2>13. Keeps(r, t)
    BY <1>1, <2>1, <2>5, <2>7, <2>8, <2>9, <2>11, <2>12 DEF Keeps
  <2> QED
    BY <2>5, <2>6, <2>7, <2>13
<1> QED
  BY <1>2, <1>3

(* Elements built behind the others.                                       *)
LEMMA BuiltKeeps ==
  ASSUME NEW v, NEW s, Keeps(v, s), NEW q, Holdable(v.objects, q), Len(s) + Len(q) <= v.cap
  PROVE  LET r == [BuildAll(v, Len(s), q) EXCEPT !.size = Len(s) + Len(q)] IN
         Keeps(r, s \o q) /\ r.objects = v.objects
<1> DEFINE n == Len(s)
           m == Len(q)
           w == BuildAll(v, n, q)
           r == [w EXCEPT !.size = n + m]
           t == s \o q
<1>1. v.size = n /\ n \in Nat /\ s \in Seq(Elements) /\ Formed(v) /\ v.cap \in Nat /\ ~ v.fault /\ Holdable(v.objects, s)
  BY KeepsContent DEF Keeps
<1>2. q \in Seq(Elements) /\ m \in Nat
  BY LenProperties DEF Holdable
<1>3. /\ \A i \in 0 .. v.size - 1 : v.slot[i] = s[i + 1]
      /\ v.objects => \A i \in v.size .. v.cap - 1 : v.slot[i] = Raw /\ ~ HasValue(v.slot[i])
  BY KeptSlots
<1>4. /\ t \in Seq(Elements) /\ Len(t) = n + m
      /\ \A k \in 1 .. n + m : t[k] = IF k <= n THEN s[k] ELSE q[k - n]
  BY <1>1, <1>2, ConcatProperties
<1>5. /\ SameVector(w, v)
      /\ \A i \in 0 .. v.cap - 1 : w.slot[i] = IF n <= i /\ i < n + m THEN q[(i - n) + 1] ELSE v.slot[i]
      /\ w.fault = (v.fault \/ (v.objects /\ \E i \in n .. n + m - 1 : HasValue(v.slot[i])))
  BY <1>1, <1>2, BuildAllFacts
<1> HIDE DEF w, t
<1>6. ~ w.fault /\ Formed(w) /\ w.size = n /\ w.cap = v.cap /\ w.objects = v.objects
  <2>1. \A i \in n .. n + m - 1 : i \in v.size .. v.cap - 1
    BY <1>1, <1>2
  <2> HIDE DEF HasValue
  <2> QED
    BY <1>1, <1>3, <1>5, <2>1 DEF SameVector
<1>7. /\ Formed(r) /\ r.size = n + m /\ r.cap = v.cap /\ r.objects = v.objects /\ r.slot = w.slot /\ ~ r.fault
  <2>1. n + m \in Nat
    BY <1>1, <1>2
  <2> QED
    BY <1>6, <2>1, SizedFacts
<1> HIDE DEF r
<1>8. ASSUME v.objects PROVE \A k \in 1 .. n + m : HasValue(t[k])
  <2> TAKE k \in 1 .. n + m
  <2>1. CASE k <= n
    <3>1. k \in 1 .. n
      BY <1>1, <2>1
    <3> QED
      BY <1>1, <1>4, <1>8, <2>1, <3>1 DEF Holdable
  <2>2. CASE ~ (k <= n)
    <3>1. k - n \in 1 .. m
      BY <1>1, <1>2, <2>2
    <3> QED
      BY <1>4, <1>8, <2>2, <3>1 DEF Holdable
  <2> QED
    BY <2>1, <2>2
<1>9. Holdable(r.objects, t)
  BY <1>4, <1>7, <1>8 DEF Holdable
<1>10. ASSUME NEW i \in 0 .. Len(t) - 1 PROVE r.slot[i] = t[i + 1]
  <2>1. i \in 0 .. v.cap - 1 /\ i + 1 \in 1 .. n + m
    BY <1>1, <1>2, <1>4
  <2>2. CASE i < n
    <3>1. i \in 0 .. v.size - 1 /\ i + 1 <= n
      BY <1>1, <2>1, <2>2
    <3> QED
      BY <1>1, <1>3, <1>4, <1>5, <1>7, <2>1, <2>2, <3>1
  <2>3. CASE ~ (i < n)
    <3>1. n <= i /\ i < n + m /\ ~ (i + 1 <= n) /\ (i + 1) - n = (i - n) + 1
      BY <1>1, <1>2, <2>1, <2>3
    <3> QED
      BY <1>4, <1>5, <1>7, <2>1, <3>1
  <2> QED
    BY <2>2, <2>3
<1>11. ASSUME r.objects PROVE \A i \in Len(t) .. r.cap - 1 : r.slot[i] = Raw
  <2> TAKE i \in Len(t) .. r.cap - 1
  <2>1. i \in 0 .. v.cap - 1 /\ i \in v.size .. v.cap - 1 /\ ~ (i < n + m)
    BY <1>1, <1>2, <1>4, <1>7
  <2> QED
    BY <1>3, <1>5, <1>7, <1>11, <2>1
<1>12. r.size = Len(t) /\ Len(t) <= r.cap
  BY <1>4, <1>7
<1>13. Keeps(r, t)
  BY <1>7, <1>9, <1>10, <1>11, <1>12 DEF Keeps
<1> QED
  BY <1>7, <1>13 DEF r, w, t

(* The last elements destroyed.                                            *)
LEMMA CutKeeps ==
  ASSUME NEW v, NEW s, Keeps(v, s), NEW n \in 0 .. Len(s)
  PROVE  LET r == [DestroyAll(v, n, v.size) EXCEPT !.size = n] IN
         Keeps(r, UpTo(s, n)) /\ r.objects = v.objects
<1> DEFINE w == DestroyAll(v, n, v.size)
           r == [w EXCEPT !.size = n]
           t == UpTo(s, n)
<1>1. /\ v.size = Len(s) /\ Len(s) \in Nat /\ s \in Seq(Elements) /\ Formed(v) /\ v.cap \in Nat /\ Len(s) <= v.cap
      /\ ~ v.fault /\ Holdable(v.objects, s) /\ n \in Nat /\ n <= Len(s)
  BY KeepsContent DEF Keeps
<1>2. /\ \A i \in 0 .. v.size - 1 : v.slot[i] = s[i + 1]
      /\ v.objects => \A i \in 0 .. v.size - 1 : v.slot[i] # Raw
      /\ v.objects => \A i \in v.size .. v.cap - 1 : v.slot[i] = Raw
  BY KeptSlots
<1>3. t \in Seq(Elements) /\ Len(t) = n /\ \A i \in 1 .. n : t[i] = s[i]
  BY <1>1, UpToFacts
<1>4. /\ SameVector(w, v)
      /\ \A i \in 0 .. v.cap - 1 : w.slot[i] = IF n <= i /\ i < v.size THEN Raw ELSE v.slot[i]
      /\ w.fault = (v.fault \/ (v.objects /\ \E i \in n .. v.size - 1 : v.slot[i] = Raw))
  BY <1>1, DestroyAllFacts
<1> HIDE DEF w, t
<1>5. ~ w.fault /\ Formed(w) /\ w.cap = v.cap /\ w.objects = v.objects
  <2>1. \A i \in n .. v.size - 1 : i \in 0 .. v.size - 1
    BY <1>1
  <2> QED
    BY <1>1, <1>2, <1>4, <2>1 DEF SameVector
<1>6. Formed(r) /\ r.size = n /\ r.cap = v.cap /\ r.objects = v.objects /\ r.slot = w.slot /\ ~ r.fault
  BY <1>1, <1>5, SizedFacts
<1> HIDE DEF r
<1>7. Holdable(r.objects, t)
  BY <1>1, <1>3, <1>6 DEF Holdable
<1>8. ASSUME NEW i \in 0 .. Len(t) - 1 PROVE r.slot[i] = t[i + 1]
  <2>1. i \in 0 .. v.cap - 1 /\ i \in 0 .. v.size - 1 /\ ~ (n <= i) /\ i + 1 \in 1 .. n
    BY <1>1, <1>3
  <2> QED
    BY <1>2, <1>3, <1>4, <1>6, <2>1
<1>9. r.objects => \A i \in Len(t) .. r.cap - 1 : r.slot[i] = Raw
  BY <1>1, <1>2, <1>3, <1>4, <1>6
<1>10. Keeps(r, t)
  BY <1>1, <1>3, <1>6, <1>7, <1>8, <1>9 DEF Keeps
<1> QED
  BY <1>6, <1>10 DEF r, w, t

(* What resize() fills up with.                                            *)
Filling(objects) == IF objects THEN Default ELSE Raw

(* What resize() fills a vector up with can be held.                       *)
LEMMA FillingHoldable ==
  ASSUME VectorAssumption, NEW objects \in BOOLEAN, NEW n \in Int
  PROVE  Filling(objects) \in Elements /\ Holdable(objects, Repeated(n, Filling(objects)))
<1>1. Filling(objects) \in Elements /\ (objects => HasValue(Filling(objects)))
  BY DEF Filling, Elements, Live, HasValue, VectorAssumption
<1>2. /\ Repeated(n, Filling(objects)) \in Seq(Elements)
      /\ Len(Repeated(n, Filling(objects))) = IF n > 0 THEN n ELSE 0
      /\ \A i \in 1 .. n : Repeated(n, Filling(objects))[i] = Filling(objects)
  BY <1>1, RepeatedFacts
<1> QED
  BY <1>1, <1>2 DEF Holdable

(* resize() cuts off or fills up.                                          *)
LEMMA ResizeKeeps ==
  ASSUME VectorAssumption, NEW v, NEW s, Keeps(v, s), NEW n \in Nat
  PROVE  /\ Keeps(Resize(v, n), Resized(s, n, Filling(v.objects)))
         /\ Resize(v, n).objects = v.objects
<1> DEFINE fill == Filling(v.objects)
           big == IF n > v.cap THEN Reallocated(v, Larger(2 * v.cap, n)) ELSE v
           q == Repeated(n - v.size, fill)
           built == [BuildAll(big, v.size, q) EXCEPT !.size = n]
           cut == [DestroyAll(v, n, v.size) EXCEPT !.size = n]
<1>1. /\ v.size = Len(s) /\ Len(s) \in Nat /\ s \in Seq(Elements) /\ v.cap \in Nat /\ Len(s) <= v.cap
      /\ v.objects \in BOOLEAN
  BY KeepsContent DEF Keeps, Formed
<1>2. Resize(v, n) = IF n > v.size THEN built ELSE cut
  BY DEF Resize, Filling
<1>3. CASE n > v.size
  <2>1. n - v.size \in Int /\ n - v.size > 0 /\ ~ (n <= Len(s)) /\ n - v.size = n - Len(s)
    BY <1>1, <1>3
  <2>2. Keeps(big, s) /\ big.cap >= n /\ big.objects = v.objects
    <3>1. CASE n > v.cap
      <4> DEFINE c == Larger(2 * v.cap, n)
      <4>1. c \in Nat /\ c >= n /\ c >= v.size
        BY <1>1, <1>3 DEF Larger
      <4> HIDE DEF c
      <4>2. /\ Keeps(Reallocated(v, c), s)
            /\ Reallocated(v, c).cap = c /\ Reallocated(v, c).objects = v.objects
        BY <4>1, ReallocatedKeeps
      <4> QED
        BY <3>1, <4>1, <4>2 DEF c
    <3>2. CASE ~ (n > v.cap)
      BY <1>1, <3>2
    <3> QED
      BY <3>1, <3>2
  <2>3. Holdable(v.objects, q) /\ Len(q) = n - Len(s)
    <3>1. fill \in Elements /\ Holdable(v.objects, q)
      BY <1>1, <2>1, FillingHoldable
    <3>2. Len(q) = IF n - v.size > 0 THEN n - v.size ELSE 0
      BY <2>1, <3>1, RepeatedFacts
    <3> QED
      BY <2>1, <3>1, <3>2
  <2>4. Resized(s, n, fill) = s \o q
    BY <2>1 DEF Resized
  <2> HIDE DEF big, q
  <2>5. Len(s) + Len(q) = n
    BY <1>1, <2>3
  <2>6. LET r == [BuildAll(big, Len(s), q) EXCEPT !.size = Len(s) + Len(q)] IN
        Keeps(r, s \o q) /\ r.objects = big.objects
    BY <2>2, <2>3, <2>5, BuiltKeeps
  <2>7. Keeps(built, s \o q) /\ built.objects = v.objects
    BY <1>1, <2>2, <2>5, <2>6
  <2> HIDE DEF built
  <2> QED
    BY <1>2, <1>3, <2>4, <2>7
<1>4. CASE ~ (n > v.size)
  <2>1. n \in 0 .. Len(s) /\ n <= Len(s)
    BY <1>1, <1>4
  <2>2. Keeps(cut, UpTo(s, n)) /\ cut.objects = v.objects
    BY <2>1, CutKeeps
  <2>3. Resized(s, n, fill) = UpTo(s, n)
    BY <2>1 DEF Resized
  <2> HIDE DEF cut
  <2> QED
    BY <1>2, <1>4, <2>2, <2>3
<1> QED
  BY <1>3, <1>4

-----------------------------------------------------------------------------
(* Assignment.                                                             *)

(* Assigning to the first slots, when there are as many elements in them.  *)
LEMMA SetAllKeeps ==
  ASSUME NEW w, Formed(w), ~ w.fault, NEW s, Holdable(w.objects, s), Len(s) <= w.cap,
         w.objects => \A i \in 0 .. Len(s) - 1 : w.slot[i] # Raw,
         w.objects => \A i \in Len(s) .. w.cap - 1 : w.slot[i] = Raw
  PROVE  LET r == [SetAll(w, s) EXCEPT !.size = Len(s)] IN Keeps(r, s) /\ r.objects = w.objects
<1> DEFINE u == SetAll(w, s)
           r == [u EXCEPT !.size = Len(s)]
<1>1. s \in Seq(Elements) /\ Len(s) \in Nat /\ w.cap \in Nat
  BY LenProperties DEF Holdable, Formed
<1>2. /\ SameVector(u, w)
      /\ \A i \in 0 .. w.cap - 1 : u.slot[i] = IF i < Len(s) THEN s[i + 1] ELSE w.slot[i]
      /\ u.fault = (w.fault \/ (w.objects /\ \E i \in 0 .. Len(s) - 1 : w.slot[i] = Raw))
  BY <1>1, SetAllFacts
<1> HIDE DEF u
<1>3. ~ u.fault /\ Formed(u) /\ u.cap = w.cap /\ u.objects = w.objects
  BY <1>2 DEF SameVector
<1>4. Formed(r) /\ r.size = Len(s) /\ r.cap = w.cap /\ r.objects = w.objects /\ r.slot = u.slot /\ ~ r.fault
  BY <1>1, <1>3, SizedFacts
<1> HIDE DEF r
<1>5. \A i \in 0 .. Len(s) - 1 : r.slot[i] = s[i + 1]
  BY <1>1, <1>2, <1>4
<1>6. r.objects => \A i \in Len(s) .. r.cap - 1 : r.slot[i] = Raw
  BY <1>1, <1>2, <1>4
<1>7. Keeps(r, s)
  BY <1>1, <1>4, <1>5, <1>6 DEF Keeps
<1> QED
  BY <1>4, <1>7 DEF r, u

(* assign() of a range.                                                    *)
LEMMA AssignRangeKeeps ==
  ASSUME NEW v, NEW t, Keeps(v, t), NEW s, Holdable(v.objects, s),
         ~ v.objects \/ Len(s) > v.cap \/ Len(s) <= v.size
  PROVE  Keeps(AssignRange(v, s), s) /\ AssignRange(v, s).objects = v.objects
<1>1. /\ v.size \in Nat /\ Formed(v) /\ v.cap \in Nat /\ v.size <= v.cap /\ ~ v.fault /\ v.objects \in BOOLEAN
  BY KeepsContent DEF Keeps, Formed
<1>2. Len(s) \in Nat
  BY LenProperties DEF Holdable
<1>3. CASE Len(s) > v.cap
  BY <1>3, ReplacedKeeps DEF AssignRange
<1>4. CASE ~ (Len(s) > v.cap)
  <2> DEFINE w == DestroyAll(v, Len(s), v.size)
             r == [SetAll(w, s) EXCEPT !.size = Len(s)]
  <2>1. /\ v.objects => \A i \in 0 .. v.size - 1 : v.slot[i] # Raw
        /\ v.objects => \A i \in v.size .. v.cap - 1 : v.slot[i] = Raw
    BY KeptSlots
  <2>2. /\ SameVector(w, v)
        /\ \A i \in 0 .. v.cap - 1 : w.slot[i] = IF Len(s) <= i /\ i < v.size THEN Raw ELSE v.slot[i]
        /\ w.fault = (v.fault \/ (v.objects /\ \E i \in Len(s) .. v.size - 1 : v.slot[i] = Raw))
    BY <1>1, <1>2, DestroyAllFacts
  <2>3. AssignRange(v, s) = r
    BY <1>4 DEF AssignRange
  <2> HIDE DEF w
  <2>4. ~ w.fault /\ Formed(w) /\ w.cap = v.cap /\ w.objects = v.objects
    <3>1. \A i \in Len(s) .. v.size - 1 : i \in 0 .. v.size - 1
      BY <1>1, <1>2
    <3> QED
      BY <1>1, <2>1, <2>2, <3>1 DEF SameVector
  <2>5. ASSUME v.objects PROVE \A i \in 0 .. Len(s) - 1 : w.slot[i] # Raw
    BY <1>1, <1>2, <1>4, <2>1, <2>2, <2>5
  <2>6. ASSUME v.objects PROVE \A i \in Len(s) .. v.cap - 1 : w.slot[i] = Raw
    BY <1>1, <1>2, <1>4, <2>1, <2>2, <2>6
  <2>7. Keeps(r, s) /\ r.objects = w.objects
    <3>1. Holdable(w.objects, s) /\ Len(s) <= w.cap
      BY <1>1, <1>2, <1>4, <2>4
    <3> HIDE DEF r
    <3> QED
      BY <2>4, <2>5, <2>6, <3>1, SetAllKeeps DEF r
  <2> HIDE DEF r
  <2> QED
    BY <2>3, <2>4, <2>7
<1> QED
  BY <1>3, <1>4

(* operator= of a list and assign() of a count.                            *)
LEMMA AssignListKeeps ==
  ASSUME NEW v, NEW t, Keeps(v, t), NEW s, Holdable(v.objects, s),
         ~ v.objects \/ Len(s) > v.cap \/ Len(s) = v.size
  PROVE  Keeps(AssignList(v, s), s) /\ AssignList(v, s).objects = v.objects
<1>1. /\ v.size \in Nat /\ Formed(v) /\ v.cap \in Nat /\ v.size <= v.cap /\ ~ v.fault /\ v.objects \in BOOLEAN
  BY KeepsContent DEF Keeps, Formed
<1>2. Len(s) \in Nat
  BY LenProperties DEF Holdable
<1>3. CASE Len(s) > v.cap
  BY <1>3, ReplacedKeeps DEF AssignList
<1>4. CASE ~ (Len(s) > v.cap)
  <2> DEFINE r == [SetAll(v, s) EXCEPT !.size = Len(s)]
  <2>1. /\ v.objects => \A i \in 0 .. v.size - 1 : v.slot[i] # Raw
        /\ v.objects => \A i \in v.size .. v.cap - 1 : v.slot[i] = Raw
    BY KeptSlots
  <2>2. AssignList(v, s) = r
    BY <1>4 DEF AssignList
  <2>3. Keeps(r, s) /\ r.objects = v.objects
    <3>1. Len(s) <= v.cap /\ (v.objects => Len(s) = v.size)
      BY <1>1, <1>2, <1>4
    <3> HIDE DEF r
    <3> QED
      BY <1>1, <2>1, <3>1, SetAllKeeps DEF r
  <2> HIDE DEF r
  <2> QED
    BY <2>2, <2>3
<1> QED
  BY <1>3, <1>4

(* operator= of another vector takes its capacity and its elements.        *)
LEMMA CopyAssignKeeps ==
  ASSUME NEW v, NEW s, Keeps(v, s), NEW o, NEW t, Keeps(o, t), v.objects = o.objects, Copyable(v, o)
  PROVE  Keeps(CopyAssign(v, o), t) /\ CopyAssign(v, o).objects = v.objects
<1> DEFINE gone == DestroyAll(v, 0, v.size)
           cutf == [i \in DOMAIN Block(o.cap) |-> gone.slot[i]]
           cut == [gone EXCEPT !.cap = o.cap, !.slot = cutf]
           big == IF v.cap < o.cap THEN Reallocated(gone, o.cap) ELSE cut
           w == BuildAll(big, 0, t)
           r == [w EXCEPT !.size = o.size]
<1>1. /\ v.size \in Nat /\ Formed(v) /\ v.cap \in Nat /\ v.size <= v.cap /\ ~ v.fault /\ v.objects \in BOOLEAN
  BY KeepsContent DEF Keeps, Formed
<1>2. /\ Content(o) = t /\ o.size = Len(t) /\ Len(t) \in Nat /\ o.cap \in Nat /\ Len(t) <= o.cap
      /\ t \in Seq(Elements) /\ Holdable(o.objects, t)
  BY KeepsContent DEF Keeps
<1>3. /\ v.objects => \A i \in 0 .. v.size - 1 : v.slot[i] # Raw
      /\ v.objects => \A i \in v.size .. v.cap - 1 : v.slot[i] = Raw
  BY KeptSlots
<1>4. /\ SameVector(gone, v)
      /\ \A i \in 0 .. v.cap - 1 : gone.slot[i] = IF 0 <= i /\ i < v.size THEN Raw ELSE v.slot[i]
      /\ gone.fault = (v.fault \/ (v.objects /\ \E i \in 0 .. v.size - 1 : v.slot[i] = Raw))
  BY <1>1, DestroyAllFacts
<1>5. CopyAssign(v, o) = [BuildAll(big, 0, Content(o)) EXCEPT !.size = o.size]
  <2> DEFINE cutx == [gone EXCEPT !.cap = o.cap, !.slot = [i \in DOMAIN Block(o.cap) |-> @[i]]]
  <2>1. cutx = cut
    BY <1>1, <1>4 DEF SameVector, Formed, Fields
  <2>2. CopyAssign(v, o) = [BuildAll(IF v.cap < o.cap THEN Reallocated(gone, o.cap) ELSE cutx, 0, Content(o))
                              EXCEPT !.size = o.size]
    BY DEF CopyAssign
  <2> HIDE DEF gone, cut, cutx
  <2> QED
    BY <2>1, <2>2
<1>6. CopyAssign(v, o) = r
  BY <1>2, <1>5
<1> HIDE DEF gone
<1>7. /\ ~ gone.fault /\ Formed(gone) /\ gone.size = v.size /\ gone.cap = v.cap /\ gone.objects = v.objects
      /\ (v.objects => \A i \in 0 .. v.cap - 1 : gone.slot[i] = Raw)
  <2>1. ~ gone.fault
    BY <1>1, <1>3, <1>4
  <2>2. ASSUME v.objects, NEW i \in 0 .. v.cap - 1 PROVE gone.slot[i] = Raw
    <3>1. CASE i < v.size
      BY <1>4, <3>1
    <3>2. CASE ~ (i < v.size)
      <4>1. i \in v.size .. v.cap - 1
        BY <1>1, <3>2
      <4> QED
        BY <1>3, <1>4, <2>2, <3>2, <4>1
    <3> QED
      BY <3>1, <3>2
  <2> QED
    BY <1>4, <2>1, <2>2 DEF SameVector
<1>8. /\ Formed(big) /\ big.cap = o.cap /\ big.objects = v.objects /\ ~ big.fault
      /\ (v.objects => \A i \in 0 .. o.cap - 1 : big.slot[i] = Raw)
  <2>1. CASE v.cap < o.cap
    <3> DEFINE b == Reallocated(gone, o.cap)
    <3>1. /\ Formed(b) /\ b.size = gone.size /\ b.cap = o.cap /\ b.objects = gone.objects
          /\ \A i \in 0 .. o.cap - 1 : b.slot[i] = IF i < gone.size THEN gone.slot[i] ELSE Raw
          /\ b.fault = (gone.fault \/ (gone.objects /\ \E i \in 0 .. gone.size - 1 : gone.slot[i] = Raw))
      BY <1>1, <1>2, <1>7, ReallocatedFacts
    <3>2. v.objects => v.size = 0
      BY <1>1, <1>2, <2>1 DEF Copyable
    <3> HIDE DEF b
    <3>3. ~ b.fault
      <4>1. gone.objects => \A i \in 0 .. gone.size - 1 : FALSE
        BY <1>7, <3>2
      <4> QED
        BY <1>7, <3>1, <4>1
    <3>4. v.objects => \A i \in 0 .. o.cap - 1 : b.slot[i] = Raw
      BY <1>1, <1>2, <1>7, <2>1, <3>1, <3>2
    <3>5. big = b
      BY <2>1 DEF b
    <3> HIDE DEF big
    <3> QED
      BY <1>7, <3>1, <3>3, <3>4, <3>5
  <2>2. CASE ~ (v.cap < o.cap)
    <3>1. DOMAIN Block(o.cap) = 0 .. o.cap - 1
      BY DEF Block
    <3>2. cutf \in [0 .. o.cap - 1 -> Elements] /\ \A i \in 0 .. o.cap - 1 : i \in 0 .. v.cap - 1 /\ cutf[i] = gone.slot[i]
      BY <1>1, <1>2, <1>7, <2>2, <3>1 DEF Formed
    <3> HIDE DEF cutf
    <3>3. /\ Formed(cut) /\ cut.cap = o.cap /\ cut.objects = v.objects /\ ~ cut.fault /\ cut.slot = cutf
      BY <1>2, <1>7, <3>2 DEF Formed, Fields
    <3>4. big = cut
      BY <2>2
    <3> HIDE DEF big, cut
    <3> QED
      BY <1>7, <3>2, <3>3, <3>4
  <2> QED
    BY <2>1, <2>2
<1> HIDE DEF big
<1>9. /\ SameVector(w, big)
      /\ \A i \in 0 .. o.cap - 1 : w.slot[i] = IF 0 <= i /\ i < 0 + Len(t) THEN t[(i - 0) + 1] ELSE big.slot[i]
      /\ w.fault = (big.fault \/ (big.objects /\ \E i \in 0 .. 0 + Len(t) - 1 : HasValue(big.slot[i])))
  <2>1. 0 + Len(t) <= big.cap /\ 0 \in Nat
    BY <1>2, <1>8
  <2>2. \A at \in Nat : at + Len(t) <= big.cap =>
          /\ SameVector(BuildAll(big, at, t), big)
          /\ \A i \in 0 .. big.cap - 1 :
               BuildAll(big, at, t).slot[i] = IF at <= i /\ i < at + Len(t) THEN t[(i - at) + 1] ELSE big.slot[i]
          /\ BuildAll(big, at, t).fault =
               (big.fault \/ (big.objects /\ \E i \in at .. at + Len(t) - 1 : HasValue(big.slot[i])))
    BY <1>2, <1>8, BuildAllFacts
  <2> QED
    BY <1>8, <2>1, <2>2
<1> HIDE DEF w
<1>10. ~ w.fault /\ Formed(w) /\ w.cap = o.cap /\ w.objects = v.objects
  <2>1. ASSUME v.objects PROVE \A i \in 0 .. 0 + Len(t) - 1 : ~ HasValue(big.slot[i])
    BY <1>2, <1>8, <2>1 DEF HasValue
  <2> HIDE DEF HasValue
  <2> QED
    BY <1>8, <1>9, <2>1 DEF SameVector
<1>11. Formed(r) /\ r.size = Len(t) /\ r.cap = o.cap /\ r.objects = v.objects /\ r.slot = w.slot /\ ~ r.fault
  BY <1>2, <1>10, SizedFacts
<1> HIDE DEF r
<1>12. \A i \in 0 .. Len(t) - 1 : r.slot[i] = t[i + 1]
  <2> TAKE i \in 0 .. Len(t) - 1
  <2>1. i \in 0 .. o.cap - 1 /\ 0 <= i /\ i < 0 + Len(t) /\ (i - 0) + 1 = i + 1
    BY <1>2
  <2> QED
    BY <1>9, <1>11, <2>1
<1>13. r.objects => \A i \in Len(t) .. r.cap - 1 : r.slot[i] = Raw
  BY <1>2, <1>8, <1>9, <1>11
<1>14. Keeps(r, t)
  BY <1>2, <1>11, <1>12, <1>13 DEF Keeps
<1> QED
  BY <1>6, <1>11, <1>14

-----------------------------------------------------------------------------
(* Elements moved up.                                                      *)

(* One step of the loop.                                                   *)
ShiftedUp(into, i, count, destroyed) ==
  IF destroyed THEN Destroy(Build(into, i + count, into.slot[i]), i)
  ELSE MoveOut(Build(into, i + count, into.slot[i]), i)

(* w is v when the last n elements have been moved up: they are there, and *)
(* between them and the others nothing has a value.                        *)
MovedUpSoFar(w, v, n, count) ==
  /\ SameVector(w, v) /\ ~ w.fault
  /\ \A i \in 0 .. v.size - n - 1 : w.slot[i] = v.slot[i]
  /\ \A i \in v.size - n .. v.size - 1 : w.slot[i + count] = v.slot[i]
  /\ v.objects => \A i \in v.size - n .. (v.size - n) + (count - 1) : ~ HasValue(w.slot[i])
  /\ v.objects => \A i \in v.size + count .. v.cap - 1 : w.slot[i] = Raw

(* Where elements can be moved to.                                         *)
CanMoveUp(v, pos, count, destroyed) ==
  /\ pos \in 0 .. v.size /\ count \in Nat /\ v.size + count <= v.cap
  /\ destroyed \in BOOLEAN /\ (destroyed => count = 1)
  /\ v.objects => count > 0 \/ pos = v.size

(* Before the loop nothing has a value behind the elements.                *)
LEMMA MovedUpStart ==
  ASSUME NEW v, NEW s, Keeps(v, s), NEW count \in Nat, v.size + count <= v.cap
  PROVE  MovedUpSoFar(v, v, 0, count)
<1>1. Formed(v) /\ v.size \in Nat /\ v.cap \in Nat /\ ~ v.fault
  BY KeepsContent DEF Keeps, Formed
<1>2. v.objects => \A i \in v.size .. v.cap - 1 : v.slot[i] = Raw /\ ~ HasValue(v.slot[i])
  BY KeptSlots
<1>3. /\ v.size - 0 = v.size
      /\ \A i \in v.size .. v.size - 1 : FALSE
      /\ \A i \in v.size .. v.size + (count - 1) : i \in v.size .. v.cap - 1
      /\ \A i \in v.size + count .. v.cap - 1 : i \in v.size .. v.cap - 1
  BY <1>1
<1> HIDE DEF HasValue
<1> QED
  BY <1>1, <1>2, <1>3 DEF MovedUpSoFar, SameVector

(* One element more is moved to a slot that has no value.                  *)
LEMMA MovedUpStep ==
  ASSUME NEW v, NEW s, Keeps(v, s), NEW pos, NEW count, NEW destroyed, CanMoveUp(v, pos, count, destroyed),
         NEW n \in Nat, n < v.size - pos, NEW w, MovedUpSoFar(w, v, n, count)
  PROVE  MovedUpSoFar(ShiftedUp(w, v.size - (n + 1), count, destroyed), v, n + 1, count)
<1> DEFINE k == v.size - (n + 1)
           x == w.slot[k]
           b == Build(w, k + count, x)
           r == ShiftedUp(w, k, count, destroyed)
<1>1. /\ v.size \in Nat /\ v.cap \in Nat /\ v.size <= v.cap /\ pos \in Nat /\ count \in Nat
      /\ v.size + count <= v.cap /\ (v.objects => count > 0) /\ v.objects \in BOOLEAN /\ pos < v.size
  <2>1. v.size \in Nat /\ v.cap \in Nat /\ v.size <= v.cap /\ v.objects \in BOOLEAN
    BY KeepsContent DEF Keeps, Formed
  <2> QED
    BY <2>1 DEF CanMoveUp
<1>2. /\ k \in Nat /\ k < v.size /\ k \in 0 .. v.cap - 1 /\ k + count \in 0 .. v.cap - 1
      /\ k + 1 = v.size - n /\ k \in 0 .. v.size - n - 1 /\ k \in 0 .. v.size - 1
  BY <1>1
<1>3. /\ Formed(w) /\ w.size = v.size /\ w.cap = v.cap /\ w.objects = v.objects /\ ~ w.fault
      /\ \A i \in 0 .. k : w.slot[i] = v.slot[i]
      /\ \A i \in k + 1 .. v.size - 1 : w.slot[i + count] = v.slot[i]
      /\ v.objects => \A i \in k + 1 .. (k + 1) + (count - 1) : ~ HasValue(w.slot[i])
      /\ v.objects => \A i \in v.size + count .. v.cap - 1 : w.slot[i] = Raw
  <2>1. v.size - n = k + 1 /\ v.size - n - 1 = k
    BY <1>1
  <2> HIDE DEF k
  <2> QED
    BY <2>1 DEF MovedUpSoFar, SameVector
<1>4. x = v.slot[k] /\ x \in Elements /\ (v.objects => HasValue(x) /\ x # Raw)
  <2>1. /\ \A i \in 0 .. v.size - 1 : v.slot[i] \in Elements
        /\ v.objects => \A i \in 0 .. v.size - 1 : v.slot[i] # Raw /\ HasValue(v.slot[i])
    BY KeptSlots
  <2>2. x = v.slot[k]
    BY <1>2, <1>3
  <2> HIDE DEF HasValue, x, k
  <2> QED
    BY <1>2, <2>1, <2>2
<1> HIDE DEF x, k
<1>5. /\ SameVector(b, w) /\ b.slot = [w.slot EXCEPT ![k + count] = x]
      /\ b.fault = (w.fault \/ (w.objects /\ HasValue(w.slot[k + count])))
  BY <1>2, <1>3, <1>4, BuildFacts
<1>6. r = IF destroyed THEN Destroy(b, k) ELSE MoveOut(b, k)
  BY DEF ShiftedUp, x
<1> HIDE DEF b
<1>7. /\ Formed(b) /\ b.size = v.size /\ b.cap = v.cap /\ b.objects = v.objects /\ ~ b.fault
  <2>1. v.objects => k + count \in k + 1 .. (k + 1) + (count - 1)
    BY <1>1, <1>2
  <2>2. v.objects => ~ HasValue(w.slot[k + count])
    BY <1>3, <2>1
  <2> HIDE DEF HasValue
  <2> QED
    BY <1>3, <1>5, <2>2 DEF SameVector
<1>8. w.slot \in [0 .. v.cap - 1 -> Elements]
  BY <1>3 DEF Formed
<1>9. \A i \in 0 .. v.cap - 1 : b.slot[i] = IF i = k + count THEN x ELSE w.slot[i]
  BY <1>2, <1>5, <1>8
<1>10. /\ Formed(r) /\ r.size = v.size /\ r.cap = v.cap /\ r.objects = v.objects /\ ~ r.fault
       /\ \A i \in 0 .. v.cap - 1 : i # k => r.slot[i] = b.slot[i]
       /\ v.objects => r.slot[k] = Raw \/ r.slot[k] = Gone
       /\ ~ v.objects /\ count = 0 => r.slot[k] = b.slot[k]
  <2>1. b.slot \in [0 .. v.cap - 1 -> Elements] /\ k \in 0 .. b.cap - 1
    BY <1>2, <1>7 DEF Formed
  <2>2. CASE destroyed
    <3> DEFINE d == Destroy(b, k)
    <3>1. /\ SameVector(d, b) /\ d.slot = [b.slot EXCEPT ![k] = Raw]
          /\ d.fault = (b.fault \/ (b.objects /\ b.slot[k] = Raw))
      BY <1>7, <2>1, DestroyFacts
    <3>2. count = 1
      BY <2>2 DEF CanMoveUp
    <3>3. v.objects => b.slot[k] # Raw
      <4>1. b.slot[k] = w.slot[k]
        BY <1>2, <1>9, <3>2
      <4> QED
        BY <1>4, <4>1 DEF x
    <3>4. r = d
      BY <1>6, <2>2
    <3> HIDE DEF d, r
    <3>5. ~ d.fault
      BY <1>7, <3>1, <3>3
    <3>6. d.slot[k] = Raw /\ \A i \in 0 .. v.cap - 1 : i # k => d.slot[i] = b.slot[i]
      BY <1>2, <2>1, <3>1
    <3>7. count # 0
      BY <3>2
    <3> QED
      BY <1>7, <3>1, <3>4, <3>5, <3>6, <3>7 DEF SameVector
  <2>3. CASE ~ destroyed
    <3> DEFINE d == MoveOut(b, k)
    <3>1. /\ SameVector(d, b) /\ d.fault = b.fault
          /\ d.slot = IF b.objects THEN [b.slot EXCEPT ![k] = Gone] ELSE b.slot
      BY <1>7, <2>1, MoveOutFacts
    <3>2. r = d
      BY <1>6, <2>3
    <3> HIDE DEF d, r
    <3> QED
      BY <1>2, <1>7, <2>1, <3>1, <3>2 DEF SameVector
  <2>4. destroyed \in BOOLEAN
    BY DEF CanMoveUp
  <2> QED
    BY <2>2, <2>3, <2>4
<1> HIDE DEF r
<1>11. \A i \in 0 .. k - 1 : r.slot[i] = v.slot[i]
  <2> TAKE i \in 0 .. k - 1
  <2>1. i \in 0 .. v.cap - 1 /\ i # k /\ i # k + count /\ i \in 0 .. k
    BY <1>1, <1>2
  <2> QED
    BY <1>3, <1>9, <1>10, <2>1
<1>12. ASSUME NEW i \in k .. v.size - 1 PROVE r.slot[i + count] = v.slot[i]
  <2>1. i + count \in 0 .. v.cap - 1
    BY <1>1, <1>2
  <2>2. CASE i = k
    <3>1. b.slot[k + count] = x
      BY <1>2, <1>9
    <3>2. r.slot[k + count] = b.slot[k + count]
      <4>1. CASE count = 0
        <5>1. k + count = k /\ ~ v.objects
          BY <1>1, <1>2, <4>1
        <5> QED
          BY <1>10, <4>1, <5>1
      <4>2. CASE count # 0
        <5>1. k + count # k
          BY <1>1, <1>2, <4>2
        <5> QED
          BY <1>2, <1>10, <5>1
      <4> QED
        BY <4>1, <4>2
    <3> QED
      BY <1>4, <2>2, <3>1, <3>2
  <2>3. CASE i # k
    <3>1. i \in k + 1 .. v.size - 1 /\ i + count # k + count /\ i + count # k
      BY <1>1, <1>2, <2>3
    <3> QED
      BY <1>3, <1>9, <1>10, <2>1, <3>1
  <2> QED
    BY <2>2, <2>3
<1>13. ASSUME v.objects, NEW i \in k .. k + (count - 1) PROVE ~ HasValue(r.slot[i])
  <2>1. CASE i = k
    BY <1>10, <1>13, <2>1 DEF HasValue
  <2>2. CASE i # k
    <3>1. i \in k + 1 .. (k + 1) + (count - 1) /\ i # k + count /\ i \in 0 .. v.cap - 1
      BY <1>1, <1>2, <2>2
    <3>2. r.slot[i] = w.slot[i]
      BY <1>9, <1>10, <2>2, <3>1
    <3> HIDE DEF HasValue
    <3> QED
      BY <1>3, <1>13, <3>1, <3>2
  <2> QED
    BY <2>1, <2>2
<1>14. ASSUME v.objects, NEW i \in v.size + count .. v.cap - 1 PROVE r.slot[i] = Raw
  <2>1. i \in 0 .. v.cap - 1 /\ i # k /\ i # k + count
    BY <1>1, <1>2
  <2> QED
    BY <1>3, <1>9, <1>10, <1>14, <2>1
<1>15. v.size - (n + 1) = k /\ v.size - (n + 1) - 1 = k - 1
  BY <1>1 DEF k
<1>16. SameVector(r, v)
  BY <1>10 DEF SameVector
<1>17. MovedUpSoFar(r, v, n + 1, count)
  <2> HIDE DEF HasValue
  <2> QED
    BY <1>10, <1>11, <1>12, <1>13, <1>14, <1>15, <1>16 DEF MovedUpSoFar
<1> QED
  BY <1>15, <1>17 DEF r

(* The whole loop, by induction over the elements it has moved.            *)
LEMMA MovedUpFacts ==
  ASSUME NEW v, NEW s, Keeps(v, s), NEW pos, NEW count, NEW destroyed, CanMoveUp(v, pos, count, destroyed)
  PROVE  MovedUpSoFar(MovedUp(v, pos, count, destroyed), v, v.size - pos, count)
<1> DEFINE Next(w, n) == ShiftedUp(w, v.size - n, count, destroyed)
           Done(g, n) == g = [k \in 0 .. n |-> IF k = 0 THEN v ELSE Next(g[k - 1], k)]
           S == {n \in Nat : \E g : Done(g, n)}
           m == v.size - pos
<1>0. /\ v.size \in Nat /\ pos \in 0 .. v.size /\ m \in Nat /\ count \in Nat /\ v.size + count <= v.cap
      /\ destroyed \in BOOLEAN /\ MovedUpSoFar(v, v, 0, count)
  <2>1. /\ v.size \in Nat /\ pos \in 0 .. v.size /\ count \in Nat /\ v.size + count <= v.cap
        /\ destroyed \in BOOLEAN
    BY KeepsContent DEF CanMoveUp
  <2>2. MovedUpSoFar(v, v, 0, count)
    BY <2>1, MovedUpStart
  <2> QED
    BY <2>1, <2>2
<1> HIDE DEF Next, m
<1>1. 0 \in S
  <2>1. Done([k \in 0 .. 0 |-> v], 0)
    OBVIOUS
  <2> QED
    BY <2>1
<1>2. ASSUME NEW n \in S PROVE n + 1 \in S
  <2>1. PICK g : Done(g, n)
    OBVIOUS
  <2> DEFINE h == [k \in 0 .. n + 1 |-> IF k <= n THEN g[k] ELSE Next(g[n], n + 1)]
  <2>2. n \in Nat /\ n + 1 \in Nat
    OBVIOUS
  <2>3. ASSUME NEW k \in 0 .. n + 1 PROVE h[k] = IF k = 0 THEN v ELSE Next(h[k - 1], k)
    <3>1. CASE k <= n
      <4>1. k \in 0 .. n /\ h[k] = g[k] /\ (k # 0 => k - 1 \in 0 .. n + 1 /\ k - 1 <= n)
        BY <2>2, <3>1
      <4>2. k # 0 => h[k - 1] = g[k - 1]
        BY <4>1
      <4>3. g[k] = IF k = 0 THEN v ELSE Next(g[k - 1], k)
        BY <2>1, <4>1
      <4> HIDE DEF h, Done
      <4> QED
        BY <4>1, <4>2, <4>3
    <3>2. CASE k = n + 1
      <4>1. ~ (k <= n) /\ k # 0 /\ k - 1 = n /\ n \in 0 .. n + 1 /\ n <= n
        BY <2>2, <3>2
      <4>2. h[k] = Next(g[n], n + 1) /\ h[n] = g[n]
        BY <2>2, <4>1
      <4> HIDE DEF h, Done
      <4> QED
        BY <3>2, <4>1, <4>2
    <3> QED
      BY <2>2, <3>1, <3>2
  <2>4. Done(h, n + 1)
    <3>1. h = [k \in 0 .. n + 1 |-> h[k]]
      OBVIOUS
    <3> HIDE DEF h
    <3>2. [k \in 0 .. n + 1 |-> h[k]] = [k \in 0 .. n + 1 |-> IF k = 0 THEN v ELSE Next(h[k - 1], k)]
      BY <2>3
    <3> QED
      BY <3>1, <3>2
  <2> HIDE DEF h, Done
  <2> QED
    BY <2>2, <2>4
<1>3. \E g : Done(g, m)
  <2> HIDE DEF Done
  <2>1. S \in SUBSET Nat
    OBVIOUS
  <2> HIDE DEF S
  <2>2. S = Nat
    BY <1>1, <1>2, <2>1, Induction
  <2> USE DEF S
  <2> QED
    BY <1>0, <2>2
<1> DEFINE done == CHOOSE g : Done(g, m)
<1>4. Done(done, m)
  <2> HIDE DEF Done
  <2> QED
    BY <1>3
<1>5. MovedUp(v, pos, count, destroyed) = IF pos = v.size THEN v ELSE done[m]
  BY DEF MovedUp, Next, ShiftedUp, m
<1> HIDE DEF done
<1>6. /\ done[0] = v
      /\ \A k \in 1 .. m : done[k] = Next(done[k - 1], k)
  BY <1>0, <1>4
<1> DEFINE Kept == {n \in Nat : n <= m => MovedUpSoFar(done[n], v, n, count)}
<1>7. 0 \in Kept
  BY <1>0, <1>6
<1>8. ASSUME NEW n \in Kept PROVE n + 1 \in Kept
  <2> SUFFICES ASSUME n + 1 <= m PROVE MovedUpSoFar(done[n + 1], v, n + 1, count)
    OBVIOUS
  <2>1. n \in Nat /\ n <= m /\ n < m /\ n + 1 \in 1 .. m /\ (n + 1) - 1 = n
    BY <1>0
  <2>2. MovedUpSoFar(done[n], v, n, count)
    BY <2>1
  <2>3. done[n + 1] = ShiftedUp(done[n], v.size - (n + 1), count, destroyed)
    BY <1>6, <2>1 DEF Next
  <2>4. n < v.size - pos
    BY <2>1 DEF m
  <2>5. MovedUpSoFar(ShiftedUp(done[n], v.size - (n + 1), count, destroyed), v, n + 1, count)
    BY <2>1, <2>2, <2>4, MovedUpStep
  <2> QED
    BY <2>3, <2>5
<1>9. MovedUpSoFar(done[m], v, m, count)
  <2>1. Kept \in SUBSET Nat
    OBVIOUS
  <2> HIDE DEF Kept
  <2>2. Kept = Nat
    BY <1>7, <1>8, <2>1, Induction
  <2> USE DEF Kept
  <2> QED
    BY <1>0, <2>2
<1>10. pos = v.size => m = 0
  BY <1>0 DEF m
<1> QED
  BY <1>0, <1>5, <1>9, <1>10 DEF m

-----------------------------------------------------------------------------
(* Insertion.                                                              *)

(* What can be held with what can be held in it.                           *)
LEMMA InsertedHoldable ==
  ASSUME NEW objects, NEW s, Holdable(objects, s), NEW q, Holdable(objects, q), NEW pos \in 0 .. Len(s)
  PROVE  /\ Holdable(objects, WithInserted(s, pos, q))
         /\ WithInserted(s, pos, q) \in Seq(Elements) /\ Len(WithInserted(s, pos, q)) = Len(s) + Len(q)
         /\ \A k \in 1 .. pos : WithInserted(s, pos, q)[k] = s[k]
         /\ \A k \in 1 .. Len(q) : WithInserted(s, pos, q)[pos + k] = q[k]
         /\ \A k \in pos + 1 .. Len(s) : WithInserted(s, pos, q)[k + Len(q)] = s[k]
<1> DEFINE t == WithInserted(s, pos, q)
<1>1. s \in Seq(Elements) /\ q \in Seq(Elements) /\ Len(s) \in Nat /\ Len(q) \in Nat
  BY LenProperties DEF Holdable
<1>2. /\ t \in Seq(Elements) /\ Len(t) = Len(s) + Len(q)
      /\ \A k \in 1 .. pos : t[k] = s[k]
      /\ \A k \in 1 .. Len(q) : t[pos + k] = q[k]
      /\ \A k \in pos + 1 .. Len(s) : t[k + Len(q)] = s[k]
  <2> DEFINE X == Elements
  <2>1. s \in Seq(X) /\ q \in Seq(X) /\ pos \in 0 .. Len(s)
    BY <1>1
  <2> HIDE DEF X
  <2>2. t \in Seq(X)
    BY ONLY <2>1, WithInsertedFacts
  <2>3. Len(t) = Len(s) + Len(q)
    BY ONLY <2>1, WithInsertedFacts
  <2>4. \A k \in 1 .. pos : t[k] = s[k]
    BY ONLY <2>1, WithInsertedFacts
  <2>5. \A k \in 1 .. Len(q) : t[pos + k] = q[k]
    BY ONLY <2>1, WithInsertedFacts
  <2>6. \A k \in pos + 1 .. Len(s) : t[k + Len(q)] = s[k]
    BY ONLY <2>1, WithInsertedFacts
  <2> QED
    BY <2>2, <2>3, <2>4, <2>5, <2>6 DEF X
<1> HIDE DEF t
<1>3. ASSUME objects, NEW k \in 1 .. Len(t) PROVE HasValue(t[k])
  <2>1. CASE k <= pos
    <3>1. k \in 1 .. pos /\ k \in 1 .. Len(s)
      BY <1>1, <1>2, <2>1
    <3> QED
      BY <1>2, <1>3, <3>1 DEF Holdable
  <2>2. CASE k > pos /\ k <= pos + Len(q)
    <3>1. k - pos \in 1 .. Len(q) /\ pos + (k - pos) = k
      BY <1>1, <2>2
    <3>2. t[k] = q[k - pos]
      BY <1>2, <3>1
    <3> QED
      BY <1>3, <3>1, <3>2 DEF Holdable
  <2>3. CASE k > pos + Len(q)
    <3>1. k - Len(q) \in pos + 1 .. Len(s) /\ k - Len(q) \in 1 .. Len(s) /\ (k - Len(q)) + Len(q) = k
      BY <1>1, <1>2, <2>3
    <3>2. t[k] = s[k - Len(q)]
      BY <1>2, <3>1
    <3> QED
      BY <1>3, <3>1, <3>2 DEF Holdable
  <2> QED
    BY <1>1, <2>1, <2>2, <2>3
<1> QED
  BY <1>2, <1>3 DEF Holdable, t

(* The sequence q is in the slots of u from pos on, the others are w's.    *)
PutInto(u, w, pos, q) ==
  /\ SameVector(u, w) /\ ~ u.fault
  /\ \A i \in 0 .. w.cap - 1 :
       u.slot[i] = IF pos <= i /\ i < pos + Len(q) THEN q[(i - pos) + 1] ELSE w.slot[i]

(* What has been moved up for a sequence, and the sequence built there.    *)
LEMMA InsertedKeeps ==
  ASSUME NEW v, NEW s, Keeps(v, s), NEW q, Holdable(v.objects, q), NEW pos \in 0 .. v.size,
         v.size + Len(q) <= v.cap,
         NEW w, MovedUpSoFar(w, v, v.size - pos, Len(q)), NEW u, PutInto(u, w, pos, q)
  PROVE  /\ Keeps([u EXCEPT !.size = v.size + Len(q)], WithInserted(s, pos, q))
         /\ [u EXCEPT !.size = v.size + Len(q)].objects = v.objects
<1> DEFINE m == Len(q)
           n == v.size
           r == [u EXCEPT !.size = n + m]
           t == WithInserted(s, pos, q)
<1>1. /\ n = Len(s) /\ n \in Nat /\ s \in Seq(Elements) /\ v.cap \in Nat /\ Holdable(v.objects, s)
      /\ m \in Nat /\ q \in Seq(Elements) /\ pos \in Nat /\ pos <= n
  <2>1. n = Len(s) /\ n \in Nat /\ s \in Seq(Elements) /\ v.cap \in Nat /\ Holdable(v.objects, s)
    BY KeepsContent DEF Keeps
  <2>2. m \in Nat /\ q \in Seq(Elements)
    BY LenProperties DEF Holdable
  <2> QED
    BY <2>1, <2>2
<1>2. \A i \in 0 .. n - 1 : v.slot[i] = s[i + 1]
  BY KeptSlots
<1>3. /\ SameVector(w, v)
      /\ \A i \in 0 .. pos - 1 : w.slot[i] = v.slot[i]
      /\ \A i \in pos .. n - 1 : w.slot[i + m] = v.slot[i]
      /\ v.objects => \A i \in n + m .. v.cap - 1 : w.slot[i] = Raw
  <2>1. n - (n - pos) = pos /\ n - (n - pos) - 1 = pos - 1
    BY <1>1
  <2> QED
    BY <2>1 DEF MovedUpSoFar
<1>4. /\ Formed(u) /\ u.cap = v.cap /\ u.objects = v.objects /\ ~ u.fault
      /\ \A i \in 0 .. v.cap - 1 :
           u.slot[i] = IF pos <= i /\ i < pos + m THEN q[(i - pos) + 1] ELSE w.slot[i]
  <2>1. w.cap = v.cap /\ w.objects = v.objects
    BY <1>3 DEF SameVector
  <2> QED
    BY <2>1 DEF PutInto, SameVector
<1>5. Formed(r) /\ r.size = n + m /\ r.cap = v.cap /\ r.objects = v.objects /\ r.slot = u.slot /\ ~ r.fault
  <2>1. n + m \in Nat
    BY <1>1
  <2> QED
    BY <1>4, <2>1, SizedFacts
<1> HIDE DEF r
<1>6. /\ t \in Seq(Elements) /\ Len(t) = n + m
      /\ \A k \in 1 .. pos : t[k] = s[k]
      /\ \A k \in 1 .. m : t[pos + k] = q[k]
      /\ \A k \in pos + 1 .. n : t[k + m] = s[k]
  <2>1. pos \in 0 .. Len(s) /\ Holdable(v.objects, s)
    BY <1>1
  <2>2. /\ t \in Seq(Elements) /\ Len(t) = Len(s) + Len(q)
        /\ \A k \in 1 .. pos : t[k] = s[k]
        /\ \A k \in 1 .. Len(q) : t[pos + k] = q[k]
        /\ \A k \in pos + 1 .. Len(s) : t[k + Len(q)] = s[k]
    BY <2>1, InsertedHoldable, SMTT(30)
  <2> QED
    BY <1>1, <2>2
<1>7. Holdable(r.objects, t)
  <2>1. pos \in 0 .. Len(s)
    BY <1>1
  <2> QED
    BY <1>1, <1>5, <2>1, InsertedHoldable
<1> HIDE DEF t
<1>8. ASSUME NEW i \in 0 .. Len(t) - 1 PROVE r.slot[i] = t[i + 1]
  <2>0. i \in Nat /\ i < n + m /\ i \in 0 .. v.cap - 1
    BY <1>1, <1>6
  <2>1. CASE i < pos
    <3>1. i \in 0 .. pos - 1 /\ i \in 0 .. n - 1 /\ i + 1 \in 1 .. pos /\ ~ (pos <= i)
      BY <1>1, <2>0, <2>1
    <3> QED
      BY <1>2, <1>3, <1>4, <1>5, <1>6, <2>0, <3>1
  <2>2. CASE pos <= i /\ i < pos + m
    <3>1. (i - pos) + 1 \in 1 .. m /\ pos + ((i - pos) + 1) = i + 1
      BY <1>1, <2>0, <2>2
    <3>2. t[i + 1] = q[(i - pos) + 1]
      BY <1>6, <3>1
    <3> QED
      BY <1>4, <1>5, <2>0, <2>2, <3>2
  <2>3. CASE i >= pos + m
    <3>1. /\ i - m \in pos .. n - 1 /\ i - m \in 0 .. n - 1 /\ (i - m) + m = i /\ ~ (i < pos + m)
          /\ (i - m) + 1 \in pos + 1 .. n /\ ((i - m) + 1) + m = i + 1
      BY <1>1, <2>0, <2>3
    <3>2. w.slot[i] = v.slot[i - m] /\ v.slot[i - m] = s[(i - m) + 1] /\ t[i + 1] = s[(i - m) + 1]
      BY <1>2, <1>3, <1>6, <3>1
    <3> QED
      BY <1>4, <1>5, <2>0, <3>1, <3>2
  <2> QED
    BY <1>1, <2>0, <2>1, <2>2, <2>3
<1>9. ASSUME r.objects, NEW i \in Len(t) .. r.cap - 1 PROVE r.slot[i] = Raw
  <2>1. i \in n + m .. v.cap - 1 /\ i \in 0 .. v.cap - 1 /\ ~ (i < pos + m)
    BY <1>1, <1>5, <1>6
  <2> QED
    BY <1>3, <1>4, <1>5, <1>9, <2>1
<1>10. Keeps(r, t)
  BY <1>5, <1>6, <1>7, <1>8, <1>9 DEF Keeps
<1> QED
  BY <1>5, <1>10 DEF r, t

(* insert() of one element.                                                *)
LEMMA InsertKeeps ==
  ASSUME VectorAssumption, NEW v, NEW s, Keeps(v, s), NEW pos \in 0 .. v.size, NEW x \in Live
  PROVE  Keeps(Insert(v, pos, x), WithInserted(s, pos, <<x>>)) /\ Insert(v, pos, x).objects = v.objects
<1> DEFINE big == IF v.size = v.cap THEN Reserve(v, IF v.cap = 0 THEN 1 ELSE v.cap * 2) ELSE v
           w == MovedUp(big, pos, 1, TRUE)
           u == Build(w, pos, x)
           q == <<x>>
           r == [u EXCEPT !.size = big.size + Len(q)]
<1>1. v.size = Len(s) /\ v.size \in Nat /\ v.cap \in Nat /\ v.size <= v.cap
  BY KeepsContent
<1>2. Keeps(big, s) /\ big.cap >= v.size + 1 /\ big.objects = v.objects
  <2>1. CASE v.size = v.cap
    <3> DEFINE c == IF v.cap = 0 THEN 1 ELSE v.cap * 2
    <3>1. c \in Nat /\ c >= v.size + 1
      BY <1>1, <2>1
    <3> HIDE DEF c
    <3>2. Keeps(Reserve(v, c), s) /\ Reserve(v, c).cap >= c /\ Reserve(v, c).objects = v.objects
      BY <3>1, ReserveKeeps
    <3>3. Reserve(v, c).cap \in Nat
      BY <3>2 DEF Keeps, Formed
    <3>4. Reserve(v, c).cap >= v.size + 1
      BY <1>1, <3>1, <3>2, <3>3
    <3> QED
      BY <2>1, <3>2, <3>4 DEF c
  <2>2. CASE v.size # v.cap
    BY <1>1, <2>2
  <2> QED
    BY <2>1, <2>2
<1>3. Insert(v, pos, x) = [u EXCEPT !.size = @ + 1]
  BY DEF Insert
<1> HIDE DEF big
<1>4. big.size = v.size /\ big.cap \in Nat /\ Formed(big)
  BY <1>1, <1>2 DEF Keeps, Formed
<1>5. x \in Elements /\ HasValue(x)
  BY DEF VectorAssumption, Elements, HasValue
<1>6. q \in Seq(Elements) /\ Len(q) = 1 /\ q[1] = x /\ Holdable(big.objects, q)
  <2>1. q \in Seq(Elements) /\ Len(q) = 1 /\ q[1] = x
    BY <1>5
  <2>2. \A i \in 1 .. Len(q) : q[i] = x
    BY <2>1
  <2> HIDE DEF q
  <2> QED
    BY <1>5, <2>1, <2>2 DEF Holdable
<1> HIDE DEF q
<1>7. CanMoveUp(big, pos, 1, TRUE)
  BY <1>1, <1>2, <1>4 DEF CanMoveUp
<1>8. MovedUpSoFar(w, big, big.size - pos, 1)
  BY <1>2, <1>7, MovedUpFacts
<1> HIDE DEF w
<1>9. /\ SameVector(w, big) /\ Formed(w) /\ w.cap = big.cap /\ w.objects = big.objects /\ w.size = v.size /\ ~ w.fault
      /\ pos \in 0 .. w.cap - 1 /\ w.slot \in [0 .. big.cap - 1 -> Elements]
  <2>1. SameVector(w, big) /\ ~ w.fault
    BY <1>8 DEF MovedUpSoFar
  <2>2. Formed(w) /\ w.cap = big.cap /\ w.objects = big.objects /\ w.size = v.size
    BY <1>4, <2>1 DEF SameVector
  <2>3. pos \in 0 .. w.cap - 1
    BY <1>1, <1>2, <1>4, <2>2
  <2>4. w.slot \in [0 .. big.cap - 1 -> Elements]
    BY <2>2 DEF Formed
  <2> QED
    BY <2>1, <2>2, <2>3, <2>4
<1>10. big.objects => ~ HasValue(w.slot[pos])
  <2>1. big.size - (big.size - pos) = pos /\ pos \in pos .. pos + (1 - 1)
    BY <1>1, <1>4
  <2> HIDE DEF HasValue
  <2> QED
    BY <1>8, <2>1 DEF MovedUpSoFar
<1>11. /\ SameVector(u, w) /\ u.slot = [w.slot EXCEPT ![pos] = x]
       /\ u.fault = (w.fault \/ (w.objects /\ HasValue(w.slot[pos])))
  BY <1>5, <1>9, BuildFacts
<1> HIDE DEF u
<1>12. ~ u.fault /\ u.size = v.size /\ Formed(u)
  <2> HIDE DEF HasValue
  <2> QED
    BY <1>9, <1>10, <1>11 DEF SameVector
<1>13. ASSUME NEW i \in 0 .. big.cap - 1
       PROVE  u.slot[i] = IF pos <= i /\ i < pos + Len(q) THEN q[(i - pos) + 1] ELSE w.slot[i]
  <2>1. CASE i = pos
    <3>1. pos <= i /\ i < pos + Len(q) /\ (i - pos) + 1 = 1
      BY <1>1, <1>6, <2>1
    <3> QED
      BY <1>6, <1>9, <1>11, <2>1, <3>1
  <2>2. CASE i # pos
    <3>1. ~ (pos <= i /\ i < pos + Len(q))
      BY <1>1, <1>6, <2>2
    <3> QED
      BY <1>9, <1>11, <2>2, <3>1
  <2> QED
    BY <2>1, <2>2
<1>14. Keeps(r, WithInserted(s, pos, q)) /\ r.objects = big.objects
  <2>1. pos \in 0 .. big.size /\ big.size + Len(q) <= big.cap /\ MovedUpSoFar(w, big, big.size - pos, Len(q))
    BY <1>1, <1>2, <1>4, <1>6, <1>8
  <2>2. PutInto(u, w, pos, q)
    BY <1>9, <1>11, <1>12, <1>13 DEF PutInto
  <2>3. Keeps(big, s) /\ Holdable(big.objects, q)
    BY <1>2, <1>6
  <2> QED
    BY <2>1, <2>2, <2>3, InsertedKeeps DEF r
<1>15. Insert(v, pos, x) = r
  BY <1>3, <1>4, <1>6, <1>12 DEF Formed, Fields
<1> HIDE DEF r
<1> QED
  BY <1>2, <1>14, <1>15 DEF q

(* insert() of a range or a count.                                         *)
LEMMA InsertRangeKeeps ==
  ASSUME NEW v, NEW s, Keeps(v, s), NEW pos \in 0 .. v.size, NEW q, Holdable(v.objects, q),
         ~ v.objects \/ Len(q) > 0 \/ pos = v.size
  PROVE  Keeps(InsertRange(v, pos, q), WithInserted(s, pos, q)) /\ InsertRange(v, pos, q).objects = v.objects
<1> DEFINE t == WithInserted(s, pos, q)
           m == Len(q)
<1>1. /\ v.size = Len(s) /\ v.size \in Nat /\ v.cap \in Nat /\ v.size <= v.cap /\ v.objects \in BOOLEAN
      /\ Content(v) = s /\ Formed(v) /\ ~ v.fault /\ Holdable(v.objects, s) /\ pos \in 0 .. Len(s)
  BY KeepsContent DEF Keeps, Formed
<1>2. m \in Nat /\ q \in Seq(Elements)
  BY LenProperties DEF Holdable
<1>3. Holdable(v.objects, t) /\ t \in Seq(Elements) /\ Len(t) = v.size + m
  BY <1>1, InsertedHoldable
<1>4. CASE v.size + m > v.cap
  <2> DEFINE c == Larger(2 * v.cap, v.size + m)
             f == [i \in 0 .. c - 1 |-> IF i < Len(t) THEN t[i + 1] ELSE Raw]
             r == [v EXCEPT !.slot = f, !.cap = c, !.size = Len(t)]
  <2>1. InsertRange(v, pos, q) = r
    BY <1>1, <1>4 DEF InsertRange
  <2> HIDE DEF t, m
  <2>2. c \in Nat /\ c >= Len(t) /\ Len(t) \in Nat
    BY <1>1, <1>2, <1>3 DEF Larger
  <2> HIDE DEF c
  <2>3. ASSUME NEW i \in 0 .. c - 1 PROVE (IF i < Len(t) THEN t[i + 1] ELSE Raw) \in Elements
    <3>1. CASE i < Len(t)
      <4>1. i + 1 \in 1 .. Len(t)
        BY <2>2, <3>1
      <4> QED
        BY <1>3, <3>1, <4>1, ElementOfSeq
    <3>2. CASE ~ (i < Len(t))
      BY <3>2 DEF Elements
    <3> QED
      BY <3>1, <3>2
  <2>4. f \in [0 .. c - 1 -> Elements]
    BY <2>3
  <2>5. \A i \in 0 .. c - 1 : f[i] = IF i < Len(t) THEN t[i + 1] ELSE Raw
    OBVIOUS
  <2> HIDE DEF f
  <2>6. /\ Formed(r) /\ r.size = Len(t) /\ r.cap = c /\ r.slot = f /\ r.objects = v.objects /\ ~ r.fault
    BY <1>1, <2>2, <2>4 DEF Formed, Fields
  <2> HIDE DEF r
  <2>7. \A i \in 0 .. Len(t) - 1 : r.slot[i] = t[i + 1]
    BY <2>2, <2>5, <2>6
  <2>8. \A i \in Len(t) .. c - 1 : r.slot[i] = Raw
    BY <2>2, <2>5, <2>6
  <2>9. Keeps(r, t)
    BY <1>3, <2>2, <2>6, <2>7, <2>8 DEF Keeps
  <2> QED
    BY <2>1, <2>6, <2>9 DEF t
<1>5. CASE ~ (v.size + m > v.cap)
  <2> DEFINE w == MoveElementsBackward(v, pos, m)
             u == BuildAll(w, pos, q)
             r == [u EXCEPT !.size = v.size + m]
  <2>1. InsertRange(v, pos, q) = [u EXCEPT !.size = @ + m]
    BY <1>1, <1>5 DEF InsertRange
  <2>2. v.size + m <= v.cap
    BY <1>1, <1>2, <1>5
  <2>3. CanMoveUp(v, pos, m, FALSE)
    BY <1>1, <1>2, <2>2 DEF CanMoveUp
  <2> HIDE DEF m
  <2>4. MovedUpSoFar(w, v, v.size - pos, m)
    BY <2>3, MovedUpFacts DEF MoveElementsBackward
  <2> HIDE DEF w
  <2>5. SameVector(w, v) /\ ~ w.fault
    BY <2>4 DEF MovedUpSoFar
  <2>6. Formed(w) /\ w.cap = v.cap /\ w.objects = v.objects /\ w.size = v.size
    BY <2>5 DEF SameVector
  <2>7. pos \in Nat /\ pos + m <= w.cap
    BY <1>1, <1>2, <2>2, <2>6
  <2>8. /\ SameVector(u, w)
        /\ \A i \in 0 .. w.cap - 1 :
             u.slot[i] = IF pos <= i /\ i < pos + Len(q) THEN q[(i - pos) + 1] ELSE w.slot[i]
        /\ u.fault = (w.fault \/ (w.objects /\ \E i \in pos .. pos + Len(q) - 1 : HasValue(w.slot[i])))
    BY <1>2, <2>6, <2>7, BuildAllFacts DEF m
  <2>9. v.objects => \A i \in pos .. pos + m - 1 : ~ HasValue(w.slot[i])
    <3>1. v.size - (v.size - pos) = pos /\ pos + m - 1 = pos + (m - 1)
      BY <1>1, <1>2
    <3> HIDE DEF HasValue
    <3> QED
      BY <2>4, <3>1 DEF MovedUpSoFar
  <2> HIDE DEF u
  <2>10. ~ u.fault
    <3> HIDE DEF HasValue
    <3> QED
      BY <2>5, <2>6, <2>8, <2>9 DEF m
  <2>11. PutInto(u, w, pos, q)
    BY <2>8, <2>10 DEF PutInto
  <2>12. u.size = v.size /\ Formed(u)
    BY <2>6, <2>8 DEF SameVector
  <2>13. InsertRange(v, pos, q) = r
    BY <2>1, <2>12 DEF Formed, Fields
  <2>14. Keeps(r, t) /\ r.objects = v.objects
    <3>1. v.size + Len(q) <= v.cap /\ MovedUpSoFar(w, v, v.size - pos, Len(q))
      BY <2>2, <2>4 DEF m
    <3> QED
      BY <2>11, <3>1, InsertedKeeps DEF m
  <2> HIDE DEF r, t
  <2> QED
    BY <2>13, <2>14 DEF t
<1> QED
  BY <1>4, <1>5

-----------------------------------------------------------------------------
(* Elements moved down.                                                    *)

(* One step of the loop.                                                   *)
ShiftedDown(into, i, count) == MoveOut(Set(into, i, into.slot[i + count]), i + count)

(* w is v when n elements have been moved down to first: there are as many *)
(* slots behind them as are to be left over, in each of which is an object *)
(* still.                                                                  *)
MovedDownSoFar(w, v, first, count, n) ==
  /\ SameVector(w, v) /\ ~ w.fault
  /\ \A i \in 0 .. first - 1 : w.slot[i] = v.slot[i]
  /\ \A i \in first .. (first + n) - 1 : w.slot[i] = v.slot[i + count]
  /\ \A i \in (first + n) + count .. v.cap - 1 : w.slot[i] = v.slot[i]
  /\ v.objects => \A i \in first + n .. (first + n) + (count - 1) : w.slot[i] # Raw

(* Before the loop: in the slots to be left over are elements.             *)
LEMMA MovedDownStart ==
  ASSUME NEW v, NEW s, Keeps(v, s), NEW first \in Nat, NEW count \in Nat, first + count <= v.size
  PROVE  MovedDownSoFar(v, v, first, count, 0)
<1>1. Formed(v) /\ v.size \in Nat /\ v.cap \in Nat /\ ~ v.fault
  BY KeepsContent DEF Keeps, Formed
<1>2. v.objects => \A i \in 0 .. v.size - 1 : v.slot[i] # Raw
  BY KeptSlots
<1>3. /\ first + 0 = first
      /\ \A i \in first .. first - 1 : FALSE
      /\ \A i \in first .. first + (count - 1) : i \in 0 .. v.size - 1
  BY <1>1
<1> QED
  BY <1>1, <1>2, <1>3 DEF MovedDownSoFar, SameVector

(* One element more: it is assigned to an object that is there, and leaves *)
(* one behind.                                                             *)
LEMMA MovedDownStep ==
  ASSUME VectorAssumption, NEW v, NEW s, Keeps(v, s), NEW first \in Nat, NEW count \in Nat, count > 0,
         NEW n \in Nat, (first + n) + count < v.size, NEW w, MovedDownSoFar(w, v, first, count, n)
  PROVE  MovedDownSoFar(ShiftedDown(w, first + n, count), v, first, count, n + 1)
<1> DEFINE k == first + n
           x == w.slot[k + count]
           b == Set(w, k, x)
           r == ShiftedDown(w, k, count)
<1>1. v.size \in Nat /\ v.cap \in Nat /\ v.size <= v.cap /\ v.objects \in BOOLEAN
  BY KeepsContent DEF Keeps, Formed
<1>2. /\ k \in Nat /\ k \in 0 .. v.cap - 1 /\ k + count \in 0 .. v.cap - 1
      /\ first + (n + 1) = k + 1 /\ k + count \in k + count .. v.cap - 1
      /\ k \in k .. k + (count - 1) /\ k + count \in 0 .. v.size - 1
  BY <1>1
<1>3. /\ Formed(w) /\ w.size = v.size /\ w.cap = v.cap /\ w.objects = v.objects /\ ~ w.fault
      /\ \A i \in 0 .. first - 1 : w.slot[i] = v.slot[i]
      /\ \A i \in first .. k - 1 : w.slot[i] = v.slot[i + count]
      /\ \A i \in k + count .. v.cap - 1 : w.slot[i] = v.slot[i]
      /\ v.objects => \A i \in k .. k + (count - 1) : w.slot[i] # Raw
  BY DEF MovedDownSoFar, SameVector
<1>4. x = v.slot[k + count] /\ x \in Elements /\ (v.objects => x # Raw)
  <2>1. /\ \A i \in 0 .. v.size - 1 : v.slot[i] \in Elements
        /\ v.objects => \A i \in 0 .. v.size - 1 : v.slot[i] # Raw
    BY KeptSlots
  <2>2. x = v.slot[k + count]
    BY <1>2, <1>3
  <2> HIDE DEF x, k
  <2> QED
    BY <1>2, <2>1, <2>2
<1> HIDE DEF x, k
<1>5. /\ SameVector(b, w) /\ b.slot = [w.slot EXCEPT ![k] = x]
      /\ b.fault = (w.fault \/ (w.objects /\ w.slot[k] = Raw))
  BY <1>2, <1>3, <1>4, SetFacts
<1>6. ~ b.fault
  BY <1>2, <1>3, <1>5
<1> HIDE DEF b
<1>7. Formed(b) /\ b.cap = v.cap /\ b.size = v.size /\ b.objects = v.objects
  BY <1>3, <1>5 DEF SameVector
<1>8. r = MoveOut(b, k + count)
  BY DEF ShiftedDown, b, x
<1>9. /\ SameVector(r, b) /\ r.fault = b.fault
      /\ r.slot = IF v.objects THEN [b.slot EXCEPT ![k + count] = Gone] ELSE b.slot
  BY <1>2, <1>7, <1>8, MoveOutFacts
<1> HIDE DEF r
<1>10. SameVector(r, v) /\ ~ r.fault
  BY <1>6, <1>7, <1>9 DEF SameVector
<1>11. DOMAIN w.slot = 0 .. v.cap - 1
  BY <1>3 DEF Formed
<1>12. ASSUME NEW i \in 0 .. v.cap - 1
       PROVE  r.slot[i] = IF i = k THEN x ELSE IF v.objects /\ i = k + count THEN Gone ELSE w.slot[i]
  <2>1. k # k + count
    BY <1>2
  <2>2. b.slot[i] = IF i = k THEN x ELSE w.slot[i]
    BY <1>5, <1>11
  <2>3. DOMAIN b.slot = 0 .. v.cap - 1
    BY <1>5, <1>11
  <2> QED
    BY <1>9, <2>1, <2>2, <2>3
<1>13. ASSUME NEW i \in 0 .. first - 1 PROVE r.slot[i] = v.slot[i]
  <2>1. i \in 0 .. v.cap - 1 /\ i # k /\ i # k + count
    BY <1>1, <1>2 DEF k
  <2> QED
    BY <1>3, <1>12, <2>1
<1>14. ASSUME NEW i \in first .. (k + 1) - 1 PROVE r.slot[i] = v.slot[i + count]
  <2>1. i \in 0 .. v.cap - 1 /\ i # k + count
    BY <1>1, <1>2
  <2>2. CASE i = k
    BY <1>4, <1>12, <2>1, <2>2
  <2>3. CASE i # k
    <3>1. i \in first .. k - 1
      BY <1>2, <2>3
    <3> QED
      BY <1>3, <1>12, <2>1, <2>3, <3>1
  <2> QED
    BY <2>2, <2>3
<1>15. ASSUME NEW i \in (k + 1) + count .. v.cap - 1 PROVE r.slot[i] = v.slot[i]
  <2>1. i \in 0 .. v.cap - 1 /\ i # k /\ i # k + count /\ i \in k + count .. v.cap - 1
    BY <1>1, <1>2
  <2> QED
    BY <1>3, <1>12, <2>1
<1>16. ASSUME v.objects, NEW i \in k + 1 .. (k + 1) + (count - 1) PROVE r.slot[i] # Raw
  <2>1. i \in 0 .. v.cap - 1 /\ i # k
    BY <1>1, <1>2
  <2>2. CASE i = k + count
    BY <1>12, <1>16, <2>1, <2>2 DEF VectorAssumption
  <2>3. CASE i # k + count
    <3>1. i \in k .. k + (count - 1)
      BY <1>2, <2>3
    <3> QED
      BY <1>3, <1>12, <1>16, <2>1, <2>3, <3>1
  <2> QED
    BY <2>2, <2>3
<1>17. MovedDownSoFar(r, v, first, count, n + 1)
  BY <1>2, <1>10, <1>13, <1>14, <1>15, <1>16 DEF MovedDownSoFar
<1> QED
  BY <1>17 DEF r, k

(* The whole loop, by induction over the elements it has moved.            *)
LEMMA MovedDownFacts ==
  ASSUME VectorAssumption, NEW v, NEW s, Keeps(v, s), NEW first \in Nat, NEW count \in Nat, count > 0,
         first + count <= v.size
  PROVE  MovedDownSoFar(MovedDown(v, first, count), v, first, count, v.size - count - first)
<1> DEFINE Next(w, n) == ShiftedDown(w, first + n - 1, count)
           Done(g, n) == g = [k \in 0 .. n |-> IF k = 0 THEN v ELSE Next(g[k - 1], k)]
           S == {n \in Nat : \E g : Done(g, n)}
           m == v.size - count - first
<1>0. v.size \in Nat /\ m \in Nat /\ MovedDownSoFar(v, v, first, count, 0)
  <2>1. v.size \in Nat
    BY KeepsContent
  <2>2. MovedDownSoFar(v, v, first, count, 0)
    BY MovedDownStart
  <2> QED
    BY <2>1, <2>2
<1> HIDE DEF Next, m
<1>1. 0 \in S
  <2>1. Done([k \in 0 .. 0 |-> v], 0)
    OBVIOUS
  <2> QED
    BY <2>1
<1>2. ASSUME NEW n \in S PROVE n + 1 \in S
  <2>1. PICK g : Done(g, n)
    OBVIOUS
  <2> DEFINE h == [k \in 0 .. n + 1 |-> IF k <= n THEN g[k] ELSE Next(g[n], n + 1)]
  <2>2. n \in Nat /\ n + 1 \in Nat
    OBVIOUS
  <2>3. ASSUME NEW k \in 0 .. n + 1 PROVE h[k] = IF k = 0 THEN v ELSE Next(h[k - 1], k)
    <3>1. CASE k <= n
      <4>1. k \in 0 .. n /\ h[k] = g[k] /\ (k # 0 => k - 1 \in 0 .. n + 1 /\ k - 1 <= n)
        BY <2>2, <3>1
      <4>2. k # 0 => h[k - 1] = g[k - 1]
        BY <4>1
      <4>3. g[k] = IF k = 0 THEN v ELSE Next(g[k - 1], k)
        BY <2>1, <4>1
      <4> HIDE DEF h, Done
      <4> QED
        BY <4>1, <4>2, <4>3
    <3>2. CASE k = n + 1
      <4>1. ~ (k <= n) /\ k # 0 /\ k - 1 = n /\ n \in 0 .. n + 1 /\ n <= n
        BY <2>2, <3>2
      <4>2. h[k] = Next(g[n], n + 1) /\ h[n] = g[n]
        BY <2>2, <4>1
      <4> HIDE DEF h, Done
      <4> QED
        BY <3>2, <4>1, <4>2
    <3> QED
      BY <2>2, <3>1, <3>2
  <2>4. Done(h, n + 1)
    <3>1. h = [k \in 0 .. n + 1 |-> h[k]]
      OBVIOUS
    <3> HIDE DEF h
    <3>2. [k \in 0 .. n + 1 |-> h[k]] = [k \in 0 .. n + 1 |-> IF k = 0 THEN v ELSE Next(h[k - 1], k)]
      BY <2>3
    <3> QED
      BY <3>1, <3>2
  <2> HIDE DEF h, Done
  <2> QED
    BY <2>2, <2>4
<1>3. \E g : Done(g, m)
  <2> HIDE DEF Done
  <2>1. S \in SUBSET Nat
    OBVIOUS
  <2> HIDE DEF S
  <2>2. S = Nat
    BY <1>1, <1>2, <2>1, Induction
  <2> USE DEF S
  <2> QED
    BY <1>0, <2>2
<1> DEFINE done == CHOOSE g : Done(g, m)
<1>4. Done(done, m)
  <2> HIDE DEF Done
  <2> QED
    BY <1>3
<1>5. MovedDown(v, first, count) = done[m]
  BY DEF MovedDown, Next, ShiftedDown, m
<1> HIDE DEF done
<1>6. /\ done[0] = v
      /\ \A k \in 1 .. m : done[k] = Next(done[k - 1], k)
  BY <1>0, <1>4
<1> DEFINE Kept == {n \in Nat : n <= m => MovedDownSoFar(done[n], v, first, count, n)}
<1>7. 0 \in Kept
  BY <1>0, <1>6
<1>8. ASSUME NEW n \in Kept PROVE n + 1 \in Kept
  <2> SUFFICES ASSUME n + 1 <= m PROVE MovedDownSoFar(done[n + 1], v, first, count, n + 1)
    OBVIOUS
  <2>1. n \in Nat /\ n <= m /\ n < m /\ n + 1 \in 1 .. m /\ (n + 1) - 1 = n
    BY <1>0
  <2>2. MovedDownSoFar(done[n], v, first, count, n)
    BY <2>1
  <2>3. done[n + 1] = ShiftedDown(done[n], first + n, count)
    <3>1. first + (n + 1) - 1 = first + n
      BY <2>1
    <3> QED
      BY <1>6, <2>1, <3>1 DEF Next
  <2>4. (first + n) + count < v.size
    BY <1>0, <2>1 DEF m
  <2>5. MovedDownSoFar(ShiftedDown(done[n], first + n, count), v, first, count, n + 1)
    BY <2>1, <2>2, <2>4, MovedDownStep
  <2> QED
    BY <2>3, <2>5
<1>9. MovedDownSoFar(done[m], v, first, count, m)
  <2>1. Kept \in SUBSET Nat
    OBVIOUS
  <2> HIDE DEF Kept
  <2>2. Kept = Nat
    BY <1>7, <1>8, <2>1, Induction
  <2> USE DEF Kept
  <2> QED
    BY <1>0, <2>2
<1> QED
  BY <1>5, <1>9 DEF m

(* What can be held without a part of it.                                  *)
LEMMA WithoutHoldable ==
  ASSUME NEW objects, NEW s, Holdable(objects, s), NEW i \in 0 .. Len(s), NEW j \in i .. Len(s)
  PROVE  /\ Holdable(objects, WithoutPart(s, i, j))
         /\ WithoutPart(s, i, j) \in Seq(Elements) /\ Len(WithoutPart(s, i, j)) = Len(s) - (j - i)
         /\ \A k \in 1 .. i : WithoutPart(s, i, j)[k] = s[k]
         /\ \A k \in j + 1 .. Len(s) : WithoutPart(s, i, j)[k - (j - i)] = s[k]
<1> DEFINE t == WithoutPart(s, i, j)
<1>1. s \in Seq(Elements)
  BY DEF Holdable
<1>2. /\ t \in Seq(Elements) /\ Len(t) = Len(s) - (j - i)
      /\ \A k \in 1 .. i : t[k] = s[k]
      /\ \A k \in j + 1 .. Len(s) : t[k - (j - i)] = s[k]
  BY <1>1, WithoutPartFacts
<1> HIDE DEF t
<1>3. Len(s) \in Nat /\ Len(t) \in Nat /\ i \in Nat /\ j \in Nat /\ i <= j /\ j <= Len(s)
  BY <1>1, <1>2, LenProperties
<1>4. ASSUME objects, NEW k \in 1 .. Len(t) PROVE HasValue(t[k])
  <2>1. CASE k <= i
    <3>1. k \in 1 .. i /\ k \in 1 .. Len(s)
      BY <1>3, <2>1
    <3> QED
      BY <1>2, <1>4, <3>1 DEF Holdable
  <2>2. CASE k > i
    <3>1. k + (j - i) \in j + 1 .. Len(s) /\ k + (j - i) \in 1 .. Len(s) /\ (k + (j - i)) - (j - i) = k
      BY <1>2, <1>3, <2>2
    <3>2. t[k] = s[k + (j - i)]
      BY <1>2, <3>1
    <3> QED
      BY <1>4, <3>1, <3>2 DEF Holdable
  <2> QED
    BY <1>3, <2>1, <2>2
<1> QED
  BY <1>2, <1>4 DEF Holdable, t

(* erase(): what is left over is destroyed, and there is an object in it.  *)
LEMMA EraseKeeps ==
  ASSUME VectorAssumption, NEW v, NEW s, Keeps(v, s), NEW first \in Nat, NEW last \in Nat,
         first < last, last <= v.size
  PROVE  Keeps(Erase(v, first, last), WithoutPart(s, first, last)) /\ Erase(v, first, last).objects = v.objects
<1> DEFINE c == last - first
           n == v.size
           w == MovedDown(v, first, c)
           u == DestroyAll(w, n - c, n)
           r == [u EXCEPT !.size = n - c]
           t == WithoutPart(s, first, last)
<1>1. /\ n = Len(s) /\ n \in Nat /\ v.cap \in Nat /\ n <= v.cap /\ v.objects \in BOOLEAN
      /\ Formed(v) /\ ~ v.fault /\ Holdable(v.objects, s)
  BY KeepsContent DEF Keeps, Formed
<1>2. /\ c \in Nat /\ c > 0 /\ first + c <= n /\ n - c \in Nat /\ n - c <= n
      /\ first + (n - c - first) = n - c /\ (n - c) + (c - 1) = n - 1 /\ (n - c) + c = n /\ first <= n - c
  BY <1>1
<1>3. Erase(v, first, last) = [u EXCEPT !.size = @ - c]
  BY DEF Erase
<1>4. first \in 0 .. Len(s) /\ last \in first .. Len(s)
  BY <1>1
<1>5. /\ Holdable(v.objects, t) /\ t \in Seq(Elements) /\ Len(t) = n - c
      /\ \A k \in 1 .. first : t[k] = s[k]
      /\ \A k \in last + 1 .. n : t[k - c] = s[k]
  <2>1. Holdable(v.objects, s)
    BY <1>1
  <2> HIDE DEF n, c, t, Holdable
  <2>2. /\ Holdable(v.objects, WithoutPart(s, first, last))
        /\ WithoutPart(s, first, last) \in Seq(Elements)
        /\ Len(WithoutPart(s, first, last)) = Len(s) - (last - first)
        /\ \A k \in 1 .. first : WithoutPart(s, first, last)[k] = s[k]
        /\ \A k \in last + 1 .. Len(s) : WithoutPart(s, first, last)[k - (last - first)] = s[k]
    <3>1. Holdable(v.objects, WithoutPart(s, first, last)) /\ WithoutPart(s, first, last) \in Seq(Elements)
      BY <1>4, <2>1, WithoutHoldable
    <3>2. Len(WithoutPart(s, first, last)) = Len(s) - (last - first)
      BY <1>4, <2>1, WithoutHoldable
    <3>3. \A k \in 1 .. first : WithoutPart(s, first, last)[k] = s[k]
      BY <1>4, <2>1, WithoutHoldable
    <3>4. \A k \in last + 1 .. Len(s) : WithoutPart(s, first, last)[k - (last - first)] = s[k]
      BY <1>4, <2>1, WithoutHoldable
    <3> QED
      BY <3>1, <3>2, <3>3, <3>4
  <2> USE DEF n, c, t
  <2> QED
    BY <1>1, <2>2
<1> HIDE DEF c, t
<1>6. MovedDownSoFar(w, v, first, c, n - c - first)
  BY <1>2, MovedDownFacts
<1> HIDE DEF w
<1>7. /\ SameVector(w, v) /\ ~ w.fault
      /\ \A i \in 0 .. first - 1 : w.slot[i] = v.slot[i]
      /\ \A i \in first .. (n - c) - 1 : w.slot[i] = v.slot[i + c]
      /\ \A i \in n .. v.cap - 1 : w.slot[i] = v.slot[i]
      /\ v.objects => \A i \in n - c .. n - 1 : w.slot[i] # Raw
  <2> DEFINE d == n - c - first
  <2>1. first + d = n - c /\ (first + d) + c = n /\ (first + d) + (c - 1) = n - 1
    BY <1>2
  <2>2. MovedDownSoFar(w, v, first, c, d)
    BY <1>6
  <2> HIDE DEF d
  <2> QED
    BY <2>1, <2>2 DEF MovedDownSoFar
<1>8. Formed(w) /\ w.cap = v.cap /\ w.objects = v.objects /\ w.size = n
  BY <1>7 DEF SameVector
<1>9. /\ SameVector(u, w)
      /\ \A i \in 0 .. w.cap - 1 : u.slot[i] = IF n - c <= i /\ i < n THEN Raw ELSE w.slot[i]
      /\ u.fault = (w.fault \/ (w.objects /\ \E i \in n - c .. n - 1 : w.slot[i] = Raw))
  <2> DEFINE lo == n - c
  <2>1. lo \in Nat /\ n \in Nat /\ n <= w.cap /\ Formed(w)
    BY <1>1, <1>2, <1>8
  <2>2. u = DestroyAll(w, lo, n)
    OBVIOUS
  <2> HIDE DEF u, n, lo
  <2>3. /\ SameVector(u, w)
        /\ \A i \in 0 .. w.cap - 1 : u.slot[i] = IF lo <= i /\ i < n THEN Raw ELSE w.slot[i]
        /\ u.fault = (w.fault \/ (w.objects /\ \E i \in lo .. n - 1 : w.slot[i] = Raw))
    <3> DEFINE a == DestroyAll(w, lo, n)
    <3>1. SameVector(a, w)
      BY <2>1, DestroyAllFacts
    <3>2. \A i \in 0 .. w.cap - 1 : a.slot[i] = IF lo <= i /\ i < n THEN Raw ELSE w.slot[i]
      BY <2>1, DestroyAllFacts
    <3>3. a.fault = (w.fault \/ (w.objects /\ \E i \in lo .. n - 1 : w.slot[i] = Raw))
      BY <2>1, DestroyAllFacts
    <3> HIDE DEF a
    <3>4. u = a
      BY <2>2 DEF a
    <3> QED
      BY <3>1, <3>2, <3>3, <3>4
  <2> QED
    BY <2>3 DEF lo
<1> HIDE DEF u
<1>10. ~ u.fault /\ Formed(u) /\ u.size = n /\ u.cap = v.cap /\ u.objects = v.objects
  BY <1>7, <1>8, <1>9 DEF SameVector
<1>11. Erase(v, first, last) = r
  BY <1>3, <1>10 DEF Formed, Fields
<1>12. /\ Formed(r) /\ r.size = n - c /\ r.cap = v.cap /\ r.objects = v.objects /\ r.slot = u.slot /\ ~ r.fault
  BY <1>2, <1>10, SizedFacts
<1> HIDE DEF r
<1>13. \A i \in 0 .. n - 1 : v.slot[i] = s[i + 1]
  BY KeptSlots
<1>14. ASSUME NEW i \in 0 .. Len(t) - 1 PROVE r.slot[i] = t[i + 1]
  <2>1. i \in Nat /\ i < n - c /\ i \in 0 .. v.cap - 1 /\ ~ (n - c <= i)
    BY <1>1, <1>2, <1>5
  <2>2. r.slot[i] = w.slot[i]
    BY <1>8, <1>9, <1>12, <2>1
  <2>3. CASE i < first
    <3>1. i \in 0 .. first - 1 /\ i \in 0 .. n - 1 /\ i + 1 \in 1 .. first
      BY <1>2, <2>1, <2>3
    <3> QED
      BY <1>5, <1>7, <1>13, <2>2, <3>1
  <2>4. CASE ~ (i < first)
    <3>1. /\ i \in first .. (n - c) - 1 /\ i + c \in 0 .. n - 1
          /\ (i + c) + 1 \in last + 1 .. n /\ ((i + c) + 1) - c = i + 1
      BY <1>1, <1>2, <2>1, <2>4 DEF c
    <3>2. w.slot[i] = v.slot[i + c] /\ v.slot[i + c] = s[(i + c) + 1]
      BY <1>7, <1>13, <3>1
    <3>3. t[((i + c) + 1) - c] = s[(i + c) + 1]
      BY <1>5, <3>1
    <3> QED
      BY <2>2, <3>1, <3>2, <3>3
  <2> QED
    BY <2>3, <2>4
<1>15. ASSUME v.objects, NEW i \in Len(t) .. v.cap - 1 PROVE r.slot[i] = Raw
  <2>1. i \in 0 .. v.cap - 1 /\ n - c <= i
    BY <1>1, <1>2, <1>5
  <2>2. CASE i < n
    BY <1>8, <1>9, <1>12, <2>1, <2>2
  <2>3. CASE ~ (i < n)
    <3>1. i \in n .. v.cap - 1
      BY <1>1, <2>1, <2>3
    <3>2. v.slot[i] = Raw
      BY <1>15, <3>1, KeptSlots
    <3> QED
      BY <1>7, <1>8, <1>9, <1>12, <2>1, <2>3, <3>1, <3>2
  <2> QED
    BY <2>2, <2>3
<1>16. Len(t) \in Nat /\ Len(t) <= v.cap
  BY <1>1, <1>2, <1>5
<1>17. Keeps(r, t)
  BY <1>5, <1>12, <1>14, <1>15, <1>16 DEF Keeps
<1> QED
  BY <1>11, <1>12, <1>17 DEF t

-----------------------------------------------------------------------------
(* The steps of the client.                                                *)

(* What a client gives can be held.                                        *)
LEMMA GivenHoldable ==
  ASSUME VectorAssumption, NEW objects \in BOOLEAN
  PROVE  /\ \A q \in Ranges : Holdable(objects, q)
         /\ \A x \in Values, n \in Nat : Holdable(objects, Repeated(n, x)) /\ Len(Repeated(n, x)) = n
<1>1. \A x \in Values : x \in Elements /\ HasValue(x)
  BY DEF VectorAssumption, Elements, Live, HasValue
<1>2. ASSUME NEW q \in Ranges PROVE Holdable(objects, q)
  <2>1. q \in Seq(Values)
    BY DEF VectorAssumption
  <2>2. \A i \in 1 .. Len(q) : q[i] \in Values
    BY <2>1, ElementOfSeq
  <2>3. q \in Seq(Elements)
    <3>1. Len(q) \in Nat /\ q = [i \in 1 .. Len(q) |-> q[i]]
      BY <2>1
    <3>2. \A i \in 1 .. Len(q) : q[i] \in Elements
      BY <1>1, <2>2
    <3> QED
      BY <3>1, <3>2, IsASeq
  <2> QED
    BY <1>1, <2>2, <2>3 DEF Holdable
<1>3. ASSUME NEW x \in Values, NEW n \in Nat
      PROVE  Holdable(objects, Repeated(n, x)) /\ Len(Repeated(n, x)) = n
  <2>1. n \in Int /\ x \in Elements /\ HasValue(x)
    BY <1>1
  <2>2. /\ Repeated(n, x) \in Seq(Elements) /\ Len(Repeated(n, x)) = IF n > 0 THEN n ELSE 0
        /\ \A i \in 1 .. n : Repeated(n, x)[i] = x
    BY <2>1, RepeatedFacts
  <2>3. Len(Repeated(n, x)) = n
    BY <2>2
  <2> HIDE DEF HasValue
  <2> QED
    BY <2>1, <2>2, <2>3 DEF Holdable
<1> QED
  BY <1>2, <1>3

(* Both vectors keep what they hold.                                       *)
LEMMA InvKeeps ==
  ASSUME VectorsInv
  PROVE  /\ Keeps(vec, Content(vec)) /\ Keeps(vec_other, Content(vec_other))
         /\ vec.objects = vec_other.objects /\ vec.objects \in BOOLEAN
         /\ vec.size = Len(Content(vec)) /\ vec.size \in Nat /\ vec.cap \in Nat
<1>1. Formed(vec) /\ Formed(vec_other) /\ vec.objects = vec_other.objects /\ Alive(vec) /\ Alive(vec_other)
  BY DEF VectorsInv, VectorElementsAlive
<1>2. Keeps(vec, Content(vec)) /\ Keeps(vec_other, Content(vec_other))
  BY <1>1, AliveKeeps
<1>3. vec.size = Len(Content(vec)) /\ vec.size \in Nat /\ vec.cap \in Nat
  BY <1>2, KeepsContent
<1> QED
  BY <1>1, <1>2, <1>3 DEF Formed

(* A step to vectors that keep sequences keeps the invariant.              *)
LEMMA GivesKeeps ==
  ASSUME NEW v, NEW s, Keeps(v, s), NEW o, NEW t, Keeps(o, t), v.objects = o.objects,
         vec' = v, vec_other' = o
  PROVE  VectorsInv'
<1>1. Formed(v) /\ Alive(v) /\ Formed(o) /\ Alive(o)
  BY KeepsContent
<1>2. /\ Formed(vec') /\ Alive(vec') /\ Formed(vec_other') /\ Alive(vec_other')
      /\ vec'.objects = vec_other'.objects
  BY <1>1
<1> QED
  BY <1>2 DEF VectorsInv, VectorElementsAlive, Formed, Alive

(* The same for a step of the first vector.                                *)
LEMMA BecomesKeeps ==
  ASSUME VectorsInv, NEW v, NEW s, Keeps(v, s), v.objects = vec.objects, Becomes(v)
  PROVE  VectorsInv'
<1>1. Keeps(vec_other, Content(vec_other)) /\ v.objects = vec_other.objects
  BY InvKeeps
<1>2. vec' = v /\ vec_other' = vec_other
  BY DEF Becomes
<1> QED
  BY <1>1, <1>2, GivesKeeps

(* Two new vectors of objects or of plain elements.                        *)
LEMMA VectorsInvInit == VectorInit => VectorsInv
<1> SUFFICES ASSUME VectorInit PROVE VectorsInv
  OBVIOUS
<1>1. PICK objects \in BOOLEAN : vec = NoVector(objects) /\ vec_other = NoVector(objects)
  BY DEF VectorInit
<1>2. Keeps(vec, <<>>) /\ Keeps(vec_other, <<>>)
  BY <1>1, NoVectorKeeps
<1>3. Formed(vec) /\ Alive(vec) /\ Formed(vec_other) /\ Alive(vec_other)
  BY <1>2, KeepsContent
<1> QED
  BY <1>1, <1>3 DEF VectorsInv, VectorElementsAlive

(* Every call keeps the invariant.                                         *)
LEMMA VectorsInvStep ==
  ASSUME VectorAssumption, VectorsInv, [VectorStep]_vector_vars
  PROVE  VectorsInv'
<1> DEFINE s == Content(vec)
           t == Content(vec_other)
           objects == vec.objects
<1>1. /\ Keeps(vec, s) /\ Keeps(vec_other, t) /\ objects = vec_other.objects /\ objects \in BOOLEAN
      /\ vec.size = Len(s) /\ vec.size \in Nat /\ vec.cap \in Nat
  BY InvKeeps
<1>2. /\ \A q \in Ranges : Holdable(objects, q)
      /\ \A x \in Values, n \in Nat : Holdable(objects, Repeated(n, x)) /\ Len(Repeated(n, x)) = n
  BY <1>1, GivenHoldable
<1>3. /\ \A x \in Values : x \in Live
      /\ \A n \in 0 .. MaxSize : n \in Nat
      /\ \A n \in Sizes : n \in Nat
      /\ \A q \in Ranges : Len(q) \in Nat
  <2>1. \A q \in Ranges : q \in Seq(Values)
    BY DEF VectorAssumption
  <2> QED
    BY <2>1, LenProperties DEF VectorAssumption, Live
<1> HIDE DEF s, t
<1>4. ASSUME NEW x \in Values, Push(x) PROVE VectorsInv'
  <2>1. Keeps(PushBack(vec, x), Append(s, x)) /\ PushBack(vec, x).objects = vec.objects
    BY <1>1, <1>3, PushBackKeeps
  <2> QED
    BY <1>4, <2>1, BecomesKeeps DEF Push
<1>5. ASSUME NEW pos \in 0 .. MaxSize, NEW x \in Values, InsertOne(pos, x) PROVE VectorsInv'
  <2>1. pos \in 0 .. vec.size /\ x \in Live
    BY <1>1, <1>3, <1>5 DEF InsertOne
  <2>2. /\ Keeps(Insert(vec, pos, x), WithInserted(s, pos, <<x>>))
        /\ Insert(vec, pos, x).objects = vec.objects
    BY <1>1, <2>1, InsertKeeps
  <2> QED
    BY <1>5, <2>2, BecomesKeeps DEF InsertOne
<1>6. ASSUME NEW pos \in 0 .. MaxSize, NEW x \in Values, InsertSame(pos, 2, x) PROVE VectorsInv'
  <2> DEFINE q == Repeated(2, x)
  <2>1. pos \in 0 .. vec.size
    BY <1>1, <1>3, <1>6 DEF InsertSame
  <2>2. Holdable(vec.objects, q) /\ Len(q) > 0
    BY <1>2
  <2> HIDE DEF q
  <2>3. /\ Keeps(InsertRange(vec, pos, q), WithInserted(s, pos, q))
        /\ InsertRange(vec, pos, q).objects = vec.objects
    BY <1>1, <2>1, <2>2, InsertRangeKeeps
  <2>4. Becomes(InsertRange(vec, pos, q))
    BY <1>6 DEF InsertSame, InsertCount, q
  <2> QED
    BY <2>3, <2>4, BecomesKeeps
<1>7. ASSUME NEW pos \in 0 .. MaxSize, NEW q \in Ranges, InsertMany(pos, q) PROVE VectorsInv'
  <2>1. /\ pos \in 0 .. vec.size /\ Holdable(vec.objects, q)
        /\ ~ vec.objects \/ Len(q) > 0 \/ pos = vec.size
    BY <1>1, <1>2, <1>3, <1>7 DEF InsertMany, Insertable
  <2>2. /\ Keeps(InsertRange(vec, pos, q), WithInserted(s, pos, q))
        /\ InsertRange(vec, pos, q).objects = vec.objects
    BY <1>1, <2>1, InsertRangeKeeps
  <2> QED
    BY <1>7, <2>2, BecomesKeeps DEF InsertMany
<1>8. ASSUME NEW first \in 0 .. MaxSize, NEW last \in 0 .. MaxSize, EraseMany(first, last) PROVE VectorsInv'
  <2>1. first \in Nat /\ last \in Nat /\ first < last /\ last <= vec.size
    BY <1>3, <1>8 DEF EraseMany
  <2>2. /\ Keeps(Erase(vec, first, last), WithoutPart(s, first, last))
        /\ Erase(vec, first, last).objects = vec.objects
    BY <1>1, <2>1, EraseKeeps
  <2> QED
    BY <1>8, <2>2, BecomesKeeps DEF EraseMany
<1>9. ASSUME NEW n \in Sizes, ResizeTo(n) PROVE VectorsInv'
  <2>1. /\ Keeps(Resize(vec, n), Resized(s, n, Filling(vec.objects)))
        /\ Resize(vec, n).objects = vec.objects
    BY <1>1, <1>3, ResizeKeeps
  <2> QED
    BY <1>9, <2>1, BecomesKeeps DEF ResizeTo
<1>10. ASSUME NEW n \in Sizes, ReserveFor(n) PROVE VectorsInv'
  <2>1. Keeps(Reserve(vec, n), s) /\ Reserve(vec, n).objects = vec.objects
    BY <1>1, <1>3, ReserveKeeps
  <2> QED
    BY <1>10, <2>1, BecomesKeeps DEF ReserveFor
<1>11. ASSUME NEW n \in Sizes, NEW x \in Values, AssignSame(n, x) PROVE VectorsInv'
  <2> DEFINE q == Repeated(n, x)
  <2>1. Holdable(vec.objects, q) /\ Len(q) = n /\ n \in Nat
    BY <1>2, <1>3
  <2> HIDE DEF q
  <2>2. ~ vec.objects \/ Len(q) > vec.cap \/ Len(q) = vec.size
    BY <1>1, <1>11, <2>1 DEF AssignSame, Replaceable
  <2>3. Keeps(AssignList(vec, q), q) /\ AssignList(vec, q).objects = vec.objects
    BY <1>1, <2>1, <2>2, AssignListKeeps
  <2>4. Becomes(AssignList(vec, q))
    BY <1>11 DEF AssignSame, AssignCount, q
  <2> QED
    BY <2>3, <2>4, BecomesKeeps
<1>12. ASSUME NEW q \in Ranges, AssignMany(q) PROVE VectorsInv'
  <2>1. Holdable(vec.objects, q) /\ Len(q) \in Nat
    BY <1>2, <1>3
  <2>2. CASE Replaceable(Len(q), vec.size) /\ Becomes(AssignRange(vec, q))
    <3>1. ~ vec.objects \/ Len(q) > vec.cap \/ Len(q) <= vec.size
      BY <2>2 DEF Replaceable
    <3>2. Keeps(AssignRange(vec, q), q) /\ AssignRange(vec, q).objects = vec.objects
      BY <1>1, <2>1, <3>1, AssignRangeKeeps
    <3> QED
      BY <2>2, <3>2, BecomesKeeps
  <2>3. CASE Replaceable(Len(q), 0) /\ Becomes(AssignList(vec, q))
    <3>1. ~ vec.objects \/ Len(q) > vec.cap \/ Len(q) = vec.size
      BY <1>1, <2>1, <2>3 DEF Replaceable
    <3>2. Keeps(AssignList(vec, q), q) /\ AssignList(vec, q).objects = vec.objects
      BY <1>1, <2>1, <3>1, AssignListKeeps
    <3> QED
      BY <2>3, <3>2, BecomesKeeps
  <2> QED
    BY <1>12, <2>2, <2>3 DEF AssignMany
<1>13. ASSUME NEW q \in Ranges, Construct(q) PROVE VectorsInv'
  <2>1. Keeps(Constructed(vec.objects, q), q) /\ Constructed(vec.objects, q).objects = vec.objects
    BY <1>1, <1>2, ConstructedKeeps
  <2> QED
    BY <1>1, <1>13, <2>1, GivesKeeps DEF Construct, Gives
<1>14. ASSUME Pop PROVE VectorsInv'
  <2>1. (\E q : Keeps(PopBack(vec), q)) /\ PopBack(vec).objects = vec.objects
    BY <1>1, PopBackKeeps
  <2> QED
    BY <1>14, <2>1, BecomesKeeps DEF Pop
<1>15. ASSUME ClearAll PROVE VectorsInv'
  <2>1. Keeps(Clear(vec), <<>>) /\ Clear(vec).objects = vec.objects
    BY <1>1, ClearKeeps
  <2> QED
    BY <1>15, <2>1, BecomesKeeps DEF ClearAll
<1>16. ASSUME CopyConstruct PROVE VectorsInv'
  <2>1. Holdable(vec.objects, s)
    BY <1>1 DEF Keeps
  <2>2. Keeps(Constructed(vec.objects, s), s) /\ Constructed(vec.objects, s).objects = vec.objects
    BY <1>1, <2>1, ConstructedKeeps
  <2> QED
    BY <1>1, <1>16, <2>2, GivesKeeps DEF CopyConstruct, Gives, s
<1>17. ASSUME Copy PROVE VectorsInv'
  <2>1. Keeps(CopyAssign(vec_other, vec), s) /\ CopyAssign(vec_other, vec).objects = vec_other.objects
    BY <1>1, <1>17, CopyAssignKeeps DEF Copy
  <2> QED
    BY <1>1, <1>17, <2>1, GivesKeeps DEF Copy, Gives
<1>18. ASSUME Move PROVE VectorsInv'
  <2>1. Keeps(NoVector(vec.objects), <<>>) /\ NoVector(vec.objects).objects = vec.objects
    BY <1>1, NoVectorKeeps
  <2> QED
    BY <1>1, <1>18, <2>1, GivesKeeps DEF Move, Gives
<1>19. ASSUME Swap PROVE VectorsInv'
  BY <1>1, <1>19, GivesKeeps DEF Swap, Gives
<1>20. ASSUME Release PROVE VectorsInv'
  <2>1. Keeps(NoVector(vec.objects), <<>>) /\ NoVector(vec.objects).objects = vec.objects
    BY <1>1, NoVectorKeeps
  <2> QED
    BY <1>20, <2>1, BecomesKeeps DEF Release
<1>21. ASSUME UNCHANGED vector_vars PROVE VectorsInv'
  BY <1>21 DEF vector_vars, VectorsInv, VectorElementsAlive, Formed, Alive
<1> QED
  BY <1>4, <1>5, <1>6, <1>7, <1>8, <1>9, <1>10, <1>11, <1>12, <1>13, <1>14, <1>15, <1>16, <1>17, <1>18,
     <1>19, <1>20, <1>21 DEF VectorStep

(* What the calls give follows from the invariant.                         *)
LEMMA VectorsAgree == ASSUME VectorAssumption, VectorsInv PROVE VectorCallsAgree
<1> DEFINE s == Content(vec)
<1>1. /\ Keeps(vec, s) /\ Keeps(vec_other, Content(vec_other))
      /\ vec.objects = vec_other.objects /\ vec.objects \in BOOLEAN
      /\ vec.size = Len(s) /\ vec.size \in Nat /\ vec.cap \in Nat
  BY InvKeeps
<1>2. \A q \in Ranges : Holdable(vec.objects, q) /\ Len(q) \in Nat
  BY <1>1, GivenHoldable, LenProperties DEF Holdable
<1>3. s \in Seq(Elements) /\ DOMAIN s = 1 .. Len(s)
  BY <1>1 DEF Keeps, Holdable
<1>4. \A x \in Values : x \in Live
  BY DEF Live
<1> HIDE DEF s
<1>5. ASSUME NEW pos \in 0 .. vec.size, NEW x \in Values
      PROVE  /\ Content(Insert(vec, pos, x)) = WithInserted(s, pos, <<x>>)
             /\ \A q \in Ranges : Insertable(pos, Len(q)) =>
                                    Content(InsertRange(vec, pos, q)) = WithInserted(s, pos, q)
             /\ \A last \in pos + 1 .. vec.size : Content(Erase(vec, pos, last)) = WithoutPart(s, pos, last)
  <2>1. Content(Insert(vec, pos, x)) = WithInserted(s, pos, <<x>>)
    BY <1>1, <1>4, InsertKeeps, KeepsContent
  <2>2. ASSUME NEW q \in Ranges, Insertable(pos, Len(q))
        PROVE  Content(InsertRange(vec, pos, q)) = WithInserted(s, pos, q)
    <3>1. Holdable(vec.objects, q) /\ (~ vec.objects \/ Len(q) > 0 \/ pos = vec.size)
      BY <1>2, <2>2 DEF Insertable
    <3>2. Keeps(InsertRange(vec, pos, q), WithInserted(s, pos, q))
      BY <1>1, <3>1, InsertRangeKeeps
    <3> QED
      BY <3>2, KeepsContent
  <2>3. ASSUME NEW last \in pos + 1 .. vec.size
        PROVE  Content(Erase(vec, pos, last)) = WithoutPart(s, pos, last)
    <3>1. pos \in Nat /\ last \in Nat /\ pos < last /\ last <= vec.size
      BY <1>1
    <3>2. Keeps(Erase(vec, pos, last), WithoutPart(s, pos, last))
      BY <1>1, <3>1, EraseKeeps
    <3> QED
      BY <3>2, KeepsContent
  <2> QED
    BY <2>1, <2>2, <2>3
<1>6. ASSUME NEW x \in Values PROVE Content(PushBack(vec, x)) = Append(s, x)
  BY <1>1, <1>4, PushBackKeeps, KeepsContent
<1>7. ASSUME NEW n \in Sizes
      PROVE  LET t == Content(Resize(vec, n)) IN
             /\ Content(Reserve(vec, n)) = s
             /\ IF vec.objects THEN t = Resized(s, n, Default)
                ELSE Len(t) = n /\ \A i \in DOMAIN s \cap DOMAIN t : t[i] = s[i]
  <2> DEFINE t == Content(Resize(vec, n))
             f == Filling(vec.objects)
             r == Resized(s, n, f)
  <2>1. n \in Nat /\ n \in Int
    BY DEF VectorAssumption
  <2>2. Content(Reserve(vec, n)) = s
    BY <1>1, <2>1, ReserveKeeps, KeepsContent
  <2>3. t = r
    <3>1. Keeps(Resize(vec, n), r)
      BY <1>1, <2>1, ResizeKeeps
    <3> HIDE DEF f, r
    <3> QED
      BY <3>1, KeepsContent
  <2>4. f \in Elements
    BY <1>1, <2>1, FillingHoldable
  <2> HIDE DEF f
  <2>5. r \in Seq(Elements) /\ Len(r) = n /\ \A k \in 1 .. n : r[k] = IF k <= Len(s) THEN s[k] ELSE f
    <3>1. s \in Seq(Elements)
      BY <1>3
    <3>2. r \in Seq(Elements) /\ Len(r) = n
      BY <2>1, <2>4, <3>1, ResizedFacts
    <3>3. \A k \in 1 .. n : r[k] = IF k <= Len(s) THEN s[k] ELSE f
      BY <2>1, <2>4, <3>1, ResizedFacts
    <3> QED
      BY <3>2, <3>3
  <2> HIDE DEF r, t
  <2>6. DOMAIN t = 1 .. n /\ Len(t) = n
    BY <2>3, <2>5
  <2>7. \A i \in DOMAIN s \cap DOMAIN t : t[i] = s[i]
    BY <1>1, <1>3, <2>3, <2>5, <2>6
  <2>8. vec.objects => f = Default
    BY DEF f, Filling
  <2> QED
    BY <2>2, <2>3, <2>6, <2>7, <2>8 DEF r, t
<1>8. ASSUME NEW q \in Ranges, Replaceable(Len(q), vec.size) PROVE Content(AssignRange(vec, q)) = q
  <2>1. Holdable(vec.objects, q) /\ (~ vec.objects \/ Len(q) > vec.cap \/ Len(q) <= vec.size)
    BY <1>2, <1>8 DEF Replaceable
  <2>2. Keeps(AssignRange(vec, q), q)
    BY <1>1, <2>1, AssignRangeKeeps
  <2> QED
    BY <2>2, KeepsContent
<1>9. ASSUME Copyable(vec_other, vec) PROVE Content(CopyAssign(vec_other, vec)) = s
  <2>1. Keeps(CopyAssign(vec_other, vec), s)
    BY <1>1, <1>9, CopyAssignKeeps
  <2> QED
    BY <2>1, KeepsContent
<1> QED
  BY <1>5, <1>6, <1>7, <1>8, <1>9 DEF VectorCallsAgree, s

-----------------------------------------------------------------------------
(* The theorems.                                                           *)

(* The invariant holds at every step.                                      *)
LEMMA VectorsInvHolds == ASSUME VectorAssumption PROVE VectorSpec => []VectorsInv
<1>1. VectorInit => VectorsInv
  BY VectorsInvInit
<1>2. VectorsInv /\ [VectorStep]_vector_vars => VectorsInv'
  BY VectorsInvStep
<1> QED
  BY <1>1, <1>2, PTL DEF VectorSpec

(* No element is used before it is built or after it is destroyed or moved *)
(* from, no call builds over one or leaves one behind, for every value and *)
(* any capacity.                                                           *)
THEOREM VectorElementsAliveHolds == ASSUME VectorAssumption PROVE VectorSpec => []VectorElementsAlive
<1>1. VectorSpec => []VectorsInv
  BY VectorsInvHolds
<1>2. VectorsInv => VectorElementsAlive
  BY DEF VectorsInv
<1> QED
  BY <1>1, <1>2, PTL

(* The calls change the sequence as they say.                              *)
THEOREM VectorCallsAgreeHolds == ASSUME VectorAssumption PROVE VectorSpec => []VectorCallsAgree
<1>1. VectorSpec => []VectorsInv
  BY VectorsInvHolds
<1>2. VectorsInv => VectorCallsAgree
  BY VectorsAgree
<1> QED
  BY <1>1, <1>2, PTL

-----------------------------------------------------------------------------
(* Streams.                                                                *)

(* The values that a scalar of Width bytes has.                            *)
Fits(v) == v \in Nat /\ Rests(v)[Width] = 0

(* What the calls of a client write.                                       *)
ItemOK(item) ==
  CASE item.kind = "value" -> Fits(item.val)
    [] item.kind = "list" -> /\ item.val \in Seq(Nat) /\ Fits(Len(item.val))
                             /\ \A i \in 1 .. Len(item.val) : Fits(item.val[i])
    [] item.kind = "string" -> item.val \in Seq(Nat) /\ \A i \in 1 .. Len(item.val) : item.val[i] # 0
    [] item.kind = "raw" -> item.val \in Seq(Nat) /\ item.val # <<>>
    [] item.kind = "pad" -> item.val \in Nat
    [] item.kind = "align" -> item.val \in Nat \ {0}
    [] OTHER -> FALSE

(* What the proofs need of the constants.                                  *)
StreamAssumption ==
  /\ Width \in Nat \ {0} /\ Base \in Nat \ {0}
  /\ \A item \in Items : ItemOK(item)

Streams == [data : Seq(Nat), pos : Nat, cut : BOOLEAN]

-----------------------------------------------------------------------------
(* Scalars.                                                                *)

(* Rests() is what it says, and made of numbers.                           *)
LEMMA RestsFacts ==
  ASSUME StreamAssumption, NEW v \in Nat
  PROVE  /\ Rests(v) \in [0 .. Width -> Nat] /\ Rests(v)[0] = v
         /\ \A i \in 1 .. Width : Rests(v)[i] = Rests(v)[i - 1] \div Base
<1> DEFINE D == Nat
           step == [i \in 1 .. Width |-> [x \in D |-> x \div Base]]
           Is(f) == f = [i \in 0 .. Width |-> IF i = 0 THEN v ELSE f[i - 1] \div Base]
<1>1. Width \in Nat /\ Base \in Nat \ {0}
  BY DEF StreamAssumption
<1>2. \A x \in Nat : x \div Base \in Nat
  BY <1>1
<1>3. IsStep(step, D, Width) /\ v \in D
  BY <1>2 DEF IsStep
<1>4. PICK f : Follows(f, v, step, D, Width)
  <2> HIDE DEF D, step, Is
  <2> QED
    BY <1>1, <1>3, RecursionExists
<1>5. ASSUME NEW i \in 0 .. Width PROVE f[i] = IF i = 0 THEN v ELSE f[i - 1] \div Base
  <2>1. CASE i = 0
    BY <1>4, <2>1 DEF Follows
  <2>2. CASE i # 0
    <3>1. i \in 1 .. Width /\ i - 1 \in 0 .. Width
      BY <1>1, <2>2
    <3>2. f[i - 1] \in D
      BY <1>4, <3>1 DEF Follows
    <3>3. step[i][f[i - 1]] = f[i - 1] \div Base
      BY <3>1, <3>2
    <3> QED
      BY <1>4, <2>2, <3>1, <3>3 DEF Follows
  <2> QED
    BY <2>1, <2>2
<1>6. Is(f)
  BY <1>4, <1>5 DEF Follows
<1>7. Rests(v) = CHOOSE g : Is(g)
  BY DEF Rests
<1>8. Is(Rests(v))
  <2> HIDE DEF Is
  <2> QED
    BY <1>6, <1>7
<1> HIDE DEF step
<1>9. Rests(v) = [i \in 0 .. Width |-> IF i = 0 THEN v ELSE Rests(v)[i - 1] \div Base]
  BY <1>8
<1> HIDE DEF Is
<1>10. \A i \in 0 .. Width : Rests(v)[i] = IF i = 0 THEN v ELSE Rests(v)[i - 1] \div Base
  BY <1>9
<1>11. Rests(v)[0] = v /\ \A i \in 1 .. Width : Rests(v)[i] = Rests(v)[i - 1] \div Base
  BY <1>1, <1>10
<1>12. \A i \in 0 .. Width : Rests(v)[i] \in Nat
  <2> DEFINE S == {i \in 0 .. Width : Rests(v)[i] \in Nat}
  <2>1. 0 \in S
    BY <1>1, <1>11
  <2>2. ASSUME NEW i \in 1 .. Width, i - 1 \in S PROVE i \in S
    <3>1. Rests(v)[i - 1] \in Nat /\ Rests(v)[i] = Rests(v)[i - 1] \div Base /\ i \in 0 .. Width
      BY <1>11, <2>2
    <3>2. Rests(v)[i] \in Nat
      BY <1>2, <3>1
    <3> QED
      BY <3>1, <3>2
  <2> HIDE DEF S
  <2>3. \A i \in 0 .. Width : i \in S
    BY <1>1, <2>1, <2>2, InductionUpTo
  <2> QED
    BY <2>3 DEF S
<1> QED
  BY <1>9, <1>11, <1>12

(* The bytes of a value.                                                   *)
LEMMA BytesFacts ==
  ASSUME StreamAssumption, NEW v \in Nat
  PROVE  Bytes(v) \in Seq(Nat) /\ Len(Bytes(v)) = Width
<1>1. Width \in Nat /\ Base \in Nat \ {0}
  BY DEF StreamAssumption
<1>2. ASSUME NEW i \in 1 .. Width PROVE Rests(v)[i - 1] % Base \in Nat
  <2>1. Rests(v)[i - 1] \in Nat
    BY <1>1, RestsFacts
  <2> QED
    BY <1>1, <2>1
<1>3. Bytes(v) \in [1 .. Width -> Nat]
  BY <1>2 DEF Bytes
<1> QED
  BY <1>1, <1>3

(* Numbers() is what it says, and made of numbers.                         *)
LEMMA NumbersFacts ==
  ASSUME StreamAssumption, NEW b \in Seq(Nat)
  PROVE  /\ \A n \in 0 .. Len(b) : Numbers(b)[n] \in Nat
         /\ Numbers(b)[0] = 0
         /\ \A n \in 1 .. Len(b) : Numbers(b)[n] = b[Len(b) - n + 1] + Base * Numbers(b)[n - 1]
<1> DEFINE D == Nat
           N == Len(b)
           step == [n \in 1 .. N |-> [x \in D |-> b[N - n + 1] + Base * x]]
           Is(f) == f = [n \in 0 .. N |-> IF n = 0 THEN 0 ELSE b[N - n + 1] + Base * f[n - 1]]
<1>1. N \in Nat /\ Base \in Nat
  BY LenProperties DEF StreamAssumption
<1>2. ASSUME NEW n \in 1 .. N, NEW x \in Nat PROVE b[N - n + 1] + Base * x \in Nat
  <2>1. N - n + 1 \in 1 .. N
    BY <1>1
  <2>2. b[N - n + 1] \in Nat
    BY <2>1, ElementOfSeq
  <2>3. Base * x \in Nat
    BY <1>1
  <2> HIDE DEF N
  <2> QED
    BY <2>2, <2>3
<1>3. IsStep(step, D, N) /\ 0 \in D
  BY <1>2 DEF IsStep
<1>4. PICK f : Follows(f, 0, step, D, N)
  <2> HIDE DEF D, step, Is, N
  <2> QED
    BY <1>1, <1>3, RecursionExists
<1> HIDE DEF N
<1>5. ASSUME NEW n \in 0 .. N PROVE f[n] = IF n = 0 THEN 0 ELSE b[N - n + 1] + Base * f[n - 1]
  <2>1. CASE n = 0
    BY <1>4, <2>1 DEF Follows
  <2>2. CASE n # 0
    <3>1. n \in 1 .. N /\ n - 1 \in 0 .. N
      BY <1>1, <2>2
    <3>2. f[n - 1] \in D
      BY <1>4, <3>1 DEF Follows
    <3>3. step[n][f[n - 1]] = b[N - n + 1] + Base * f[n - 1]
      BY <3>1, <3>2
    <3> QED
      BY <1>4, <2>2, <3>1, <3>3 DEF Follows
  <2> QED
    BY <2>1, <2>2
<1>6. Is(f)
  BY <1>4, <1>5 DEF Follows
<1>7. Numbers(b) = CHOOSE g : Is(g)
  BY DEF Numbers, N
<1>8. Is(Numbers(b))
  <2> HIDE DEF Is
  <2> QED
    BY <1>6, <1>7
<1> HIDE DEF step
<1>9. Numbers(b) = [n \in 0 .. N |-> IF n = 0 THEN 0 ELSE b[N - n + 1] + Base * Numbers(b)[n - 1]]
  BY <1>8
<1> HIDE DEF Is
<1>10. \A n \in 0 .. N : Numbers(b)[n] = IF n = 0 THEN 0 ELSE b[N - n + 1] + Base * Numbers(b)[n - 1]
  BY <1>9
<1>11. Numbers(b)[0] = 0 /\ \A n \in 1 .. N : Numbers(b)[n] = b[N - n + 1] + Base * Numbers(b)[n - 1]
  BY <1>1, <1>10
<1>12. \A n \in 0 .. N : Numbers(b)[n] \in Nat
  <2> DEFINE S == {n \in 0 .. N : Numbers(b)[n] \in Nat}
  <2>1. 0 \in S
    BY <1>1, <1>11
  <2>2. ASSUME NEW n \in 1 .. N, n - 1 \in S PROVE n \in S
    <3>1. /\ Numbers(b)[n - 1] \in Nat /\ n \in 0 .. N
          /\ Numbers(b)[n] = b[N - n + 1] + Base * Numbers(b)[n - 1]
      BY <1>11, <2>2
    <3>2. Numbers(b)[n] \in Nat
      BY <1>2, <3>1
    <3> QED
      BY <3>1, <3>2
  <2> HIDE DEF S
  <2>3. \A n \in 0 .. N : n \in S
    BY <1>1, <2>1, <2>2, InductionUpTo
  <2> QED
    BY <2>3 DEF S
<1> QED
  BY <1>11, <1>12 DEF N

(* What the last n bytes of a value stand for is what is left of it behind *)
(* the others, so the bytes of a value that fits stand for it.             *)
LEMMA NumberOfBytes ==
  ASSUME StreamAssumption, NEW v, Fits(v)
  PROVE  Number(Bytes(v)) = v
<1>1. Width \in Nat /\ Base \in Nat \ {0} /\ v \in Nat /\ Rests(v)[Width] = 0
  BY DEF StreamAssumption, Fits
<1> DEFINE b == Bytes(v)
<1>2. b \in Seq(Nat) /\ Len(b) = Width
  BY <1>1, BytesFacts
<1>3. \A i \in 1 .. Width : b[i] = Rests(v)[i - 1] % Base
  BY DEF Bytes
<1> HIDE DEF b
<1>4. /\ Numbers(b)[0] = 0
      /\ \A n \in 1 .. Width : Numbers(b)[n] = b[Width - n + 1] + Base * Numbers(b)[n - 1]
  BY <1>2, NumbersFacts
<1>5. \A i \in 0 .. Width : Rests(v)[i] \in Nat
  BY <1>1, RestsFacts
<1>6. Rests(v)[0] = v /\ \A i \in 1 .. Width : Rests(v)[i] = Rests(v)[i - 1] \div Base
  BY <1>1, RestsFacts
<1> DEFINE S == {n \in 0 .. Width : Numbers(b)[n] = Rests(v)[Width - n]}
<1>7. 0 \in S
  BY <1>1, <1>4
<1>8. ASSUME NEW n \in 1 .. Width, n - 1 \in S PROVE n \in S
  <2>1. /\ Width - n \in 0 .. Width /\ Width - n + 1 \in 1 .. Width /\ (Width - n + 1) - 1 = Width - n
        /\ Width - (n - 1) = Width - n + 1 /\ n \in 0 .. Width
    BY <1>1
  <2> DEFINE x == Rests(v)[Width - n]
  <2>2. x \in Nat
    BY <1>5, <2>1
  <2>3. b[Width - n + 1] = x % Base /\ Numbers(b)[n - 1] = x \div Base
    BY <1>3, <1>6, <1>8, <2>1
  <2>4. Numbers(b)[n] = (x % Base) + Base * (x \div Base)
    BY <1>4, <2>3
  <2> HIDE DEF x
  <2>5. (x % Base) + Base * (x \div Base) = x
    BY <1>1, <2>2
  <2> QED
    BY <2>1, <2>4, <2>5 DEF x
<1> HIDE DEF S
<1>9. \A n \in 0 .. Width : n \in S
  BY <1>1, <1>7, <1>8, InductionUpTo
<1>10. Numbers(b)[Width] = Rests(v)[Width - Width]
  BY <1>1, <1>9 DEF S
<1> QED
  BY <1>1, <1>2, <1>6, <1>10 DEF Number, b

-----------------------------------------------------------------------------
(* Lists.                                                                  *)

(* Lists() is what it says, and made of sequences of bytes.                *)
LEMMA ListsFacts ==
  ASSUME StreamAssumption, NEW s \in Seq(Nat)
  PROVE  /\ \A n \in 0 .. Len(s) : Lists(s)[n] \in Seq(Nat)
         /\ Lists(s)[0] = Bytes(Len(s))
         /\ \A n \in 1 .. Len(s) : Lists(s)[n] = Lists(s)[n - 1] \o Bytes(s[n])
<1> DEFINE D == Seq(Nat)
           N == Len(s)
           f0 == Bytes(N)
           step == [n \in 1 .. N |-> [x \in D |-> x \o Bytes(s[n])]]
           Is(f) == f = [n \in 0 .. N |-> IF n = 0 THEN f0 ELSE f[n - 1] \o Bytes(s[n])]
<1>1. N \in Nat
  BY LenProperties
<1>2. ASSUME NEW n \in 1 .. N, NEW x \in Seq(Nat) PROVE x \o Bytes(s[n]) \in Seq(Nat)
  <2>1. s[n] \in Nat
    BY ElementOfSeq
  <2>2. Bytes(s[n]) \in Seq(Nat)
    BY <2>1, BytesFacts
  <2> QED
    BY <2>2, ConcatProperties
<1>3. IsStep(step, D, N) /\ f0 \in D
  BY <1>1, <1>2, BytesFacts DEF IsStep
<1> HIDE DEF f0
<1>4. PICK f : Follows(f, f0, step, D, N)
  <2> HIDE DEF D, step, Is, N
  <2> QED
    BY <1>1, <1>3, RecursionExists
<1> HIDE DEF N
<1>5. ASSUME NEW n \in 0 .. N PROVE f[n] = IF n = 0 THEN f0 ELSE f[n - 1] \o Bytes(s[n])
  <2>1. CASE n = 0
    BY <1>4, <2>1 DEF Follows
  <2>2. CASE n # 0
    <3>1. n \in 1 .. N /\ n - 1 \in 0 .. N
      BY <1>1, <2>2
    <3>2. f[n - 1] \in D
      BY <1>4, <3>1 DEF Follows
    <3>3. step[n][f[n - 1]] = f[n - 1] \o Bytes(s[n])
      BY <3>1, <3>2
    <3> QED
      BY <1>4, <2>2, <3>1, <3>3 DEF Follows
  <2> QED
    BY <2>1, <2>2
<1>6. Is(f)
  BY <1>4, <1>5 DEF Follows
<1>7. Lists(s) = CHOOSE g : Is(g)
  BY DEF Lists, N, f0
<1>8. Is(Lists(s))
  <2> HIDE DEF Is
  <2> QED
    BY <1>6, <1>7
<1> HIDE DEF step
<1>9. Lists(s) = [n \in 0 .. N |-> IF n = 0 THEN f0 ELSE Lists(s)[n - 1] \o Bytes(s[n])]
  BY <1>8
<1> HIDE DEF Is
<1>10. \A n \in 0 .. N : Lists(s)[n] = IF n = 0 THEN f0 ELSE Lists(s)[n - 1] \o Bytes(s[n])
  BY <1>9
<1>11. Lists(s)[0] = f0 /\ \A n \in 1 .. N : Lists(s)[n] = Lists(s)[n - 1] \o Bytes(s[n])
  <2>1. 0 \in 0 .. N /\ \A n \in 1 .. N : n \in 0 .. N /\ n # 0
    BY <1>1
  <2>2. Lists(s)[0] = f0
    BY <1>10, <2>1
  <2>3. ASSUME NEW n \in 1 .. N PROVE Lists(s)[n] = Lists(s)[n - 1] \o Bytes(s[n])
    <3>1. n \in 0 .. N /\ n # 0
      BY <2>1
    <3>2. Lists(s)[n] = IF n = 0 THEN f0 ELSE Lists(s)[n - 1] \o Bytes(s[n])
      BY <1>10, <3>1
    <3> QED
      BY <3>1, <3>2
  <2> QED
    BY <2>2, <2>3
<1>12. \A n \in 0 .. N : Lists(s)[n] \in Seq(Nat)
  <2> DEFINE S == {n \in 0 .. N : Lists(s)[n] \in Seq(Nat)}
  <2>1. 0 \in S
    BY <1>1, <1>3, <1>11
  <2>2. ASSUME NEW n \in 1 .. N, n - 1 \in S PROVE n \in S
    <3>0. n \in 0 .. N
      BY <1>1
    <3>1. Lists(s)[n - 1] \in Seq(Nat)
      BY <2>2
    <3>3. Lists(s)[n] = Lists(s)[n - 1] \o Bytes(s[n])
      BY <1>11
    <3>2. Lists(s)[n] \in Seq(Nat)
      BY <1>2, <3>1, <3>3
    <3> QED
      BY <3>0, <3>2
  <2> HIDE DEF S
  <2>3. \A n \in 0 .. N : n \in S
    BY <1>1, <2>1, <2>2, InductionUpTo
  <2> QED
    BY <2>3 DEF S
<1> QED
  BY <1>11, <1>12 DEF N, f0

(* Where each number of the first n is in the bytes of a list.             *)
Holds(b, s, n) ==
  /\ Len(b) = Width * (n + 1)
  /\ \A j \in 1 .. Width : b[j] = Bytes(Len(s))[j]
  /\ \A k \in 1 .. n : \A j \in 1 .. Width : b[Width * k + j] = Bytes(s[k])[j]

(* One more number goes behind those there are.                            *)
LEMMA HoldsOneMore ==
  ASSUME StreamAssumption, NEW s \in Seq(Nat), NEW b \in Seq(Nat), NEW n \in 1 .. Len(s), Holds(b, s, n - 1)
  PROVE  Holds(b \o Bytes(s[n]), s, n)
<1> DEFINE c == Bytes(s[n])
           r == b \o c
<1>1. Width \in Nat \ {0} /\ n \in Nat /\ n >= 1 /\ s[n] \in Nat
  BY ElementOfSeq DEF StreamAssumption
<1>2. c \in Seq(Nat) /\ Len(c) = Width
  BY <1>1, BytesFacts
<1>3. (n - 1) + 1 = n
  BY <1>1
<1>4. /\ Len(b) = Width * n
      /\ \A j \in 1 .. Width : b[j] = Bytes(Len(s))[j]
      /\ \A k \in 1 .. n - 1 : \A j \in 1 .. Width : b[Width * k + j] = Bytes(s[k])[j]
  BY <1>3 DEF Holds
<1> HIDE DEF c
<1>5. /\ r \in Seq(Nat) /\ Len(r) = Len(b) + Len(c)
      /\ \A k \in 1 .. Len(b) + Len(c) : r[k] = IF k <= Len(b) THEN b[k] ELSE c[k - Len(b)]
  BY <1>2, ConcatProperties
<1> HIDE DEF r
<1>6. Width * (n + 1) = Width * n + Width /\ Width * n \in Nat /\ Width <= Width * n
  BY <1>1
<1>7. ASSUME NEW j \in 1 .. Width PROVE r[j] = Bytes(Len(s))[j]
  <2>0. Len(b) \in Nat /\ Len(b) >= Width
    BY <1>4, <1>6
  <2>1. j \in 1 .. Len(b) + Len(c) /\ j <= Len(b)
    BY <1>1, <1>2, <2>0
  <2> QED
    BY <1>4, <1>5, <2>1
<1>8. ASSUME NEW k \in 1 .. n, NEW j \in 1 .. Width PROVE r[Width * k + j] = Bytes(s[k])[j]
  <2>1. CASE k = n
    <3>1. /\ Width * n + j \in 1 .. Len(b) + Len(c) /\ ~ (Width * n + j <= Len(b))
          /\ (Width * n + j) - Len(b) = j
      BY <1>1, <1>2, <1>4, <1>6
    <3>2. r[Width * n + j] = c[j]
      BY <1>5, <3>1
    <3> QED
      BY <2>1, <3>2 DEF c
  <2>2. CASE k # n
    <3>1. k \in 1 .. n - 1 /\ k + 1 <= n /\ k \in Nat /\ j \in Nat /\ j >= 1 /\ j <= Width
      BY <1>1, <2>2
    <3> DEFINE p == Width * k
    <3>2. p + Width <= Len(b) /\ p \in Nat /\ Len(b) \in Nat
      BY <1>1, <1>4, <1>6, <3>1
    <3> HIDE DEF p
    <3>3. p + j \in 1 .. Len(b) + Len(c) /\ p + j <= Len(b)
      BY <1>1, <1>2, <3>1, <3>2, SMTT(30)
    <3>4. r[p + j] = b[p + j]
      BY <1>5, <3>3
    <3> QED
      BY <1>4, <3>1, <3>4 DEF p
  <2> QED
    BY <2>1, <2>2
<1>9. Len(r) = Width * (n + 1)
  BY <1>2, <1>4, <1>5, <1>6
<1> QED
  BY <1>7, <1>8, <1>9 DEF Holds, r, c

(* The bytes of a list hold its length and each of its numbers in turn.    *)
LEMMA WriteListHolds ==
  ASSUME StreamAssumption, NEW s \in Seq(Nat)
  PROVE  WriteList(s) \in Seq(Nat) /\ Holds(WriteList(s), s, Len(s))
<1> DEFINE S == {n \in 0 .. Len(s) : Holds(Lists(s)[n], s, n)}
<1>1. Width \in Nat /\ Len(s) \in Nat
  BY LenProperties DEF StreamAssumption
<1>2. 0 \in S
  <2>1. Lists(s)[0] = Bytes(Len(s))
    BY ListsFacts
  <2>2. Len(Bytes(Len(s))) = Width /\ Width * (0 + 1) = Width
    BY <1>1, BytesFacts
  <2> QED
    BY <1>1, <2>1, <2>2 DEF Holds
<1>3. ASSUME NEW n \in 1 .. Len(s), n - 1 \in S PROVE n \in S
  <2>1. n - 1 \in 0 .. Len(s) /\ n \in 0 .. Len(s)
    BY <1>1
  <2>2. Lists(s)[n - 1] \in Seq(Nat) /\ Lists(s)[n] = Lists(s)[n - 1] \o Bytes(s[n])
    BY <2>1, ListsFacts
  <2>3. Holds(Lists(s)[n - 1], s, n - 1)
    BY <1>3
  <2> QED
    BY <2>1, <2>2, <2>3, HoldsOneMore
<1> HIDE DEF S
<1>4. Len(s) \in S
  <2>1. \A n \in 0 .. Len(s) : n \in S
    BY <1>1, <1>2, <1>3, InductionUpTo
  <2> QED
    BY <1>1, <2>1
<1> QED
  BY <1>1, <1>4, ListsFacts DEF S, WriteList

-----------------------------------------------------------------------------
(* Reads of scalars and bytes.                                             *)

(* Some bytes stand at a position, as far as there is data.                *)
Stands(data, at, b) == \A j \in 1 .. Len(b) : at + j <= Len(data) => data[at + j] = b[j]

(* The stream n bytes on, and one that was read from.                      *)
Ahead(st, n) == [st EXCEPT !.pos = @ + n]

Follow(st1, st) == st1 \in Streams /\ st1.data = st.data /\ st1.cut = st.cut

(* Shifting a stream leaves its data alone.                                *)
LEMMA AheadFacts ==
  ASSUME NEW st \in Streams, NEW n \in Nat
  PROVE  Follow(Ahead(st, n), st) /\ Ahead(st, n).pos = st.pos + n
BY DEF Streams, Ahead, Follow

(* Two shifts are one.                                                     *)
LEMMA AheadTwice ==
  ASSUME NEW st \in Streams, NEW n \in Nat, NEW k \in Nat
  PROVE  Ahead(Ahead(st, n), k) = Ahead(st, n + k)
<1>1. /\ Ahead(Ahead(st, n), k) \in Streams /\ Ahead(st, n + k) \in Streams
      /\ Ahead(Ahead(st, n), k).data = Ahead(st, n + k).data
      /\ Ahead(Ahead(st, n), k).cut = Ahead(st, n + k).cut
      /\ Ahead(Ahead(st, n), k).pos = Ahead(st, n + k).pos
  <2>1. n + k \in Nat /\ st.pos \in Nat
    BY DEF Streams
  <2>2. Follow(Ahead(st, n), st) /\ Ahead(st, n).pos = st.pos + n
    BY AheadFacts
  <2>3. Follow(Ahead(st, n + k), st) /\ Ahead(st, n + k).pos = st.pos + (n + k)
    BY <2>1, AheadFacts
  <2>4. Follow(Ahead(Ahead(st, n), k), Ahead(st, n)) /\ Ahead(Ahead(st, n), k).pos = Ahead(st, n).pos + k
    BY <2>2, AheadFacts DEF Follow
  <2> QED
    BY <2>1, <2>2, <2>3, <2>4 DEF Follow
<1>2. \A a, b \in Streams : a.data = b.data /\ a.cut = b.cut /\ a.pos = b.pos => a = b
  BY DEF Streams
<1> QED
  BY <1>1, <1>2

(* Bytes that are wholly there are those that are read.                    *)
LEMMA SubSeqIs ==
  ASSUME NEW data \in Seq(Nat), NEW at \in Nat, NEW b \in Seq(Nat),
         at + Len(b) <= Len(data), Stands(data, at, b)
  PROVE  SubSeq(data, at + 1, at + Len(b)) = b
<1> DEFINE n == Len(b)
           q == SubSeq(data, at + 1, at + n)
<1>1. n \in Nat /\ Len(data) \in Nat /\ at \in Nat
  BY LenProperties
<1>2. \A k \in at + 1 .. at + n : data[k] \in Nat
  <2>1. \A k \in at + 1 .. at + n : k \in 1 .. Len(data)
    BY <1>1
  <2> QED
    BY <2>1, ElementOfSeq
<1>3. \A j \in 1 .. n : data[at + j] = b[j]
  <2> SUFFICES ASSUME NEW j \in 1 .. n PROVE data[at + j] = b[j]
    OBVIOUS
  <2>1. at + j <= Len(data)
    BY <1>1
  <2> QED
    BY <2>1 DEF Stands
<1>4. /\ q \in Seq(Nat)
      /\ Len(q) = IF at + 1 <= at + n THEN (at + n) - (at + 1) + 1 ELSE 0
      /\ \A j \in 1 .. (at + n) - (at + 1) + 1 : q[j] = data[(at + 1) + j - 1]
  BY <1>1, <1>2, SubSeqProperties
<1> HIDE DEF n, q
<1>5. Len(q) = n /\ (at + n) - (at + 1) + 1 = n
  BY <1>1, <1>4
<1>6. ASSUME NEW j \in 1 .. n PROVE q[j] = b[j]
  <2>1. (at + 1) + j - 1 = at + j
    BY <1>1
  <2> QED
    BY <1>3, <1>4, <1>5, <2>1
<1>7. q \in Seq(Nat) /\ Len(q) = Len(b)
  BY <1>4, <1>5 DEF n
<1>8. \A j \in 1 .. Len(q) : q[j] = b[j]
  BY <1>5, <1>6
<1>9. q = b
  BY <1>7, <1>8, SeqEqual
<1> QED
  BY <1>9 DEF q, n

(* Bytes that stand where a stream is are read if all of them are there.   *)
LEMMA ReadRawThere ==
  ASSUME NEW st \in Streams, NEW b \in Seq(Nat), Stands(st.data, st.pos, b)
  PROVE  ReadRaw(st, Len(b)) = IF st.pos + Len(b) <= Len(st.data)
                                 THEN Result(Ahead(st, Len(b)), TRUE, b) ELSE Result(st, FALSE, Nothing)
<1>1. st.data \in Seq(Nat) /\ st.pos \in Nat
  BY DEF Streams
<1>2. st.pos + Len(b) <= Len(st.data) => SubSeq(st.data, st.pos + 1, st.pos + Len(b)) = b
  BY <1>1, SubSeqIs
<1> QED
  BY <1>2 DEF ReadRaw, Ahead

(* A value that stands where a stream is is read if its bytes are there.   *)
LEMMA ReadValueThere ==
  ASSUME StreamAssumption, NEW st \in Streams, NEW v, Fits(v), Stands(st.data, st.pos, Bytes(v))
  PROVE  ReadValue(st) = IF st.pos + Width <= Len(st.data)
                           THEN Result(Ahead(st, Width), TRUE, v) ELSE Result(st, FALSE, Nothing)
<1>1. Bytes(v) \in Seq(Nat) /\ Len(Bytes(v)) = Width
  BY BytesFacts DEF Fits
<1>2. st.data \in Seq(Nat) /\ st.pos \in Nat
  BY DEF Streams
<1>3. Number(Bytes(v)) = v
  BY NumberOfBytes
<1>4. CASE st.pos + Width <= Len(st.data)
  <2> DEFINE b == SubSeq(st.data, st.pos + 1, st.pos + Width)
  <2>1. b = Bytes(v)
    BY <1>1, <1>2, <1>4, SubSeqIs
  <2>2. ReadValue(st) = Result(Ahead(st, Width), TRUE, Number(b))
    BY <1>4 DEF ReadValue, ReadRaw, Result, Ahead
  <2> QED
    BY <1>3, <1>4, <2>1, <2>2
<1>5. CASE ~ (st.pos + Width <= Len(st.data))
  BY <1>5 DEF ReadValue, ReadRaw, Result
<1> QED
  BY <1>4, <1>5

(* Whatever the bytes are: a scalar is a number.                           *)
LEMMA ReadValueType ==
  ASSUME StreamAssumption, NEW st \in Streams
  PROVE  /\ Follow(ReadValue(st).st, st) /\ ReadValue(st).ok \in BOOLEAN
         /\ ReadValue(st).ok => ReadValue(st).val \in Nat
<1>1. Width \in Nat /\ st.data \in Seq(Nat) /\ st.pos \in Nat /\ Len(st.data) \in Nat
  BY LenProperties DEF StreamAssumption, Streams
<1>2. CASE st.pos + Width <= Len(st.data)
  <2> DEFINE b == SubSeq(st.data, st.pos + 1, st.pos + Width)
  <2>1. \A k \in st.pos + 1 .. st.pos + Width : st.data[k] \in Nat
    <3>1. \A k \in st.pos + 1 .. st.pos + Width : k \in 1 .. Len(st.data)
      BY <1>1, <1>2
    <3> QED
      BY <1>1, <3>1, ElementOfSeq
  <2>2. b \in Seq(Nat)
    BY <1>1, <2>1, SubSeqProperties
  <2>3. Number(b) \in Nat
    <3> HIDE DEF b
    <3>1. Len(b) \in 0 .. Len(b)
      BY <2>2, LenProperties
    <3> QED
      BY <2>2, <3>1, NumbersFacts DEF Number
  <2>4. ReadValue(st) = Result(Ahead(st, Width), TRUE, Number(b))
    BY <1>2 DEF ReadValue, ReadRaw, Result, Ahead
  <2> HIDE DEF b
  <2>5. Follow(Ahead(st, Width), st)
    BY <1>1, AheadFacts
  <2> QED
    BY <2>3, <2>4, <2>5 DEF Result
<1>3. CASE ~ (st.pos + Width <= Len(st.data))
  BY <1>3 DEF ReadValue, ReadRaw, Result, Follow
<1> QED
  BY <1>2, <1>3

-----------------------------------------------------------------------------
(* Reads of lists.                                                         *)

Results == [st : Streams, ok : BOOLEAN, val : Seq(Nat)]

(* One more value makes a list of a list.                                  *)
LEMMA ReadMoreType ==
  ASSUME StreamAssumption, NEW r \in Results
  PROVE  ReadMore(r) \in Results /\ Follow(ReadMore(r).st, r.st)
<1> DEFINE x == ReadValue(r.st)
<1>1. r.st \in Streams /\ r.ok \in BOOLEAN /\ r.val \in Seq(Nat)
  BY DEF Results
<1>2. Follow(x.st, r.st) /\ x.ok \in BOOLEAN /\ (x.ok => x.val \in Nat)
  BY <1>1, ReadValueType
<1> HIDE DEF x
<1>3. CASE r.ok
  <2>1. (IF x.ok THEN Append(r.val, x.val) ELSE r.val) \in Seq(Nat)
    BY <1>1, <1>2
  <2>2. ReadMore(r) = Result(x.st, x.ok, IF x.ok THEN Append(r.val, x.val) ELSE r.val)
    BY <1>3 DEF ReadMore, x
  <2> QED
    BY <1>2, <2>1, <2>2 DEF Result, Results, Follow
<1>4. CASE ~ r.ok
  BY <1>1, <1>4 DEF ReadMore, Follow
<1> QED
  BY <1>3, <1>4

(* Reads() is what it says, and made of lists.                             *)
LEMMA ReadsFacts ==
  ASSUME StreamAssumption, NEW st \in Streams, NEW N \in Nat
  PROVE  /\ \A i \in 0 .. N : Reads(st, N)[i] \in Results
         /\ Reads(st, N)[0] = Result(st, TRUE, <<>>)
         /\ \A i \in 1 .. N : Reads(st, N)[i] = ReadMore(Reads(st, N)[i - 1])
<1> DEFINE D == Results
           f0 == Result(st, TRUE, <<>>)
           step == [i \in 1 .. N |-> [x \in D |-> ReadMore(x)]]
           Is(f) == f = [i \in 0 .. N |-> IF i = 0 THEN f0 ELSE ReadMore(f[i - 1])]
<1>1. ASSUME NEW x \in Results PROVE ReadMore(x) \in Results
  BY ReadMoreType
<1>2. f0 \in D
  BY DEF Result, Results
<1>3. IsStep(step, D, N)
  BY <1>1 DEF IsStep
<1> HIDE DEF f0
<1>4. PICK f : Follows(f, f0, step, D, N)
  <2> HIDE DEF D, step, Is
  <2> QED
    BY <1>2, <1>3, RecursionExists
<1>5. ASSUME NEW i \in 0 .. N PROVE f[i] = IF i = 0 THEN f0 ELSE ReadMore(f[i - 1])
  <2>1. CASE i = 0
    BY <1>4, <2>1 DEF Follows
  <2>2. CASE i # 0
    <3>1. i \in 1 .. N /\ i - 1 \in 0 .. N
      BY <2>2
    <3>2. f[i - 1] \in D
      BY <1>4, <3>1 DEF Follows
    <3>3. step[i][f[i - 1]] = ReadMore(f[i - 1])
      BY <3>1, <3>2
    <3> QED
      BY <1>4, <2>2, <3>1, <3>3 DEF Follows
  <2> QED
    BY <2>1, <2>2
<1>6. Is(f)
  BY <1>4, <1>5 DEF Follows
<1>7. Reads(st, N) = CHOOSE g : Is(g)
  BY DEF Reads, f0
<1>8. Is(Reads(st, N))
  <2> HIDE DEF Is
  <2> QED
    BY <1>6, <1>7
<1> HIDE DEF step
<1> DEFINE h == Reads(st, N)
<1>9. h = [i \in 0 .. N |-> IF i = 0 THEN f0 ELSE ReadMore(h[i - 1])]
  BY <1>8
<1> HIDE DEF Is, h
<1>10. \A i \in 0 .. N : h[i] = IF i = 0 THEN f0 ELSE ReadMore(h[i - 1])
  BY <1>9
<1>11. h[0] = f0 /\ \A i \in 1 .. N : h[i] = ReadMore(h[i - 1])
  <2>1. h[0] = f0
    BY <1>10
  <2>2. ASSUME NEW i \in 1 .. N PROVE h[i] = ReadMore(h[i - 1])
    <3>1. i \in 0 .. N /\ i # 0
      OBVIOUS
    <3>2. h[i] = IF i = 0 THEN f0 ELSE ReadMore(h[i - 1])
      BY <1>10, <3>1
    <3> QED
      BY <3>1, <3>2
  <2> QED
    BY <2>1, <2>2
<1>12. \A i \in 0 .. N : h[i] \in Results
  <2> DEFINE S == {i \in 0 .. N : h[i] \in Results}
  <2>1. 0 \in S
    BY <1>2, <1>11
  <2>2. ASSUME NEW i \in 1 .. N, i - 1 \in S PROVE i \in S
    <3>1. h[i - 1] \in Results /\ i \in 0 .. N
      BY <2>2
    <3>2. h[i] \in Results
      BY <1>1, <1>11, <3>1
    <3> QED
      BY <3>1, <3>2
  <2> HIDE DEF S
  <2>3. \A i \in 0 .. N : i \in S
    BY <2>1, <2>2, InductionUpTo
  <2> QED
    BY <2>3 DEF S
<1> QED
  BY <1>11, <1>12 DEF f0, h

(* The values of a list stand where a stream is.                           *)
ValuesThere(st, s) ==
  \A k \in 1 .. Len(s) : Fits(s[k]) /\ Stands(st.data, st.pos + Width * (k - 1), Bytes(s[k]))

(* What i of the reads of a list have made of it.                          *)
ReadSoFar(r, st, s, i) ==
  /\ r \in Results /\ Follow(r.st, st)
  /\ IF st.pos + Width * i <= Len(st.data) THEN r = Result(Ahead(st, Width * i), TRUE, UpTo(s, i)) ELSE ~ r.ok

(* The next read takes the next value, or throws for want of its bytes.    *)
LEMMA ReadsOneMore ==
  ASSUME StreamAssumption, NEW st \in Streams, NEW s \in Seq(Nat), ValuesThere(st, s),
         NEW i \in 1 .. Len(s), NEW r, ReadSoFar(r, st, s, i - 1)
  PROVE  ReadSoFar(ReadMore(r), st, s, i)
<1>1. /\ Width \in Nat \ {0} /\ i \in Nat /\ i - 1 \in Nat /\ i - 1 \in 0 .. Len(s) /\ i \in 0 .. Len(s)
      /\ st.data \in Seq(Nat) /\ st.pos \in Nat /\ Len(st.data) \in Nat
  BY LenProperties DEF StreamAssumption, Streams
<1> DEFINE p == Width * (i - 1)
           m == Width * i
<1>2. p \in Nat /\ m \in Nat /\ m = p + Width
  BY <1>1
<1>3. /\ r \in Results /\ Follow(r.st, st)
      /\ IF st.pos + p <= Len(st.data) THEN r = Result(Ahead(st, p), TRUE, UpTo(s, i - 1)) ELSE ~ r.ok
  BY DEF ReadSoFar
<1>4. Fits(s[i]) /\ Stands(st.data, st.pos + p, Bytes(s[i]))
  BY DEF ValuesThere
<1> HIDE DEF p, m
<1>5. ReadMore(r) \in Results /\ Follow(ReadMore(r).st, st)
  BY <1>3, ReadMoreType DEF Follow
<1>6. CASE ~ (st.pos + p <= Len(st.data))
  <2>1. ~ (st.pos + m <= Len(st.data))
    BY <1>1, <1>2, <1>6
  <2>2. ~ r.ok /\ ReadMore(r) = r
    BY <1>3, <1>6 DEF ReadMore
  <2> QED
    BY <1>5, <2>1, <2>2 DEF ReadSoFar, m
<1>7. CASE st.pos + p <= Len(st.data)
  <2> DEFINE a == Ahead(st, p)
             x == ReadValue(a)
  <2>1. r = Result(a, TRUE, UpTo(s, i - 1))
    BY <1>3, <1>7
  <2>2. r.st = a /\ r.ok = TRUE /\ r.val = UpTo(s, i - 1)
    BY <2>1 DEF Result
  <2>3. a \in Streams /\ a.data = st.data /\ a.cut = st.cut /\ a.pos = st.pos + p
    BY <1>2, AheadFacts DEF Follow
  <2>4. Stands(a.data, a.pos, Bytes(s[i]))
    BY <1>4, <2>3
  <2>5. ReadMore(r) = Result(x.st, x.ok, IF x.ok THEN Append(r.val, x.val) ELSE r.val)
    BY <2>2 DEF ReadMore
  <2>6. x = IF a.pos + Width <= Len(a.data) THEN Result(Ahead(a, Width), TRUE, s[i]) ELSE Result(a, FALSE, Nothing)
    BY <1>4, <2>3, <2>4, ReadValueThere
  <2>7. a.pos + Width = st.pos + m
    BY <1>1, <1>2, <2>3
  <2>8. Ahead(a, Width) = Ahead(st, m)
    BY <1>1, <1>2, AheadTwice
  <2> HIDE DEF a, x
  <2>9. CASE st.pos + m <= Len(st.data)
    <3>1. x = Result(Ahead(st, m), TRUE, s[i])
      BY <2>3, <2>6, <2>7, <2>8, <2>9
    <3>2. Append(UpTo(s, i - 1), s[i]) = UpTo(s, i)
      <4>1. /\ UpTo(s, i - 1) \in Seq(Nat) /\ Len(UpTo(s, i - 1)) = i - 1
            /\ \A j \in 1 .. i - 1 : UpTo(s, i - 1)[j] = s[j]
        BY <1>1, UpToFacts
      <4>2. /\ UpTo(s, i) \in Seq(Nat) /\ Len(UpTo(s, i)) = i
            /\ \A j \in 1 .. i : UpTo(s, i)[j] = s[j]
        BY <1>1, UpToFacts
      <4> DEFINE u == UpTo(s, i - 1)
                 w == UpTo(s, i)
                 q == Append(u, s[i])
      <4> HIDE DEF u, w
      <4>3. /\ q \in Seq(Nat) /\ Len(q) = i /\ q[i] = s[i]
            /\ \A j \in 1 .. i - 1 : q[j] = u[j]
        <5>1. s[i] \in Nat
          BY ElementOfSeq
        <5> QED
          BY <1>1, <4>1, <5>1, AppendProperties DEF u
      <4> HIDE DEF q
      <4>4. ASSUME NEW j \in 1 .. i PROVE q[j] = w[j]
        <5>1. j = i \/ j \in 1 .. i - 1
          BY <1>1
        <5> QED
          BY <4>1, <4>2, <4>3, <5>1 DEF u, w
      <4>5. q = w
        BY <4>2, <4>3, <4>4, SeqEqual DEF w
      <4> QED
        BY <4>5 DEF q, w, u
    <3>3. ReadMore(r) = Result(Ahead(st, m), TRUE, UpTo(s, i))
      BY <2>2, <2>5, <3>1, <3>2 DEF Result
    <3> QED
      BY <1>5, <2>9, <3>3 DEF ReadSoFar, m
  <2>10. CASE ~ (st.pos + m <= Len(st.data))
    <3>1. x = Result(a, FALSE, Nothing)
      BY <2>3, <2>6, <2>7, <2>10
    <3>2. ~ ReadMore(r).ok
      BY <2>5, <3>1 DEF Result
    <3> QED
      BY <1>5, <2>10, <3>2 DEF ReadSoFar, m
  <2> QED
    BY <2>9, <2>10
<1> QED
  BY <1>6, <1>7

(* A list is read when its bytes are there, and the read throws if some    *)
(* are not.                                                                *)
LEMMA ReadListThere ==
  ASSUME StreamAssumption, NEW st \in Streams, NEW s \in Seq(Nat), Fits(Len(s)), \A k \in 1 .. Len(s) : Fits(s[k]),
         Stands(st.data, st.pos, WriteList(s))
  PROVE  LET n == Len(WriteList(s)) IN
         /\ Follow(ReadList(st).st, st)
         /\ IF st.pos + n <= Len(st.data) THEN ReadList(st) = Result(Ahead(st, n), TRUE, s) ELSE ~ ReadList(st).ok
<1> DEFINE w == WriteList(s)
           N == Len(s)
           n == Len(w)
           a == Ahead(st, Width)
           p == Width * N
<1>1. /\ Width \in Nat /\ N \in Nat
      /\ st.data \in Seq(Nat) /\ st.pos \in Nat /\ Len(st.data) \in Nat
  BY LenProperties DEF StreamAssumption, Streams
<1>2. w \in Seq(Nat) /\ Holds(w, s, N)
  BY WriteListHolds
<1> HIDE DEF w
<1>3. p \in Nat /\ n = p + Width
  <2>1. n = Width * (N + 1)
    BY <1>2 DEF Holds
  <2> QED
    BY <1>1, <2>1
<1>4. /\ \A j \in 1 .. Width : w[j] = Bytes(N)[j]
      /\ \A k \in 1 .. N : \A j \in 1 .. Width : w[Width * k + j] = Bytes(s[k])[j]
  BY <1>2 DEF Holds
<1>5. \A j \in 1 .. n : st.pos + j <= Len(st.data) => st.data[st.pos + j] = w[j]
  BY DEF Stands, w
<1> HIDE DEF n, p
<1>6. a \in Streams /\ a.data = st.data /\ a.cut = st.cut /\ a.pos = st.pos + Width
  BY <1>1, AheadFacts DEF Follow
<1> HIDE DEF a
<1>7. Stands(st.data, st.pos, Bytes(N))
  <2>1. Len(Bytes(N)) = Width
    BY <1>1, BytesFacts
  <2>2. ASSUME NEW j \in 1 .. Width, st.pos + j <= Len(st.data) PROVE st.data[st.pos + j] = Bytes(N)[j]
    <3>1. j \in 1 .. n
      BY <1>1, <1>3
    <3> QED
      BY <1>4, <1>5, <2>2, <3>1
  <2> QED
    BY <2>1, <2>2 DEF Stands
<1>8. ReadValue(st) = IF st.pos + Width <= Len(st.data) THEN Result(a, TRUE, N) ELSE Result(st, FALSE, Nothing)
  BY <1>7, ReadValueThere DEF a
<1>9. CASE ~ (st.pos + Width <= Len(st.data))
  <2>1. ReadList(st) = Result(st, FALSE, Nothing)
    BY <1>8, <1>9 DEF ReadList, Result
  <2>2. ~ (st.pos + n <= Len(st.data))
    BY <1>1, <1>3, <1>9
  <2> QED
    BY <2>1, <2>2 DEF Result, Follow, n, w
<1>10. CASE st.pos + Width <= Len(st.data)
  <2>1. ReadList(st) = Reads(a, N)[N]
    BY <1>8, <1>10 DEF ReadList, Result
  <2>2. ValuesThere(a, s)
    <3> SUFFICES ASSUME NEW k \in 1 .. N PROVE Stands(a.data, a.pos + Width * (k - 1), Bytes(s[k]))
      BY DEF ValuesThere
    <3> DEFINE q == Width * k
               o == Width * (k - 1)
    <3>1. k \in Nat /\ k >= 1 /\ k <= N
      BY <1>1
    <3>2. q \in Nat /\ q <= p /\ o \in Nat /\ o + Width = q
      <4>1. k - 1 \in Nat
        BY <3>1
      <4>2. q \in Nat /\ o \in Nat
        BY <1>1, <3>1, <4>1
      <4>3. Width * k <= Width * N
        <5> DEFINE d == N - k
        <5>1. d \in Nat /\ N = k + d
          BY <1>1, <3>1
        <5> HIDE DEF d
        <5>2. Width * (k + d) = Width * k + Width * d /\ Width * d \in Nat
          BY <1>1, <3>1, <5>1
        <5> QED
          BY <4>2, <5>1, <5>2
      <4>4. Width * (k - 1) + Width = Width * k
        BY <1>1, <3>1
      <4> QED
        BY <4>2, <4>3, <4>4 DEF p
    <3>3. Len(Bytes(s[k])) = Width
      BY BytesFacts DEF Fits
    <3>4. ASSUME NEW j \in 1 .. Width PROVE w[q + j] = Bytes(s[k])[j]
      BY <1>4
    <3> HIDE DEF q, o
    <3>5. ASSUME NEW j \in 1 .. Width, (a.pos + o) + j <= Len(a.data)
          PROVE  a.data[(a.pos + o) + j] = Bytes(s[k])[j]
      <4>0. a.pos = st.pos + Width /\ j \in Nat /\ j >= 1 /\ j <= Width
        BY <1>1, <1>6
      <4>1. q + j \in 1 .. n /\ (a.pos + o) + j = st.pos + (q + j)
        <5>1. st.pos \in Nat /\ p \in Nat /\ Width \in Nat /\ n = p + Width
          BY <1>1, <1>3
        <5>2. n \in Nat /\ q + j \in Nat /\ q + j >= 1 /\ q + j <= n
          BY <3>2, <4>0, <5>1
        <5>3. (a.pos + o) + j = st.pos + (q + j)
          <6>1. /\ o \in Nat /\ q \in Nat /\ o + Width = q /\ j \in Nat /\ a.pos = st.pos + Width
            BY <3>2, <4>0
          <6>2. \A x \in Nat : (x + Width) + o = x + (o + Width)
            BY <5>1, <6>1
          <6>3. a.pos + o = st.pos + q
            BY <5>1, <6>1, <6>2
          <6> QED
            BY <5>1, <6>1, <6>3
        <5> QED
          BY <5>2, <5>3
      <4>2. st.data[st.pos + (q + j)] = w[q + j]
        BY <1>5, <1>6, <3>5, <4>1
      <4> QED
        BY <1>6, <3>4, <4>1, <4>2
    <3> QED
      BY <3>3, <3>5 DEF Stands, o
  <2> DEFINE S == {i \in 0 .. N : ReadSoFar(Reads(a, N)[i], a, s, i)}
  <2>3. 0 \in S
    <3>1. Reads(a, N)[0] = Result(a, TRUE, <<>>)
      BY <1>1, <1>6, ReadsFacts
    <3>2. UpTo(s, 0) = <<>>
      <4>1. UpTo(s, 0) \in Seq(Nat) /\ Len(UpTo(s, 0)) = 0
        BY <1>1, UpToFacts
      <4> QED
        BY <4>1, EmptySeq
    <3>3. Ahead(a, 0) = a
      BY <1>6 DEF Ahead, Streams
    <3>4. Width * 0 = 0 /\ a.pos + 0 <= Len(a.data) /\ 0 \in 0 .. N
      BY <1>1, <1>6, <1>10
    <3>5. Result(a, TRUE, <<>>) \in Results /\ Result(a, TRUE, <<>>).st = a
      BY <1>6 DEF Result, Results
    <3> QED
      BY <1>6, <3>1, <3>2, <3>3, <3>4, <3>5 DEF ReadSoFar, Follow
  <2>4. ASSUME NEW i \in 1 .. N, i - 1 \in S PROVE i \in S
    <3>0. i \in 0 .. N
      BY <1>1
    <3>1. Reads(a, N)[i] = ReadMore(Reads(a, N)[i - 1])
      BY <1>1, <1>6, ReadsFacts
    <3>2. ReadSoFar(Reads(a, N)[i - 1], a, s, i - 1)
      BY <2>4
    <3>3. ReadSoFar(ReadMore(Reads(a, N)[i - 1]), a, s, i)
      BY <1>6, <2>2, <3>2, ReadsOneMore
    <3> QED
      BY <3>0, <3>1, <3>3
  <2> HIDE DEF S
  <2>5. N \in S
    <3>1. \A i \in 0 .. N : i \in S
      BY <1>1, <2>3, <2>4, InductionUpTo
    <3> QED
      BY <1>1, <3>1
  <2> DEFINE r == Reads(a, N)[N]
  <2>6. /\ Follow(r.st, a)
        /\ IF a.pos + p <= Len(a.data) THEN r = Result(Ahead(a, p), TRUE, UpTo(s, N)) ELSE ~ r.ok
    BY <2>5 DEF S, ReadSoFar, p
  <2> HIDE DEF r
  <2>7. UpTo(s, N) = s
    <3>1. N \in 0 .. N
      BY <1>1
    <3>2. /\ UpTo(s, N) \in Seq(Nat) /\ Len(UpTo(s, N)) = N
          /\ \A j \in 1 .. N : UpTo(s, N)[j] = s[j]
      BY <3>1, UpToFacts
    <3> QED
      BY <3>2, SeqEqual
  <2>8. Ahead(a, p) = Ahead(st, n)
    BY <1>1, <1>3, AheadTwice DEF a
  <2>9. a.pos + p = st.pos + n
    BY <1>1, <1>3, <1>6
  <2>10. ReadList(st) = r
    BY <2>1 DEF r
  <2> QED
    BY <1>6, <2>6, <2>7, <2>8, <2>9, <2>10 DEF Follow, n, w
<1> QED
  BY <1>9, <1>10

(* Whatever the bytes are: the read of a list throws or does not.          *)
LEMMA ReadListType ==
  ASSUME StreamAssumption, NEW st \in Streams
  PROVE  ReadList(st).ok \in BOOLEAN
<1> DEFINE count == ReadValue(st)
           N == count.val
<1>1. Follow(count.st, st) /\ count.ok \in BOOLEAN /\ (count.ok => N \in Nat)
  BY ReadValueType
<1>2. CASE count.ok
  <2>1. ReadList(st) = Reads(count.st, N)[N]
    BY <1>2 DEF ReadList
  <2>2. N \in Nat /\ N \in 0 .. N /\ count.st \in Streams
    BY <1>1, <1>2 DEF Follow
  <2>3. Reads(count.st, N)[N] \in Results
    BY <2>2, ReadsFacts
  <2> QED
    BY <2>1, <2>3 DEF Results
<1>3. CASE ~ count.ok
  <2>1. ReadList(st) = count
    BY <1>3 DEF ReadList
  <2> QED
    BY <1>1, <2>1
<1> QED
  BY <1>2, <1>3

-----------------------------------------------------------------------------
(* Reads of text.                                                          *)

Zero(s) == SelectInSeq(s, LAMBDA c : c = 0)

(* The first zero of a sequence is found.                                  *)
LEMMA ZeroFacts ==
  ASSUME NEW s \in Seq(Nat)
  PROVE  /\ \A k \in 1 .. Len(s) : s[k] = 0 /\ (\A i \in 1 .. k - 1 : s[i] # 0) => Zero(s) = k
         /\ (\A i \in 1 .. Len(s) : s[i] # 0) => Zero(s) = 0
         /\ Zero(s) \in 0 .. Len(s)
<1> DEFINE I == {i \in 1 .. Len(s) : s[i] = 0}
<1>1. Len(s) \in Nat
  BY LenProperties
<1>2. Zero(s) = IF I # {} THEN Min(I) ELSE 0
  BY DEF Zero, SelectInSeq
<1>3. ASSUME I # {} PROVE Min(I) \in I /\ \A j \in I : Min(I) <= j
  <2>1. \E i \in I : \A j \in I : i <= j
    <3> DEFINE N == Len(s)
               J == {N - i : i \in I}
    <3>1. J \in SUBSET (0 .. N) /\ J # {}
      <4>1. \A i \in I : N - i \in 0 .. N
        BY <1>1
      <4> QED
        BY <1>3, <4>1
    <3> HIDE DEF J
    <3>2. \E x \in J : \A y \in J : y <= x
      BY <1>1, <3>1, LastOne
    <3> USE DEF J
    <3>3. PICK i \in I : \A j \in I : N - j <= N - i
      BY <3>2
    <3>4. \A j \in I : i <= j
      BY <1>1, <3>3
    <3> QED
      BY <3>3, <3>4
  <2> HIDE DEF I
  <2> QED
    BY <2>1 DEF Min
<1>4. ASSUME NEW k \in 1 .. Len(s), s[k] = 0, \A i \in 1 .. k - 1 : s[i] # 0 PROVE Zero(s) = k
  <2>1. k \in I
    BY <1>4
  <2>2. Min(I) \in I /\ Min(I) <= k
    BY <1>3, <2>1
  <2>3. ~ (Min(I) \in 1 .. k - 1)
    BY <1>4, <2>2
  <2>4. Min(I) = k
    BY <1>1, <2>2, <2>3
  <2> QED
    BY <1>2, <2>1, <2>4
<1>5. ASSUME \A i \in 1 .. Len(s) : s[i] # 0 PROVE Zero(s) = 0
  BY <1>2, <1>5
<1>6. Zero(s) \in 0 .. Len(s)
  <2>1. CASE I = {}
    BY <1>1, <1>2, <2>1
  <2>2. CASE I # {}
    <3>1. Min(I) \in 1 .. Len(s)
      BY <1>3, <2>2
    <3> QED
      BY <1>1, <1>2, <2>2, <3>1
  <2> QED
    BY <2>1, <2>2
<1> QED
  BY <1>4, <1>5, <1>6

(* What is in front of a stream.                                           *)
Rest(st) == SubSeq(st.data, st.pos + 1, Len(st.data))

LEMMA RestFacts ==
  ASSUME NEW st \in Streams
  PROVE  /\ Rest(st) \in Seq(Nat)
         /\ Len(Rest(st)) = IF st.pos <= Len(st.data) THEN Len(st.data) - st.pos ELSE 0
         /\ \A j \in 1 .. Len(Rest(st)) : Rest(st)[j] = st.data[st.pos + j]
<1> DEFINE m == st.pos + 1
           N == Len(st.data)
           q == SubSeq(st.data, m, N)
<1>1. st.data \in Seq(Nat) /\ st.pos \in Nat /\ N \in Nat /\ m \in 1 .. m
  BY LenProperties DEF Streams
<1>2. \A k \in m .. N : st.data[k] \in Nat
  <2>1. \A k \in m .. N : k \in 1 .. Len(st.data)
    BY <1>1
  <2> QED
    BY <1>1, <2>1, ElementOfSeq
<1>3. /\ q \in Seq(Nat)
      /\ Len(q) = IF m <= N THEN N - m + 1 ELSE 0
      /\ \A j \in 1 .. N - m + 1 : q[j] = st.data[m + j - 1]
  <2>1. m \in Nat /\ m >= 1
    BY <1>1
  <2> HIDE DEF m, N
  <2> QED
    BY <1>1, <1>2, <2>1, SubSeqProperties
<1> HIDE DEF q
<1>4. Len(q) = IF st.pos <= N THEN N - st.pos ELSE 0
  BY <1>1, <1>3
<1>5. ASSUME NEW j \in 1 .. Len(q) PROVE q[j] = st.data[st.pos + j]
  <2>1. j \in 1 .. N - m + 1 /\ m + j - 1 = st.pos + j
    BY <1>1, <1>3
  <2> QED
    BY <1>3, <2>1
<1> QED
  BY <1>3, <1>4, <1>5 DEF q, Rest

(* A read of text never throws, and leaves the stream where it is or on.   *)
LEMMA ReadStringType ==
  ASSUME NEW st \in Streams
  PROVE  /\ Follow(ReadString(st).st, st) /\ ReadString(st).ok = TRUE
         /\ ReadString(st).st.pos >= st.pos
<1> DEFINE rest == Rest(st)
           z == Zero(rest)
<1>1. rest \in Seq(Nat) /\ Len(rest) \in Nat
  BY RestFacts, LenProperties
<1>2. z \in Nat
  BY <1>1, ZeroFacts
<1>3. ReadString(st) = IF z = 0 THEN Result(Ahead(st, Len(rest)), TRUE, rest)
                       ELSE Result(Ahead(st, z), TRUE, SubSeq(rest, 1, z - 1))
  BY DEF ReadString, Rest, Zero, Ahead
<1> HIDE DEF rest, z
<1>4. st.pos \in Nat
  BY DEF Streams
<1>5. \A n \in Nat : Follow(Ahead(st, n), st) /\ Ahead(st, n).pos >= st.pos
  BY <1>4, AheadFacts
<1> QED
  BY <1>1, <1>2, <1>3, <1>5 DEF Result

(* Text that is wholly there is read, and the part that is there when the  *)
(* stream was cut.                                                         *)
LEMMA ReadStringThere ==
  ASSUME NEW st \in Streams, NEW v \in Seq(Nat), \A i \in 1 .. Len(v) : v[i] # 0,
         Stands(st.data, st.pos, Append(v, 0))
  PROVE  LET n == Len(Append(v, 0)) IN
         /\ st.pos + n <= Len(st.data) => ReadString(st) = Result(Ahead(st, n), TRUE, v)
         /\ ~ (st.pos + n <= Len(st.data)) /\ st.pos <= Len(st.data) =>
              ReadString(st).st.pos = Len(st.data) /\ IsPrefix(ReadString(st).val, v)
<1> DEFINE rest == Rest(st)
           z == Zero(rest)
           N == Len(st.data)
           b == Append(v, 0)
           n == Len(b)
<1>1. st.data \in Seq(Nat) /\ st.pos \in Nat /\ N \in Nat /\ Len(v) \in Nat
  BY LenProperties DEF Streams
<1>2. n = Len(v) + 1 /\ b[Len(v) + 1] = 0 /\ \A j \in 1 .. Len(v) : b[j] = v[j]
  BY AppendProperties
<1>3. ReadString(st) = IF z = 0 THEN Result(Ahead(st, Len(rest)), TRUE, rest)
                       ELSE Result(Ahead(st, z), TRUE, SubSeq(rest, 1, z - 1))
  BY DEF ReadString, Rest, Zero, Ahead
<1>4. /\ rest \in Seq(Nat) /\ Len(rest) = (IF st.pos <= N THEN N - st.pos ELSE 0)
      /\ \A j \in 1 .. Len(rest) : rest[j] = st.data[st.pos + j]
  BY RestFacts
<1>5. /\ \A k \in 1 .. Len(rest) : rest[k] = 0 /\ (\A i \in 1 .. k - 1 : rest[i] # 0) => z = k
      /\ (\A i \in 1 .. Len(rest) : rest[i] # 0) => z = 0
  BY <1>4, ZeroFacts
<1>6. \A j \in 1 .. n : st.pos + j <= N => st.data[st.pos + j] = b[j]
  BY DEF Stands
<1> HIDE DEF rest, z, b, n
<1>7. ASSUME NEW j \in 1 .. Len(v), j <= Len(rest) PROVE rest[j] = v[j] /\ rest[j] # 0
  <2>1. Len(rest) = (IF st.pos <= N THEN N - st.pos ELSE 0) /\ n = Len(v) + 1
    BY <1>2, <1>4
  <2>2. j \in 1 .. n
    BY <1>1, <2>1
  <2>3. j \in 1 .. Len(rest) /\ st.pos + j <= N
    BY <1>1, <1>7, <2>1
  <2> QED
    BY <1>2, <1>4, <1>6, <2>2, <2>3
<1>8. ASSUME st.pos + n <= N PROVE ReadString(st) = Result(Ahead(st, n), TRUE, v)
  <2>1. Len(rest) = N - st.pos /\ n <= Len(rest) /\ n \in Nat /\ n >= 1 /\ n - 1 = Len(v)
    BY <1>1, <1>2, <1>4, <1>8
  <2>2. rest[n] = 0
    <3>1. n \in 1 .. Len(rest) /\ n \in 1 .. n /\ st.pos + n <= N
      BY <1>1, <1>8, <2>1
    <3> QED
      BY <1>2, <1>4, <1>6, <3>1
  <2>3. \A i \in 1 .. n - 1 : rest[i] # 0
    BY <1>1, <1>7, <2>1
  <2>4. z = n
    BY <1>5, <2>1, <2>2, <2>3
  <2>5. SubSeq(rest, 1, n - 1) = v
    <3>0. Len(v) \in 0 .. Len(rest)
      BY <1>1, <2>1
    <3>1. /\ UpTo(rest, Len(v)) \in Seq(Nat) /\ Len(UpTo(rest, Len(v))) = Len(v)
          /\ \A j \in 1 .. Len(v) : UpTo(rest, Len(v))[j] = rest[j]
      BY <1>4, <3>0, UpToFacts
    <3>2. \A j \in 1 .. Len(v) : UpTo(rest, Len(v))[j] = v[j]
      BY <1>1, <1>7, <2>1, <3>1
    <3>3. UpTo(rest, Len(v)) = v
      BY <3>1, <3>2, SeqEqual
    <3> QED
      BY <2>1, <3>3 DEF UpTo
  <2>6. z # 0
    BY <2>1, <2>4
  <2>7. ReadString(st) = Result(Ahead(st, z), TRUE, SubSeq(rest, 1, z - 1))
    BY <1>3, <2>6
  <2> QED
    BY <2>4, <2>5, <2>7
<1>9. ASSUME ~ (st.pos + n <= N), st.pos <= N
      PROVE  ReadString(st).st.pos = N /\ IsPrefix(ReadString(st).val, v)
  <2>1. Len(rest) = N - st.pos /\ Len(rest) \in Nat /\ Len(rest) <= Len(v)
    BY <1>1, <1>2, <1>4, <1>9
  <2>2. \A i \in 1 .. Len(rest) : rest[i] = v[i] /\ rest[i] # 0
    BY <1>1, <1>7, <2>1
  <2>3. z = 0
    BY <1>5, <2>2
  <2>4. ReadString(st) = Result(Ahead(st, Len(rest)), TRUE, rest)
    BY <1>3, <2>3
  <2>5. Ahead(st, Len(rest)).pos = N
    BY <1>1, <2>1, AheadFacts, SMTT(30)
  <2>6. IsPrefix(rest, v)
    <3> DEFINE k == Len(rest)
    <3>1. k \in 0 .. Len(rest) /\ k \in 0 .. Len(v)
      BY <1>1, <2>1
    <3>2. /\ UpTo(rest, k) \in Seq(Nat) /\ Len(UpTo(rest, k)) = k
          /\ \A j \in 1 .. k : UpTo(rest, k)[j] = rest[j]
      BY <1>4, <3>1, UpToFacts
    <3>3. /\ UpTo(v, k) \in Seq(Nat) /\ Len(UpTo(v, k)) = k
          /\ \A j \in 1 .. k : UpTo(v, k)[j] = v[j]
      BY <3>1, UpToFacts
    <3>4. UpTo(rest, k) = UpTo(v, k)
      BY <2>2, <3>2, <3>3, SeqEqual
    <3> QED
      BY <2>1, <3>4 DEF IsPrefix, UpTo
  <2> QED
    BY <2>4, <2>5, <2>6 DEF Result
<1> QED
  BY <1>8, <1>9 DEF n, b

-----------------------------------------------------------------------------
(* Reads of items.                                                         *)

Throwing == {"value", "list", "raw"}

(* align_up() is not less than what it is given.                           *)
LEMMA AlignUpFacts ==
  ASSUME NEW x \in Nat, NEW a \in Nat \ {0}
  PROVE  AlignUp(x, a) \in Nat /\ AlignUp(x, a) >= x
<1>1. \A y \in Nat : (y \div a) * a \in Nat /\ (y \div a) * a >= y - a + 1
  OBVIOUS
<1> DEFINE y == x + a - 1
           z == AlignUp(x, a)
<1>2. y \in Nat /\ y - a + 1 = x
  OBVIOUS
<1>3. z = (y \div a) * a
  BY DEF AlignUp
<1> HIDE DEF y, z
<1>4. z \in Nat /\ z >= y - a + 1
  BY <1>1, <1>2, <1>3
<1> QED
  BY <1>2, <1>4 DEF z

(* Padding() gives so many bytes.                                          *)
LEMMA PaddingFacts ==
  ASSUME NEW n \in Nat
  PROVE  Padding(n) \in Seq(Nat) /\ Len(Padding(n)) = n
<1>1. Padding(n) \in [1 .. n -> Nat]
  BY DEF Padding
<1> QED
  BY <1>1

(* The bytes that a write adds.                                            *)
LEMMA AddedType ==
  ASSUME StreamAssumption, NEW item, ItemOK(item), NEW size \in Nat
  PROVE  Added(size, item) \in Seq(Nat)
<1>1. CASE item.kind = "value"
  BY <1>1, BytesFacts DEF Added, ItemOK, Fits
<1>2. CASE item.kind = "list"
  BY <1>2, WriteListHolds DEF Added, ItemOK
<1>3. CASE item.kind = "string"
  BY <1>3, AppendProperties DEF Added, ItemOK
<1>4. CASE item.kind = "raw"
  BY <1>4 DEF Added, ItemOK
<1>5. CASE item.kind = "pad"
  BY <1>5, PaddingFacts DEF Added, ItemOK
<1>6. CASE item.kind = "align"
  <2>1. AlignUp(size, item.val) - size \in Nat
    BY <1>6, AlignUpFacts DEF ItemOK
  <2> QED
    BY <1>6, <2>1, PaddingFacts DEF Added
<1> QED
  BY <1>1, <1>2, <1>3, <1>4, <1>5, <1>6 DEF ItemOK

(* What the call that matches an item of n bytes does where the item is.   *)
ReadsRight(r, st, w, n) ==
  LET whole == st.pos + n <= Len(st.data) IN
  /\ Follow(r.st, st) /\ r.ok \in BOOLEAN
  /\ whole => r.ok /\ r.st.pos = st.pos + n /\ (w.kind \notin Skipped => r.val = w.val)
  /\ ~ whole /\ r.ok => r.st.pos = st.pos + n \/ r.st.pos >= Len(st.data)
  /\ ~ whole /\ w.kind = "string" /\ st.pos <= Len(st.data) => IsPrefix(r.val, w.val)
  /\ ~ whole /\ w.kind \in Throwing => ~ r.ok

(* A read of what is there is right.                                       *)
LEMMA ReadItemThere ==
  ASSUME StreamAssumption, NEW st \in Streams, NEW w, ItemOK(w), Stands(st.data, st.pos, Added(st.pos, w))
  PROVE  ReadsRight(ReadItem(st, w), st, w, Len(Added(st.pos, w)))
<1> DEFINE b == Added(st.pos, w)
           r == ReadItem(st, w)
           n == Len(b)
<1>1. st.pos \in Nat /\ Len(st.data) \in Nat /\ st.data \in Seq(Nat)
  BY LenProperties DEF Streams
<1>2. b \in Seq(Nat) /\ n \in Nat
  BY <1>1, AddedType, LenProperties
<1>3. Follow(Ahead(st, n), st) /\ Ahead(st, n).pos = st.pos + n
  BY <1>2, AheadFacts
<1>4. Follow(st, st)
  BY DEF Follow
<1>5. CASE w.kind = "value"
  <2>1. b = Bytes(w.val) /\ r = ReadValue(st) /\ Fits(w.val)
    BY <1>5 DEF Added, ReadItem, ItemOK
  <2>2. n = Width
    BY <2>1, BytesFacts DEF Fits
  <2>3. r = IF st.pos + n <= Len(st.data) THEN Result(Ahead(st, n), TRUE, w.val) ELSE Result(st, FALSE, Nothing)
    BY <2>1, <2>2, ReadValueThere
  <2> HIDE DEF r, n
  <2> QED
    BY <1>3, <1>4, <1>5, <2>3 DEF ReadsRight, Result, r, n
<1>6. CASE w.kind = "list"
  <2>1. /\ b = WriteList(w.val) /\ r = ReadList(st)
        /\ w.val \in Seq(Nat) /\ Fits(Len(w.val)) /\ \A k \in 1 .. Len(w.val) : Fits(w.val[k])
    BY <1>6 DEF Added, ReadItem, ItemOK
  <2>2. /\ Follow(r.st, st)
        /\ IF st.pos + n <= Len(st.data) THEN r = Result(Ahead(st, n), TRUE, w.val) ELSE ~ r.ok
    BY <2>1, ReadListThere
  <2>3. r.ok \in BOOLEAN
    BY <2>1, ReadListType
  <2> HIDE DEF r, n
  <2> QED
    BY <1>3, <1>6, <2>2, <2>3 DEF ReadsRight, Result, Throwing, r, n
<1>7. CASE w.kind = "string"
  <2>1. /\ b = Append(w.val, 0) /\ r = ReadString(st)
        /\ w.val \in Seq(Nat) /\ \A i \in 1 .. Len(w.val) : w.val[i] # 0
    BY <1>7 DEF Added, ReadItem, ItemOK
  <2>2. /\ st.pos + n <= Len(st.data) => r = Result(Ahead(st, n), TRUE, w.val)
        /\ ~ (st.pos + n <= Len(st.data)) /\ st.pos <= Len(st.data) =>
             r.st.pos = Len(st.data) /\ IsPrefix(r.val, w.val)
    BY <2>1, ReadStringThere
  <2>3. Follow(r.st, st) /\ r.ok = TRUE /\ r.st.pos >= st.pos
    BY <2>1, ReadStringType
  <2> HIDE DEF r, n
  <2>4. r.st.pos >= Len(st.data) \/ st.pos + n <= Len(st.data)
    <3>1. r.st.pos \in Nat
      BY <2>3 DEF Follow, Streams
    <3> QED
      BY <1>1, <2>2, <2>3, <3>1
  <2>5. ASSUME st.pos + n <= Len(st.data) PROVE r.st.pos = st.pos + n /\ r.val = w.val
    <3>1. r = Result(Ahead(st, n), TRUE, w.val)
      BY <2>2, <2>5
    <3> QED
      BY <1>3, <3>1 DEF Result
  <2>6. ~ (st.pos + n <= Len(st.data)) /\ st.pos <= Len(st.data) => IsPrefix(r.val, w.val)
    BY <2>2
  <2>7. ~ (w.kind \in Throwing)
    BY <1>7 DEF Throwing
  <2>8. ReadsRight(r, st, w, n)
    BY <2>3, <2>4, <2>5, <2>6, <2>7 DEF ReadsRight
  <2> QED
    BY <2>8 DEF r, n
<1>8. CASE w.kind = "raw"
  <2>1. b = w.val /\ r = ReadRaw(st, Len(w.val))
    BY <1>8 DEF Added, ReadItem
  <2>2. r = IF st.pos + n <= Len(st.data) THEN Result(Ahead(st, n), TRUE, w.val) ELSE Result(st, FALSE, Nothing)
    BY <1>2, <2>1, ReadRawThere
  <2> HIDE DEF r, n
  <2> QED
    BY <1>3, <1>4, <1>8, <2>2 DEF ReadsRight, Result, r, n
<1>9. CASE w.kind = "pad"
  <2>1. b = Padding(w.val) /\ r = Shifted(st, w.val) /\ w.val \in Nat
    BY <1>9 DEF Added, ReadItem, ItemOK
  <2>2. n = w.val
    BY <2>1, PaddingFacts
  <2>3. r = Result(Ahead(st, n), TRUE, Nothing)
    BY <2>1, <2>2 DEF Shifted, Ahead
  <2> HIDE DEF r, n
  <2> QED
    BY <1>3, <1>9, <2>3 DEF ReadsRight, Result, Throwing, Skipped, r, n
<1>10. CASE w.kind = "align"
  <2> DEFINE p == AlignUp(st.pos, w.val)
  <2>1. b = Padding(p - st.pos) /\ r = Moved(st, p) /\ w.val \in Nat \ {0}
    BY <1>10 DEF Added, ReadItem, ItemOK
  <2>2. p \in Nat /\ p >= st.pos
    BY <1>1, <2>1, AlignUpFacts
  <2> HIDE DEF p
  <2>3. p - st.pos \in Nat
    BY <1>1, <2>2
  <2>4. n = p - st.pos
    BY <2>1, <2>3, PaddingFacts
  <2>5. st.pos + n = p
    BY <1>1, <2>2, <2>4
  <2>6. r = IF p > Len(st.data) THEN Result(st, FALSE, Nothing) ELSE Result([st EXCEPT !.pos = p], TRUE, Nothing)
    BY <2>1 DEF Moved
  <2>7. Follow([st EXCEPT !.pos = p], st) /\ [st EXCEPT !.pos = p].pos = p
    BY <2>2 DEF Follow, Streams
  <2>8. p > Len(st.data) <=> ~ (p <= Len(st.data))
    BY <1>1, <2>2
  <2> HIDE DEF r, n
  <2> QED
    BY <1>4, <1>10, <2>5, <2>6, <2>7, <2>8 DEF ReadsRight, Result, Throwing, Skipped, r, n
<1> QED
  BY <1>5, <1>6, <1>7, <1>8, <1>9, <1>10 DEF ItemOK

(* Behind the end nothing is read but padding and empty text.              *)
LEMMA ReadItemBeyond ==
  ASSUME StreamAssumption, NEW st \in Streams, NEW w, ItemOK(w), st.pos >= Len(st.data)
  PROVE  /\ Follow(ReadItem(st, w).st, st) /\ ReadItem(st, w).ok \in BOOLEAN
         /\ ReadItem(st, w).ok => ReadItem(st, w).st.pos >= Len(st.data)
         /\ w.kind \in Throwing => ~ ReadItem(st, w).ok /\ ReadItem(st, w).st = st
<1> DEFINE r == ReadItem(st, w)
<1>1. /\ st.pos \in Nat /\ Len(st.data) \in Nat /\ st.data \in Seq(Nat)
      /\ Width \in Nat \ {0}
  BY LenProperties DEF Streams, StreamAssumption
<1>2. Follow(st, st)
  BY DEF Follow
<1>3. \A n \in Nat \ {0} : ReadRaw(st, n) = Result(st, FALSE, Nothing)
  <2>1. \A n \in Nat \ {0} : ~ (st.pos + n <= Len(st.data))
    BY <1>1
  <2> QED
    BY <2>1 DEF ReadRaw
<1>4. ReadValue(st) = Result(st, FALSE, Nothing)
  <2>1. ~ (st.pos + Width <= Len(st.data))
    BY <1>1
  <2> QED
    BY <2>1 DEF ReadValue, ReadRaw, Result
<1>5. CASE w.kind = "value" \/ w.kind = "list" \/ w.kind = "raw"
  <2>1. CASE w.kind = "value"
    <3>1. r = Result(st, FALSE, Nothing)
      BY <1>4, <2>1 DEF ReadItem
    <3> QED
      BY <1>2, <3>1 DEF Result
  <2>2. CASE w.kind = "list"
    <3>1. r = ReadList(st)
      BY <2>2 DEF ReadItem
    <3>2. r = Result(st, FALSE, Nothing)
      BY <1>4, <3>1 DEF ReadList, Result
    <3> QED
      BY <1>2, <3>2 DEF Result
  <2>3. CASE w.kind = "raw"
    <3>1. r = ReadRaw(st, Len(w.val)) /\ w.val \in Seq(Nat) /\ w.val # <<>>
      BY <2>3 DEF ReadItem, ItemOK
    <3>2. Len(w.val) \in Nat \ {0}
      BY <3>1, EmptySeq
    <3>3. r = Result(st, FALSE, Nothing)
      BY <1>3, <3>1, <3>2
    <3> QED
      BY <1>2, <3>3 DEF Result
  <2> QED
    BY <1>5, <2>1, <2>2, <2>3
<1>6. CASE w.kind = "string"
  <2>1. r = ReadString(st)
    BY <1>6 DEF ReadItem
  <2>2. Follow(r.st, st) /\ r.ok = TRUE /\ r.st.pos >= st.pos
    BY <2>1, ReadStringType
  <2>3. r.st.pos \in Nat
    BY <2>2 DEF Follow, Streams
  <2> HIDE DEF r
  <2>4. r.st.pos >= Len(st.data)
    BY <1>1, <2>2, <2>3
  <2> QED
    BY <1>6, <2>2, <2>4 DEF Throwing, r
<1>7. CASE w.kind = "pad"
  <2>1. r = Result(Ahead(st, w.val), TRUE, Nothing) /\ w.val \in Nat
    BY <1>7 DEF ReadItem, Shifted, Ahead, ItemOK
  <2>2. Follow(Ahead(st, w.val), st) /\ Ahead(st, w.val).pos = st.pos + w.val
    BY <2>1, AheadFacts
  <2>3. st.pos + w.val >= Len(st.data)
    BY <1>1, <2>1
  <2> HIDE DEF r
  <2> QED
    BY <1>7, <2>1, <2>2, <2>3 DEF Throwing, Result, r
<1>8. CASE w.kind = "align"
  <2> DEFINE p == AlignUp(st.pos, w.val)
  <2>1. r = Moved(st, p) /\ w.val \in Nat \ {0}
    BY <1>8 DEF ReadItem, ItemOK
  <2>2. p \in Nat /\ p >= st.pos
    BY <1>1, <2>1, AlignUpFacts
  <2> HIDE DEF p
  <2>3. r = IF p > Len(st.data) THEN Result(st, FALSE, Nothing) ELSE Result([st EXCEPT !.pos = p], TRUE, Nothing)
    BY <2>1 DEF Moved
  <2>4. Follow([st EXCEPT !.pos = p], st) /\ [st EXCEPT !.pos = p].pos = p /\ p >= Len(st.data)
    BY <1>1, <2>2 DEF Follow, Streams
  <2> HIDE DEF r
  <2> QED
    BY <1>2, <1>8, <2>3, <2>4 DEF Throwing, Result, r
<1> QED
  BY <1>5, <1>6, <1>7, <1>8 DEF ItemOK

-----------------------------------------------------------------------------
(* The invariant.                                                          *)

Entries == UNION {[kind : {item.kind}, val : {item.val}, at : Nat, len : Nat] : item \in Items}

StreamTypeOK == stream \in Streams /\ written \in Seq(Entries) /\ next \in 1 .. Len(written) + 1

(* Each item begins where the one before it ends.                          *)
EndOf(ws, i) == IF i = 0 THEN 0 ELSE ws[i].at + ws[i].len

Consecutive == \A i \in 1 .. Len(written) : written[i].at = EndOf(written, i - 1)

(* An item's bytes stand where it was put.                                 *)
InPlace ==
  \A i \in 1 .. Len(written) :
    LET w == written[i] IN w.len = Len(Added(w.at, w)) /\ Stands(stream.data, w.at, Added(w.at, w))

(* A stream that was not cut ends where the last item does.                *)
AllThere ==
  ~ stream.cut => /\ Len(stream.data) = EndOf(written, Len(written))
                  /\ \A i \in 1 .. Len(written) : EndOf(written, i) <= Len(stream.data)

(* The reader is at the next item, or behind the end of what was cut.      *)
ReaderPlaced ==
  /\ next <= Len(written) =>
       \/ stream.pos = written[next].at
       \/ stream.cut /\ stream.pos >= Len(stream.data) /\ written[next].at > Len(stream.data)
  /\ ~ stream.cut /\ next = Len(written) + 1 => stream.pos = Len(stream.data)

StreamPlaced == Consecutive /\ InPlace /\ AllThere /\ ReaderPlaced

StreamInv == StreamTypeOK /\ StreamPlaced /\ ReadsWhatWasWritten

(* What is recorded of an item.                                            *)
LEMMA EntryFacts ==
  ASSUME StreamAssumption, NEW w \in Entries
  PROVE  ItemOK(w) /\ w.at \in Nat /\ w.len \in Nat
<1>1. PICK item \in Items : w \in [kind : {item.kind}, val : {item.val}, at : Nat, len : Nat]
  BY DEF Entries
<1>2. ItemOK(item) /\ w.kind = item.kind /\ w.val = item.val /\ w.at \in Nat /\ w.len \in Nat
  BY <1>1 DEF StreamAssumption
<1> QED
  BY <1>2 DEF ItemOK

(* The sizes of what is there.                                             *)
LEMMA SizeFacts ==
  ASSUME StreamAssumption, StreamTypeOK
  PROVE  /\ stream.data \in Seq(Nat) /\ stream.pos \in Nat /\ stream.cut \in BOOLEAN
         /\ Len(stream.data) \in Nat /\ Len(written) \in Nat /\ next \in Nat
         /\ \A i \in 1 .. Len(written) : written[i] \in Entries /\ ItemOK(written[i])
                                         /\ written[i].at \in Nat /\ written[i].len \in Nat
         /\ \A i \in 0 .. Len(written) : EndOf(written, i) \in Nat
<1>1. /\ stream.data \in Seq(Nat) /\ stream.pos \in Nat /\ stream.cut \in BOOLEAN
      /\ Len(stream.data) \in Nat /\ Len(written) \in Nat /\ next \in Nat
  BY LenProperties DEF StreamTypeOK, Streams
<1>2. ASSUME NEW i \in 1 .. Len(written)
      PROVE  /\ written[i] \in Entries /\ ItemOK(written[i])
             /\ written[i].at \in Nat /\ written[i].len \in Nat
  <2>1. written[i] \in Entries
    BY ElementOfSeq DEF StreamTypeOK
  <2> QED
    BY <2>1, EntryFacts
<1>3. ASSUME NEW i \in 0 .. Len(written) PROVE EndOf(written, i) \in Nat
  <2>1. CASE i = 0
    BY <2>1 DEF EndOf
  <2>2. CASE i # 0
    <3>1. i \in 1 .. Len(written)
      BY <1>1, <2>2
    <3> QED
      BY <1>2, <2>2, <3>1 DEF EndOf
  <2> QED
    BY <2>1, <2>2
<1> QED
  BY <1>1, <1>2, <1>3

(* At first nothing is written.                                            *)
LEMMA StreamInvInit ==
  ASSUME StreamAssumption, Init
  PROVE  StreamInv
<1>1. /\ stream = [data |-> <<>>, pos |-> 0, cut |-> FALSE]
      /\ written = <<>> /\ next = 1 /\ got = Nothing
  BY DEF Init
<1>2. Len(written) = 0 /\ Len(stream.data) = 0 /\ stream.pos = 0 /\ ~ (next <= Len(written)) /\ 1 .. Len(written) = {}
  BY <1>1
<1>3. stream \in Streams
  BY <1>1 DEF Streams
<1>4. written \in Seq(Entries)
  BY <1>1
<1>5. StreamTypeOK
  BY <1>1, <1>2, <1>3, <1>4 DEF StreamTypeOK
<1>6. Consecutive /\ InPlace
  BY <1>2 DEF Consecutive, InPlace
<1>7. AllThere
  BY <1>2 DEF AllThere, EndOf
<1>8. ReaderPlaced
  BY <1>2 DEF ReaderPlaced
<1>9. ReadsWhatWasWritten
  BY <1>1 DEF ReadsWhatWasWritten
<1> QED
  BY <1>5, <1>6, <1>7, <1>8, <1>9 DEF StreamInv, StreamPlaced

(* A write puts an item behind the others and leaves them where they are.  *)
LEMMA WriteKeeps ==
  ASSUME StreamAssumption, StreamInv, NEW item \in Items, Write(item)
  PROVE  StreamInv'
<1> DEFINE N == Len(stream.data)
           W == Len(written)
           more == Added(N, item)
           e == [kind |-> item.kind, val |-> item.val, at |-> N, len |-> Len(more)]
<1>1. /\ ~ stream.cut
      /\ stream' = [stream EXCEPT !.data = @ \o more]
      /\ written' = Append(written, e) /\ got' = Nothing /\ next' = next
  BY DEF Write
<1>2. StreamTypeOK /\ Consecutive /\ InPlace /\ AllThere /\ ReaderPlaced
  BY DEF StreamInv, StreamPlaced
<1>3. /\ stream.data \in Seq(Nat) /\ stream.pos \in Nat /\ stream.cut \in BOOLEAN
      /\ N \in Nat /\ W \in Nat /\ next \in Nat
      /\ \A i \in 1 .. W : written[i] \in Entries /\ ItemOK(written[i]) /\ written[i].at \in Nat /\ written[i].len \in Nat
      /\ \A i \in 0 .. W : EndOf(written, i) \in Nat
  BY <1>2, SizeFacts
<1>4. more \in Seq(Nat) /\ Len(more) \in Nat
  <2>1. ItemOK(item)
    BY DEF StreamAssumption
  <2> QED
    BY <1>3, <2>1, AddedType, LenProperties
<1>5. Added(e.at, e) = more /\ e.at = N /\ e.len = Len(more)
  BY DEF Added
<1>6. e \in Entries
  BY <1>3, <1>4 DEF Entries
<1> HIDE DEF e, more
<1> DEFINE d == stream.data \o more
<1>7. /\ stream'.data = d /\ stream'.pos = stream.pos /\ stream'.cut = stream.cut
  BY <1>1, <1>2 DEF StreamTypeOK, Streams
<1>8. /\ d \in Seq(Nat) /\ Len(d) = N + Len(more)
      /\ \A k \in 1 .. N + Len(more) : d[k] = IF k <= N THEN stream.data[k] ELSE more[k - N]
  BY <1>3, <1>4, ConcatProperties
<1> HIDE DEF d, N
<1>9. /\ written' \in Seq(Entries) /\ Len(written') = W + 1 /\ written'[W + 1] = e
      /\ \A i \in 1 .. W : written'[i] = written[i]
  BY <1>1, <1>2, <1>6, AppendProperties DEF StreamTypeOK
<1> HIDE DEF W
<1>10. StreamTypeOK'
  <2>1. stream' \in Streams
    BY <1>1, <1>2, <1>8 DEF StreamTypeOK, Streams, d
  <2>2. next' \in 1 .. Len(written') + 1
    BY <1>1, <1>2, <1>3, <1>9 DEF StreamTypeOK, W
  <2> QED
    BY <1>9, <2>1, <2>2 DEF StreamTypeOK
<1>11. /\ \A i \in 0 .. W : EndOf(written', i) = EndOf(written, i)
       /\ EndOf(written, W) = N /\ EndOf(written', W + 1) = N + Len(more)
  <2>1. ASSUME NEW i \in 0 .. W PROVE EndOf(written', i) = EndOf(written, i)
    <3>1. CASE i = 0
      BY <3>1 DEF EndOf
    <3>2. CASE i # 0
      <4>1. i \in 1 .. W
        BY <1>3, <3>2
      <4> QED
        BY <1>9, <3>2, <4>1 DEF EndOf
    <3> QED
      BY <3>1, <3>2
  <2>2. EndOf(written, W) = N
    BY <1>1, <1>2 DEF AllThere, N, W
  <2>3. EndOf(written', W + 1) = N + Len(more)
    <3>1. W + 1 # 0
      BY <1>3
    <3> QED
      BY <1>5, <1>9, <3>1 DEF EndOf
  <2> QED
    BY <2>1, <2>2, <2>3
<1>12. \A i \in 1 .. W + 1 : i \in 1 .. W \/ i = W + 1
  BY <1>3
<1>13. \A i \in 1 .. W : i - 1 \in 0 .. W /\ i \in 0 .. W /\ EndOf(written, i) = written[i].at + written[i].len
  <2>1. \A i \in 1 .. W : i - 1 \in 0 .. W /\ i \in 0 .. W /\ i # 0
    BY <1>3
  <2> QED
    BY <2>1 DEF EndOf
<1>14. \A i \in 1 .. W : EndOf(written, i) <= N
  BY <1>1, <1>2 DEF AllThere, N, W
<1>15. Consecutive'
  <2>1. ASSUME NEW i \in 1 .. W PROVE written'[i].at = EndOf(written', i - 1)
    <3>1. written[i].at = EndOf(written, i - 1)
      BY <1>2 DEF Consecutive, W
    <3> QED
      BY <1>9, <1>11, <1>13, <3>1
  <2>2. written'[W + 1].at = EndOf(written', W)
    <3>1. W \in 0 .. W
      BY <1>3
    <3> QED
      BY <1>5, <1>9, <1>11, <3>1
  <2>3. (W + 1) - 1 = W
    BY <1>3
  <2>4. ASSUME NEW i \in 1 .. W + 1 PROVE written'[i].at = EndOf(written', i - 1)
    BY <1>12, <2>1, <2>2, <2>3
  <2> QED
    BY <1>9, <2>4 DEF Consecutive
<1>16. InPlace'
  <2>1. ASSUME NEW i \in 1 .. W
        PROVE  LET w == written'[i] IN w.len = Len(Added(w.at, w)) /\ Stands(d, w.at, Added(w.at, w))
    <3> DEFINE w == written[i]
               b == Added(w.at, w)
    <3>1. w.len = Len(b) /\ Stands(stream.data, w.at, b)
      BY <1>2 DEF InPlace, W
    <3>2. w.at \in Nat /\ w.len \in Nat /\ w.at + w.len <= N
      BY <1>3, <1>13, <1>14
    <3> HIDE DEF w, b
    <3>3. ASSUME NEW j \in 1 .. Len(b) PROVE d[w.at + j] = b[j]
      <4>1. w.at + j \in 1 .. N + Len(more) /\ w.at + j <= N
        BY <1>3, <1>4, <3>1, <3>2
      <4>2. stream.data[w.at + j] = b[j]
        BY <3>1, <4>1 DEF Stands, N
      <4> QED
        BY <1>8, <4>1, <4>2
    <3>4. Stands(d, w.at, b)
      BY <3>3 DEF Stands
    <3> QED
      BY <1>9, <3>1, <3>4 DEF w, b
  <2>2. Stands(d, N, more)
    <3>1. ASSUME NEW j \in 1 .. Len(more) PROVE d[N + j] = more[j]
      <4>1. N + j \in 1 .. N + Len(more) /\ ~ (N + j <= N) /\ (N + j) - N = j
        BY <1>3, <1>4
      <4> QED
        BY <1>8, <4>1
    <3> QED
      BY <3>1 DEF Stands
  <2>3. LET w == written'[W + 1] IN w.len = Len(Added(w.at, w)) /\ Stands(d, w.at, Added(w.at, w))
    BY <1>5, <1>9, <2>2
  <2>4. ASSUME NEW i \in 1 .. W + 1
        PROVE  LET w == written'[i] IN w.len = Len(Added(w.at, w)) /\ Stands(d, w.at, Added(w.at, w))
    BY <1>12, <2>1, <2>3
  <2> QED
    BY <1>7, <1>9, <2>4 DEF InPlace
<1>17. AllThere'
  <2>1. Len(d) = EndOf(written', W + 1)
    BY <1>8, <1>11
  <2>2. ASSUME NEW i \in 1 .. W PROVE EndOf(written', i) <= Len(d)
    <3>1. EndOf(written', i) = EndOf(written, i) /\ EndOf(written, i) \in Nat /\ EndOf(written, i) <= N
      BY <1>3, <1>11, <1>13, <1>14
    <3> QED
      BY <1>3, <1>4, <1>8, <3>1
  <2>3. EndOf(written', W + 1) <= Len(d)
    BY <1>3, <1>4, <1>8, <1>11
  <2>4. ASSUME NEW i \in 1 .. W + 1 PROVE EndOf(written', i) <= Len(d)
    BY <1>12, <2>2, <2>3
  <2> QED
    BY <1>7, <1>9, <2>1, <2>4 DEF AllThere
<1>18. ReaderPlaced'
  <2>1. CASE next <= W
    <3>1. next \in 1 .. W /\ next # Len(written') + 1
      BY <1>2, <1>3, <1>9, <2>1 DEF StreamTypeOK
    <3>2. stream.pos = written[next].at
      BY <1>1, <1>2, <2>1 DEF ReaderPlaced, W
    <3> QED
      BY <1>1, <1>7, <1>9, <3>1, <3>2 DEF ReaderPlaced
  <2>2. CASE ~ (next <= W)
    <3>1. next = W + 1 /\ next # Len(written') + 1
      BY <1>2, <1>3, <1>9, <2>2 DEF StreamTypeOK, W
    <3>2. stream.pos = N
      BY <1>1, <1>2, <3>1 DEF ReaderPlaced, W, N
    <3> QED
      BY <1>1, <1>5, <1>7, <1>9, <3>1, <3>2 DEF ReaderPlaced
  <2> QED
    BY <2>1, <2>2
<1>19. ReadsWhatWasWritten'
  BY <1>1 DEF ReadsWhatWasWritten
<1> QED
  BY <1>10, <1>15, <1>16, <1>17, <1>18, <1>19 DEF StreamInv, StreamPlaced

(* A step that leaves the data and what was written alone leaves the items *)
(* where they are.                                                         *)
LEMMA ItemsKept ==
  ASSUME StreamTypeOK, Consecutive, InPlace, AllThere, Follow(stream', stream), UNCHANGED written
  PROVE  Consecutive' /\ InPlace' /\ AllThere' /\ stream' \in Streams
<1>1. stream' \in Streams /\ stream'.data = stream.data /\ stream'.cut = stream.cut /\ written' = written
  BY DEF Follow
<1>2. Consecutive'
  BY <1>1 DEF Consecutive
<1>3. InPlace'
  BY <1>1 DEF InPlace
<1>4. AllThere'
  BY <1>1 DEF AllThere
<1> QED
  BY <1>1, <1>2, <1>3, <1>4

(* A part of a stream has the items as far as it goes.                     *)
LEMMA StreamCutKeeps ==
  ASSUME StreamAssumption, StreamInv, NEW n \in 0 .. Len(stream.data), Cut(n)
  PROVE  StreamInv'
<1> DEFINE d == SubSeq(stream.data, 1, n)
<1>1. /\ stream' = [data |-> d, pos |-> 0, cut |-> TRUE] /\ next' = 1 /\ got' = Nothing /\ written' = written
  BY DEF Cut
<1>2. StreamTypeOK /\ Consecutive /\ InPlace
  BY DEF StreamInv, StreamPlaced
<1>3. stream.data \in Seq(Nat) /\ Len(stream.data) \in Nat /\ Len(written) \in Nat /\ n \in Nat
  BY <1>2, SizeFacts
<1>4. d \in Seq(Nat) /\ Len(d) = n /\ \A j \in 1 .. n : d[j] = stream.data[j]
  BY <1>3, UpToFacts DEF UpTo
<1> HIDE DEF d
<1>5. stream'.data = d /\ stream'.pos = 0 /\ stream'.cut = TRUE /\ stream' \in Streams
  BY <1>1, <1>4 DEF Streams
<1>6. StreamTypeOK'
  BY <1>1, <1>2, <1>3, <1>5 DEF StreamTypeOK
<1>7. Consecutive'
  BY <1>1, <1>2 DEF Consecutive
<1>8. InPlace'
  <2>1. ASSUME NEW i \in 1 .. Len(written)
        PROVE  LET w == written[i] IN w.len = Len(Added(w.at, w)) /\ Stands(d, w.at, Added(w.at, w))
    <3> DEFINE w == written[i]
               b == Added(w.at, w)
    <3>1. w.len = Len(b) /\ Stands(stream.data, w.at, b) /\ w.at \in Nat
      BY <1>2, SizeFacts DEF InPlace
    <3> HIDE DEF w, b
    <3>2. ASSUME NEW j \in 1 .. Len(b), w.at + j <= Len(d) PROVE d[w.at + j] = b[j]
      <4>0. j \in Nat /\ j >= 1 /\ w.at + j <= n /\ n <= Len(stream.data)
        BY <1>3, <1>4, <3>2
      <4>1. w.at + j <= Len(stream.data) /\ w.at + j \in 1 .. n
        BY <1>3, <3>1, <4>0, SMTT(30)
      <4> QED
        BY <1>4, <3>1, <4>1 DEF Stands
    <3>3. Stands(d, w.at, b)
      BY <3>2 DEF Stands
    <3> QED
      BY <3>1, <3>3 DEF w, b
  <2> QED
    BY <1>1, <1>5, <2>1 DEF InPlace
<1>9. AllThere'
  BY <1>5 DEF AllThere
<1>10. ReaderPlaced'
  <2>1. ASSUME 1 <= Len(written) PROVE written[1].at = 0
    <3>1. 1 \in 1 .. Len(written) /\ 1 - 1 = 0
      BY <1>3, <2>1
    <3> QED
      BY <1>2, <3>1 DEF Consecutive, EndOf
  <2> QED
    BY <1>1, <1>5, <2>1 DEF ReaderPlaced
<1>11. ReadsWhatWasWritten'
  BY <1>1 DEF ReadsWhatWasWritten
<1> QED
  BY <1>6, <1>7, <1>8, <1>9, <1>10, <1>11 DEF StreamInv, StreamPlaced

(* The reader goes back to where an item is.                               *)
LEMMA RewindKeeps ==
  ASSUME StreamAssumption, StreamInv, NEW i \in 1 .. Len(written), Rewind(i)
  PROVE  StreamInv'
<1> DEFINE p == written[i].at
<1>1. /\ Moved(stream, p).ok /\ stream' = Moved(stream, p).st
      /\ next' = i /\ got' = Nothing /\ written' = written
  BY DEF Rewind
<1>2. StreamTypeOK /\ Consecutive /\ InPlace /\ AllThere
  BY DEF StreamInv, StreamPlaced
<1>3. p \in Nat /\ Len(written) \in Nat /\ stream \in Streams
  BY <1>2, SizeFacts DEF StreamTypeOK
<1> HIDE DEF p
<1>4. stream' = [stream EXCEPT !.pos = p]
  <2>1. CASE p > Len(stream.data)
    BY <1>1, <2>1 DEF Moved, Result
  <2>2. CASE ~ (p > Len(stream.data))
    BY <1>1, <2>2 DEF Moved, Result
  <2> QED
    BY <2>1, <2>2
<1>5. Follow(stream', stream) /\ stream'.pos = p
  BY <1>3, <1>4 DEF Follow, Streams
<1>6. Consecutive' /\ InPlace' /\ AllThere' /\ stream' \in Streams
  BY <1>1, <1>2, <1>5, ItemsKept
<1>7. StreamTypeOK'
  BY <1>1, <1>2, <1>3, <1>6 DEF StreamTypeOK
<1>8. ReaderPlaced'
  <2>1. next' # Len(written') + 1
    BY <1>1, <1>3
  <2> QED
    BY <1>1, <1>5, <2>1 DEF ReaderPlaced, p
<1>9. ReadsWhatWasWritten'
  BY <1>1 DEF ReadsWhatWasWritten
<1> QED
  BY <1>6, <1>7, <1>8, <1>9 DEF StreamInv, StreamPlaced

(* A read at the end throws and leaves the stream as it is.                *)
LEMMA ReadTooEarlyKeeps ==
  ASSUME StreamAssumption, StreamInv, NEW item \in Items, ReadTooEarly(item)
  PROVE  StreamInv'
<1> DEFINE r == ReadItem(stream, item)
<1>1. /\ ~ stream.cut /\ next = Len(written) + 1 /\ item.kind \in Throwing
      /\ stream' = r.st /\ got' = [item |-> 0, ok |-> r.ok, val |-> r.val]
      /\ written' = written /\ next' = next
  BY DEF ReadTooEarly, Throwing
<1>2. StreamTypeOK /\ Consecutive /\ InPlace /\ AllThere /\ ReaderPlaced
  BY DEF StreamInv, StreamPlaced
<1>3. stream \in Streams /\ stream.pos = Len(stream.data) /\ Len(stream.data) \in Nat
  BY <1>1, <1>2, SizeFacts DEF StreamTypeOK, ReaderPlaced
<1>4. ItemOK(item) /\ stream.pos >= Len(stream.data)
  BY <1>3 DEF StreamAssumption
<1>5. ~ r.ok /\ r.st = stream
  BY <1>1, <1>3, <1>4, ReadItemBeyond
<1> HIDE DEF r
<1>6. stream' = stream
  BY <1>1, <1>5
<1>7. StreamTypeOK' /\ StreamPlaced'
  BY <1>1, <1>2, <1>6 DEF StreamTypeOK, StreamPlaced, Consecutive, InPlace, AllThere, ReaderPlaced
<1>8. ReadsWhatWasWritten'
  <2>1. got'.item = 0 /\ ~ got'.ok
    BY <1>1, <1>5
  <2> QED
    BY <1>3, <1>6, <2>1 DEF ReadsWhatWasWritten
<1> QED
  BY <1>7, <1>8 DEF StreamInv

(* A read of the next item gets it if it is there, and goes on to the next *)
(* unless it throws.                                                       *)
LEMMA ReadKeeps ==
  ASSUME StreamAssumption, StreamInv, Read
  PROVE  StreamInv'
<1> DEFINE i == next
           w == written[i]
           W == Len(written)
           N == Len(stream.data)
           r == ReadItem(stream, w)
           whole == w.at + w.len <= N
<1>1. /\ i <= W /\ stream' = r.st
      /\ got' = [item |-> i, ok |-> r.ok, val |-> r.val]
      /\ next' = IF r.ok THEN i + 1 ELSE W + 1
      /\ written' = written
  BY DEF Read
<1>2. StreamTypeOK /\ Consecutive /\ InPlace /\ AllThere /\ ReaderPlaced
  BY DEF StreamInv, StreamPlaced
<1>3. /\ stream \in Streams /\ stream.pos \in Nat /\ N \in Nat /\ W \in Nat /\ i \in 1 .. W /\ i \in Nat
      /\ stream.cut \in BOOLEAN
  BY <1>1, <1>2, SizeFacts DEF StreamTypeOK
<1>4. ItemOK(w) /\ w.at \in Nat /\ w.len \in Nat
  BY <1>2, <1>3, SizeFacts
<1>5. ~ stream.cut => whole
  <2>1. EndOf(written, i) = w.at + w.len
    BY <1>3 DEF EndOf
  <2> QED
    BY <1>2, <1>3, <2>1 DEF AllThere
<1>6. stream.pos = w.at \/ (stream.cut /\ stream.pos >= N /\ w.at > N)
  BY <1>1, <1>2 DEF ReaderPlaced
<1>7. w.kind \in Skipped \cup {"string"} \cup Throwing
  BY <1>4 DEF ItemOK, Skipped, Throwing
<1>a. whole \in BOOLEAN
  OBVIOUS
<1> HIDE DEF whole
<1> DEFINE Right == /\ Follow(r.st, stream) /\ r.ok \in BOOLEAN
                    /\ whole => r.ok /\ r.st.pos = w.at + w.len /\ (w.kind \notin Skipped => r.val = w.val)
                    /\ ~ whole /\ r.ok => \/ r.st.pos = w.at + w.len
                                          \/ r.st.pos >= N /\ w.at + w.len > N
                    /\ ~ whole /\ w.kind = "string" /\ w.at <= N => IsPrefix(r.val, w.val)
                    /\ ~ whole /\ w.kind \in Throwing => ~ r.ok
<1>8. ASSUME stream.pos = w.at PROVE Right
  <2> DEFINE n == Len(Added(w.at, w))
  <2>1. w.len = n /\ Stands(stream.data, w.at, Added(w.at, w))
    BY <1>2, <1>3 DEF InPlace
  <2>2. ReadsRight(r, stream, w, n)
    BY <1>3, <1>4, <1>8, <2>1, ReadItemThere
  <2> HIDE DEF n, r, w
  <2>3. ReadsRight(r, stream, w, w.len)
    BY <2>1, <2>2
  <2>4. stream.pos + w.len <= Len(stream.data) <=> whole
    BY <1>8 DEF whole
  <2>5. ~ whole => w.at + w.len > N
    BY <1>3, <1>4 DEF whole
  <2>6. /\ Follow(r.st, stream) /\ r.ok \in BOOLEAN
        /\ whole => r.ok /\ r.st.pos = stream.pos + w.len /\ (w.kind \notin Skipped => r.val = w.val)
        /\ ~ whole /\ r.ok => r.st.pos = stream.pos + w.len \/ r.st.pos >= Len(stream.data)
        /\ ~ whole /\ w.kind = "string" /\ stream.pos <= Len(stream.data) => IsPrefix(r.val, w.val)
        /\ ~ whole /\ w.kind \in Throwing => ~ r.ok
    BY <2>3, <2>4 DEF ReadsRight
  <2> QED
    BY <1>8, <2>5, <2>6
<1>9. ASSUME stream.cut, stream.pos >= N, w.at > N PROVE Right
  <2>1. /\ Follow(r.st, stream) /\ r.ok \in BOOLEAN
        /\ r.ok => r.st.pos >= N
        /\ w.kind \in Throwing => ~ r.ok
    BY <1>3, <1>4, <1>9, ReadItemBeyond
  <2> HIDE DEF r, w
  <2>2. ~ whole /\ w.at + w.len > N /\ ~ (w.at <= N)
    BY <1>3, <1>4, <1>9 DEF whole
  <2> QED
    BY <1>a, <2>1, <2>2
<1>10. Right
  <2> HIDE DEF Right
  <2> QED
    BY <1>6, <1>8, <1>9
<1>11. Consecutive' /\ InPlace' /\ AllThere' /\ stream' \in Streams
  BY <1>1, <1>2, <1>10, ItemsKept
<1>12. stream'.data = stream.data /\ stream'.cut = stream.cut /\ stream'.pos = r.st.pos
  BY <1>1, <1>10 DEF Follow
<1>13. StreamTypeOK'
  <2>1. next' \in 1 .. W + 1
    BY <1>1, <1>3
  <2> QED
    BY <1>1, <1>2, <1>11, <2>1 DEF StreamTypeOK
<1>14. ReaderPlaced'
  <2>1. CASE r.ok
    <3>1. next' = i + 1 /\ EndOf(written, i) = w.at + w.len
      BY <1>1, <1>3, <2>1 DEF EndOf
    <3>2. ASSUME i + 1 <= W
          PROVE  \/ stream'.pos = written'[i + 1].at
                 \/ stream'.cut /\ stream'.pos >= Len(stream'.data) /\ written'[i + 1].at > Len(stream'.data)
      <4>1. i + 1 \in 1 .. W /\ (i + 1) - 1 = i
        BY <1>3, <3>2
      <4>2. written[i + 1].at = w.at + w.len
        BY <1>2, <3>1, <4>1 DEF Consecutive
      <4> HIDE DEF r, w
      <4> QED
        BY <1>1, <1>5, <1>10, <1>12, <2>1, <4>2
    <3>3. ASSUME ~ stream.cut, i + 1 = W + 1 PROVE stream'.pos = N
      <4>1. i = W
        BY <1>3, <3>3
      <4>2. EndOf(written, i) = N
        BY <1>2, <3>3, <4>1 DEF AllThere
      <4> HIDE DEF r, w
      <4> QED
        BY <1>5, <1>10, <1>12, <3>1, <3>3, <4>2
    <3> QED
      BY <1>1, <1>12, <3>1, <3>2, <3>3 DEF ReaderPlaced
  <2>2. CASE ~ r.ok
    <3>1. next' = W + 1 /\ ~ (W + 1 <= W)
      BY <1>1, <1>3, <2>2
    <3>2. stream.cut
      BY <1>5, <1>10, <2>2
    <3> QED
      BY <1>1, <1>12, <3>1, <3>2 DEF ReaderPlaced
  <2> QED
    BY <2>1, <2>2
<1>15. ReadsWhatWasWritten'
  <2>1. got'.item = i /\ got'.ok = r.ok /\ got'.val = r.val /\ i # 0 /\ written'[i] = w
    BY <1>1, <1>3
  <2>2. Len(stream'.data) = N
    BY <1>12
  <2> HIDE DEF i, w, r, N
  <2>3. /\ whole => /\ got'.ok /\ stream'.pos = w.at + w.len
                    /\ w.kind \notin Skipped => got'.val = w.val
        /\ ~ whole /\ w.kind = "string" /\ w.at <= N => IsPrefix(got'.val, w.val)
        /\ ~ whole /\ w.kind \notin Skipped \cup {"string"} => ~ got'.ok
    BY <1>7, <1>10, <1>12, <2>1
  <2> QED
    BY <2>1, <2>2, <2>3 DEF ReadsWhatWasWritten, whole
<1> QED
  BY <1>11, <1>13, <1>14, <1>15 DEF StreamInv, StreamPlaced

(* Every step keeps the invariant.                                         *)
LEMMA StreamInvStep ==
  ASSUME StreamAssumption, StreamInv, [Step]_vars
  PROVE  StreamInv'
<1>1. CASE \E item \in Items : Write(item) \/ ReadTooEarly(item)
  BY <1>1, WriteKeeps, ReadTooEarlyKeeps
<1>2. CASE \E n \in 0 .. Len(stream.data) : Cut(n)
  BY <1>2, StreamCutKeeps
<1>3. CASE Read
  BY <1>3, ReadKeeps
<1>4. CASE \E i \in 1 .. Len(written) : Rewind(i)
  BY <1>4, RewindKeeps
<1>5. CASE UNCHANGED vars
  BY <1>5 DEF vars, StreamInv, StreamTypeOK, StreamPlaced, Consecutive, InPlace, AllThere, ReaderPlaced,
              ReadsWhatWasWritten
<1> QED
  BY <1>1, <1>2, <1>3, <1>4, <1>5 DEF Step

-----------------------------------------------------------------------------
(* The theorem.                                                            *)

(* What is wholly there is read as it was written, wherever the stream was *)
(* cut and in whatever order writes, reads and returns follow one another, *)
(* for scalars of any width, lists and texts of any length.                *)
THEOREM ReadsWhatWasWrittenHolds == ASSUME StreamAssumption PROVE Spec => []ReadsWhatWasWritten
<1>1. Init => StreamInv
  BY StreamInvInit
<1>2. StreamInv /\ [Step]_vars => StreamInv'
  BY StreamInvStep
<1>3. StreamInv => ReadsWhatWasWritten
  BY DEF StreamInv
<1> QED
  BY <1>1, <1>2, <1>3, PTL DEF Spec

-----------------------------------------------------------------------------
(* Strings.                                                                *)

StringAssumption ==
  /\ Sso \in Nat /\ Sso > 0
  /\ \A t \in Pieces : t \in Seq(Chars)
  /\ Lengths \subseteq Nat

-----------------------------------------------------------------------------
(* The inductive invariant.                                                *)

Symbols == Chars \cup {End, Junk}

Flags == {"RDATA", "STACK", "HEAP"}

StringType == [flag : Flags, size : Nat, buf : Seq(Symbols)]

(* What is in the object has the room of the object.                       *)
FitsString(s) == s \in StringType /\ (s.flag = "STACK" => Len(s.buf) = Sso)

KeepsText(s, t) ==
  /\ FitsString(s)
  /\ t \in Seq(Chars) /\ s.size = Len(t) /\ Len(t) < Len(s.buf)
  /\ \A i \in 1 .. Len(t) : s.buf[i] = t[i]
  /\ s.buf[Len(t) + 1] = End

StringsInv ==
  /\ str \in StringType /\ str_other \in StringType
  /\ StringsTerminated

-----------------------------------------------------------------------------
(* The operators on sequences.                                             *)

(* PutChars() writes over what it is given the place of.                        *)
LEMMA PutFacts ==
  ASSUME NEW X, NEW buf \in Seq(X), NEW t \in Seq(X), NEW at \in Nat
  PROVE  /\ PutChars(buf, at, t) \in Seq(X) /\ Len(PutChars(buf, at, t)) = Len(buf)
         /\ \A i \in 1 .. Len(buf) :
              PutChars(buf, at, t)[i] = IF i > at /\ i <= at + Len(t) THEN t[i - at] ELSE buf[i]
<1> DEFINE E(i) == IF i > at /\ i <= at + Len(t) THEN t[i - at] ELSE buf[i]
<1>1. PutChars(buf, at, t) = [i \in 1 .. Len(buf) |-> E(i)]
  BY DEF PutChars
<1>2. \A i \in 1 .. Len(buf) : E(i) \in X
  <2> TAKE i \in 1 .. Len(buf)
  <2>1. CASE i > at /\ i <= at + Len(t)
    <3>1. i - at \in 1 .. Len(t)
      BY <2>1
    <3> QED
      BY <2>1, <3>1, ElementOfSeq
  <2>2. CASE ~ (i > at /\ i <= at + Len(t))
    BY <2>2, ElementOfSeq
  <2> QED
    BY <2>1, <2>2
<1>3. \A i \in 1 .. Len(buf) : [j \in 1 .. Len(buf) |-> E(j)][i] = E(i)
  OBVIOUS
<1> HIDE DEF E
<1>4. Len(buf) \in Nat
  OBVIOUS
<1>5. [i \in 1 .. Len(buf) |-> E(i)] \in [1 .. Len(buf) -> X]
  BY <1>2
<1>6. /\ [i \in 1 .. Len(buf) |-> E(i)] \in Seq(X)
      /\ Len([i \in 1 .. Len(buf) |-> E(i)]) = Len(buf)
  BY <1>4, <1>5
<1> USE DEF E
<1> QED
  BY <1>1, <1>3, <1>6

(* What is copied to the front of a buffer, as far as there is room.       *)
LEMMA PutAtStart ==
  ASSUME NEW X, NEW buf \in Seq(X), NEW t \in Seq(X)
  PROVE  /\ PutChars(buf, 0, t) \in Seq(X) /\ Len(PutChars(buf, 0, t)) = Len(buf)
         /\ \A i \in 1 .. Len(buf) : i <= Len(t) => PutChars(buf, 0, t)[i] = t[i]
<1>1. \A k \in Nat :
        /\ PutChars(buf, k, t) \in Seq(X) /\ Len(PutChars(buf, k, t)) = Len(buf)
        /\ \A i \in 1 .. Len(buf) : i > k /\ i <= k + Len(t) => PutChars(buf, k, t)[i] = t[i - k]
  BY PutFacts
<1>2. /\ PutChars(buf, 0, t) \in Seq(X) /\ Len(PutChars(buf, 0, t)) = Len(buf)
      /\ \A i \in 1 .. Len(buf) : i > 0 /\ i <= 0 + Len(t) => PutChars(buf, 0, t)[i] = t[i - 0]
  BY <1>1
<1>3. ASSUME NEW i \in 1 .. Len(buf), i <= Len(t) PROVE i > 0 /\ i <= 0 + Len(t) /\ i - 0 = i
  BY <1>3, LenProperties
<1> QED
  BY <1>2, <1>3

(* A text and its terminator.                                              *)
LEMMA TerminatedFacts ==
  ASSUME NEW t \in Seq(Chars)
  PROVE  /\ t \in Seq(Symbols) /\ Terminated(t) \in Seq(Symbols)
         /\ Len(Terminated(t)) = Len(t) + 1
         /\ \A i \in 1 .. Len(t) : Terminated(t)[i] = t[i]
         /\ Terminated(t)[Len(t) + 1] = End
<1>1. Chars \subseteq Symbols /\ End \in Symbols
  BY DEF Symbols
<1>2. t \in Seq(Symbols)
  BY <1>1, SeqMonotonic
<1> QED
  BY <1>1, <1>2 DEF Terminated

-----------------------------------------------------------------------------
(* Sizes and what is in a string that keeps a text.                        *)

(* A sound string keeps its own text, and no other.                        *)
LEMMA TextIsKept ==
  ASSUME NEW s, NEW t, KeepsText(s, t)
  PROVE  /\ Text(s) = t /\ Sound(s) /\ s \in StringType
         /\ s.size \in Nat /\ s.size = Len(t) /\ s.size < Len(s.buf)
<1>1. /\ s \in StringType /\ s.buf \in Seq(Symbols) /\ t \in Seq(Chars) /\ s.size = Len(t) /\ s.size \in Nat
      /\ Len(t) < Len(s.buf) /\ Len(t) \in 0 .. Len(s.buf)
  BY DEF KeepsText, FitsString, StringType
<1>2. t \in Seq(Symbols)
  BY <1>1, TerminatedFacts
<1>3. /\ UpTo(s.buf, s.size) \in Seq(Symbols) /\ Len(UpTo(s.buf, s.size)) = Len(t)
      /\ \A j \in 1 .. Len(t) : UpTo(s.buf, s.size)[j] = s.buf[j]
  <2>1. s.size \in 0 .. Len(s.buf)
    BY <1>1
  <2>2. /\ UpTo(s.buf, s.size) \in Seq(Symbols) /\ Len(UpTo(s.buf, s.size)) = s.size
        /\ \A j \in 1 .. s.size : UpTo(s.buf, s.size)[j] = s.buf[j]
    BY <1>1, <2>1, UpToFacts
  <2> QED
    BY <1>1, <2>2
<1>4. UpTo(s.buf, s.size) = t
  BY <1>2, <1>3, SeqEqual DEF KeepsText
<1>5. \A i \in 1 .. s.size : s.buf[i] \in Chars
  BY <1>1, ElementOfSeq DEF KeepsText
<1> QED
  BY <1>1, <1>4, <1>5 DEF Text, Sound, KeepsText, FitsString

(* A string that is sound keeps its own text.                              *)
LEMMA SoundKeeps ==
  ASSUME NEW s \in StringType, Sound(s) PROVE KeepsText(s, Text(s))
<1>1. /\ s.buf \in Seq(Symbols) /\ s.size \in Nat /\ s.size \in 0 .. Len(s.buf)
  BY DEF StringType, Sound
<1>2. /\ UpTo(s.buf, s.size) \in Seq(Symbols) /\ Len(UpTo(s.buf, s.size)) = s.size
      /\ \A j \in 1 .. s.size : UpTo(s.buf, s.size)[j] = s.buf[j]
  BY <1>1, UpToFacts
<1>3. UpTo(s.buf, s.size) \in [1 .. s.size -> Chars]
  BY <1>2, LenProperties DEF Sound
<1>4. UpTo(s.buf, s.size) \in Seq(Chars)
  BY <1>1, <1>3
<1> QED
  BY <1>1, <1>2, <1>4 DEF Text, KeepsText, FitsString, Sound

-----------------------------------------------------------------------------
(* Writing and making room.                                                *)

(* A string of the same kind with other characters and another size.       *)
Rewritten(s, buf, n) == [flag : {s.flag}, size : {n}, buf : {buf}]

(* A string with another buffer and size is a rewritten one.               *)
LEMMA RewrittenFacts ==
  ASSUME NEW s \in StringType, NEW buf, NEW n
  PROVE  [s EXCEPT !.buf = buf, !.size = n] \in Rewritten(s, buf, n)
BY DEF StringType, Rewritten

(* What is written behind the beginning of a text makes the whole text.    *)
LEMMA WrittenKeeps ==
  ASSUME NEW r, FitsString(r), NEW at \in Nat, NEW u \in Seq(Chars), NEW v \in Seq(Chars),
         at + Len(u) < Len(r.buf), Len(v) = at + Len(u),
         \A i \in 1 .. at : r.buf[i] = v[i],
         \A i \in 1 .. Len(u) : v[at + i] = u[i],
         NEW x \in Rewritten(r, PutChars(r.buf, at, Terminated(u)), at + Len(u))
  PROVE  KeepsText(x, v)
<1> DEFINE b == PutChars(r.buf, at, Terminated(u))
<1>1. /\ r.buf \in Seq(Symbols) /\ r.flag \in Flags /\ (r.flag = "STACK" => Len(r.buf) = Sso)
      /\ Len(u) \in Nat /\ Len(v) \in Nat /\ Len(r.buf) \in Nat
  BY LenProperties DEF FitsString, StringType
<1>2. /\ Terminated(u) \in Seq(Symbols) /\ Len(Terminated(u)) = Len(u) + 1
      /\ \A i \in 1 .. Len(u) : Terminated(u)[i] = u[i]
      /\ Terminated(u)[Len(u) + 1] = End
  BY TerminatedFacts
<1>3. /\ b \in Seq(Symbols) /\ Len(b) = Len(r.buf)
      /\ \A i \in 1 .. Len(r.buf) :
           b[i] = IF i > at /\ i <= at + Len(Terminated(u)) THEN Terminated(u)[i - at] ELSE r.buf[i]
  BY <1>1, <1>2, PutFacts
<1> HIDE DEF b
<1>4. ASSUME NEW i \in 1 .. Len(v) PROVE b[i] = v[i]
  <2>1. CASE i <= at
    BY <1>1, <1>3, <2>1, SMTT(30)
  <2>2. CASE i > at
    <3>1. i - at \in 1 .. Len(u) /\ i \in 1 .. Len(r.buf) /\ at + (i - at) = i
      BY <1>1, <2>2
    <3>2. b[i] = Terminated(u)[i - at]
      BY <1>2, <1>3, <2>2, <3>1
    <3>3. v[at + (i - at)] = u[i - at]
      BY <3>1
    <3> QED
      BY <1>2, <3>1, <3>2, <3>3
  <2> QED
    BY <1>1, <2>1, <2>2
<1>5. b[Len(v) + 1] = End
  <2>1. /\ Len(v) + 1 \in 1 .. Len(r.buf) /\ Len(v) + 1 > at
        /\ Len(v) + 1 <= at + Len(Terminated(u)) /\ (Len(v) + 1) - at = Len(u) + 1
    BY <1>1, <1>2
  <2> QED
    BY <1>2, <1>3, <2>1, SMTT(30)
<1>6. x.flag = r.flag /\ x.size = at + Len(u) /\ x.buf = b
  BY DEF Rewritten, b
<1>7. x \in StringType
  BY <1>1, <1>3 DEF Rewritten, StringType, b
<1> QED
  BY <1>1, <1>3, <1>4, <1>5, <1>6, <1>7 DEF KeepsText, FitsString

(* The constructors from a text.                                           *)
LEMMA ConstructedStringKeeps ==
  ASSUME StringAssumption, NEW t \in Seq(Chars)
  PROVE  /\ KeepsText(Literal(t), t) /\ KeepsText(InBlock(t), t) /\ KeepsText(ConstructedString(t), t)
         /\ Len(t) < Sso => KeepsText(InObject(t), t)
         /\ FitsString(InObject(t)) /\ Len(InObject(t).buf) = Sso /\ InObject(t).flag = "STACK"
<1>1. /\ Terminated(t) \in Seq(Symbols) /\ Len(Terminated(t)) = Len(t) + 1
      /\ \A i \in 1 .. Len(t) : Terminated(t)[i] = t[i]
      /\ Terminated(t)[Len(t) + 1] = End /\ Len(t) \in Nat
  BY TerminatedFacts, LenProperties
<1>2. KeepsText(Literal(t), t) /\ KeepsText(InBlock(t), t)
  BY <1>1 DEF KeepsText, FitsString, StringType, Flags, Literal, InBlock
<1>3. /\ JunkChars(Sso) \in Seq(Symbols) /\ Len(JunkChars(Sso)) = Sso
  <2>1. Junk \in Symbols /\ Sso \in Int /\ Sso > 0
    BY DEF Symbols, StringAssumption
  <2> QED
    BY <2>1, RepeatedFacts DEF JunkChars
<1> DEFINE b == PutChars(JunkChars(Sso), 0, Terminated(t))
<1>4. /\ b \in Seq(Symbols) /\ Len(b) = Sso
      /\ \A i \in 1 .. Sso : i <= 0 + Len(Terminated(t)) /\ i > 0 => b[i] = Terminated(t)[i - 0]
  BY <1>1, <1>3, PutFacts, ZenonT(40)
<1>5. InObject(t) = [flag |-> "STACK", size |-> Len(t), buf |-> b]
  BY DEF InObject
<1> HIDE DEF b
<1>6. FitsString(InObject(t)) /\ Len(InObject(t).buf) = Sso /\ InObject(t).flag = "STACK"
  BY <1>1, <1>4, <1>5 DEF FitsString, StringType, Flags
<1>7. ASSUME Len(t) < Sso PROVE KeepsText(InObject(t), t)
  <2>1. \A i \in 1 .. Len(t) : b[i] = t[i]
    BY <1>1, <1>4, <1>7 DEF StringAssumption
  <2>2. b[Len(t) + 1] = End
    BY <1>1, <1>4, <1>7 DEF StringAssumption
  <2> QED
    BY <1>1, <1>4, <1>5, <1>6, <1>7, <2>1, <2>2 DEF KeepsText
<1>8. KeepsText(ConstructedString(t), t)
  BY <1>1, <1>2, <1>7 DEF ConstructedString, StringAssumption
<1> QED
  BY <1>2, <1>6, <1>7, <1>8

(* The empty string.                                                       *)
LEMMA EmptyKeeps ==
  ASSUME StringAssumption PROVE KeepsText(Empty, <<>>) /\ Empty.flag = "STACK"
<1>1. End \in Symbols /\ Sso \in Int /\ Sso > 0
  BY DEF Symbols, StringAssumption
<1>2. /\ Repeated(Sso, End) \in Seq(Symbols) /\ Len(Repeated(Sso, End)) = Sso
      /\ \A i \in 1 .. Sso : Repeated(Sso, End)[i] = End
  BY <1>1, RepeatedFacts
<1>3. Repeated(Sso, End)[1] = End
  BY <1>1, <1>2
<1>4. <<>> \in Seq(Chars) /\ Len(<<>>) = 0
  OBVIOUS
<1> QED
  BY <1>1, <1>2, <1>3, <1>4 DEF KeepsText, FitsString, StringType, Flags, Empty

(* A larger block begins with what was there.                              *)
LEMMA GrowFacts ==
  ASSUME NEW s, FitsString(s), s.size < Len(s.buf), NEW n \in Nat
  PROVE  /\ FitsString(Grow(s, n)) /\ Grow(s, n).flag = "HEAP" /\ Grow(s, n).size = s.size
         /\ Len(Grow(s, n).buf) >= n /\ Len(Grow(s, n).buf) > s.size /\ Len(Grow(s, n).buf) \in Nat
         /\ \A i \in 1 .. s.size + 1 : Grow(s, n).buf[i] = s.buf[i]
<1>1. /\ s.buf \in Seq(Symbols) /\ s.size \in Nat /\ Len(s.buf) \in Nat
      /\ s = [flag |-> s.flag, size |-> s.size, buf |-> s.buf]
  BY LenProperties DEF FitsString, StringType
<1>2. Capacity(s) \in Nat /\ Capacity(s) >= s.size + 1
  BY <1>1 DEF Capacity
<1> DEFINE g == GrowthSize(Capacity(s), n)
           old == IF s.flag = "HEAP" THEN s.buf ELSE UpTo(s.buf, s.size + 1)
           b == PutChars(JunkChars(g), 0, old)
<1>3. g \in Nat /\ g >= n /\ g >= s.size + 1
  BY <1>1, <1>2, GrowthSizeFacts
<1>4. Grow(s, n) \in [flag : {"HEAP"}, size : {s.size}, buf : {b}]
  <2>1. \A x : [s EXCEPT !.flag = "HEAP", !.buf = x] \in [flag : {"HEAP"}, size : {s.size}, buf : {x}]
    BY DEF FitsString, StringType
  <2>2. Grow(s, n) = [s EXCEPT !.flag = "HEAP", !.buf = b]
    BY DEF Grow
  <2> QED
    BY <2>1, <2>2
<1>5. /\ old \in Seq(Symbols) /\ Len(old) \in Nat /\ Len(old) >= s.size + 1
      /\ \A i \in 1 .. s.size + 1 : old[i] = s.buf[i]
  <2>1. CASE s.flag = "HEAP"
    BY <1>1, <2>1
  <2>2. CASE s.flag # "HEAP"
    <3>1. s.size + 1 \in 0 .. Len(s.buf)
      BY <1>1
    <3> QED
      BY <1>1, <2>2, <3>1, UpToFacts
  <2> QED
    BY <2>1, <2>2
<1>6. JunkChars(g) \in Seq(Symbols) /\ Len(JunkChars(g)) = g
  <2>1. Junk \in Symbols /\ g \in Int
    BY <1>3 DEF Symbols
  <2>2. Len(Repeated(g, Junk)) = (IF g > 0 THEN g ELSE 0) /\ Repeated(g, Junk) \in Seq(Symbols)
    BY <2>1, RepeatedFacts
  <2> QED
    BY <1>1, <1>3, <2>2 DEF JunkChars
<1> HIDE DEF g, old
<1>7. /\ b \in Seq(Symbols) /\ Len(b) = g
      /\ \A i \in 1 .. g : i > 0 /\ i <= 0 + Len(old) => b[i] = old[i - 0]
  BY <1>5, <1>6, PutFacts
<1> HIDE DEF b
<1>8. \A i \in 1 .. s.size + 1 : b[i] = s.buf[i]
  BY <1>1, <1>3, <1>5, <1>7
<1>9. Grow(s, n).flag = "HEAP" /\ Grow(s, n).size = s.size /\ Grow(s, n).buf = b
  BY <1>4
<1>10. Grow(s, n) \in StringType
  BY <1>1, <1>4, <1>7 DEF StringType, Flags
<1> QED
  BY <1>1, <1>3, <1>7, <1>8, <1>9, <1>10 DEF FitsString

(* RoomFor() makes room for the text it is asked for, whatever was there,  *)
(* and keeps a text that is no longer.                                     *)
LEMMA RoomFacts ==
  ASSUME StringAssumption, NEW s, NEW t, KeepsText(s, t), NEW n \in Nat
  PROVE  /\ FitsString(RoomFor(s, n)) /\ RoomFor(s, n).flag # "RDATA" /\ RoomFor(s, n).size = s.size
         /\ Len(RoomFor(s, n).buf) \in Nat /\ Len(RoomFor(s, n).buf) > n
         /\ n >= Len(t) => \A i \in 1 .. Len(t) : RoomFor(s, n).buf[i] = t[i]
<1>1. /\ FitsString(s) /\ s.flag \in Flags /\ s.size = Len(t) /\ s.size < Len(s.buf) /\ Len(s.buf) \in Nat /\ Sso \in Nat
      /\ s.flag = "STACK" => Len(s.buf) = Sso
      /\ t \in Seq(Chars) /\ Len(t) \in Nat /\ \A i \in 1 .. Len(t) : s.buf[i] = t[i]
  BY LenProperties DEF KeepsText, FitsString, StringType, StringAssumption
<1>2. CASE s.flag # "HEAP" /\ n < Sso
  <2>1. RoomFor(s, n) = Own(s)
    BY <1>2 DEF RoomFor
  <2>2. CASE s.flag = "RDATA"
    <3>1. RoomFor(s, n) = InObject(t)
      BY <2>1, <2>2, TextIsKept DEF Own
    <3>2. FitsString(InObject(t)) /\ Len(InObject(t).buf) = Sso /\ InObject(t).flag = "STACK" /\ InObject(t).size = Len(t)
      BY <1>1, ConstructedStringKeeps DEF InObject
    <3>3. ASSUME n >= Len(t) PROVE \A i \in 1 .. Len(t) : InObject(t).buf[i] = t[i]
      <4>1. Len(t) < Sso
        BY <1>1, <1>2, <3>3
      <4>2. KeepsText(InObject(t), t)
        BY <1>1, <4>1, ConstructedStringKeeps
      <4> QED
        BY <4>2 DEF KeepsText
    <3> QED
      BY <1>1, <1>2, <3>1, <3>2, <3>3
  <2>3. CASE s.flag = "STACK"
    BY <1>1, <1>2, <2>1, <2>3 DEF Own
  <2> QED
    BY <1>1, <1>2, <2>2, <2>3 DEF Flags
<1>3. CASE ~ (s.flag # "HEAP" /\ n < Sso) /\ HasRoom(s, n)
  <2>1. RoomFor(s, n) = s
    BY <1>3 DEF RoomFor
  <2> QED
    BY <1>1, <1>3, <2>1 DEF HasRoom
<1>4. CASE ~ (s.flag # "HEAP" /\ n < Sso) /\ ~ HasRoom(s, n)
  <2>1. RoomFor(s, n) = Grow(s, n + 1)
    BY <1>4 DEF RoomFor
  <2>2. n + 1 \in Nat
    OBVIOUS
  <2>3. /\ FitsString(Grow(s, n + 1)) /\ Grow(s, n + 1).flag = "HEAP" /\ Grow(s, n + 1).size = s.size
        /\ Len(Grow(s, n + 1).buf) >= n + 1 /\ Len(Grow(s, n + 1).buf) \in Nat
        /\ \A i \in 1 .. s.size + 1 : Grow(s, n + 1).buf[i] = s.buf[i]
    BY <1>1, <2>2, GrowFacts
  <2> QED
    BY <1>1, <2>1, <2>3
<1> QED
  BY <1>2, <1>3, <1>4

-----------------------------------------------------------------------------
(* The calls.                                                              *)

(* append() of a text gives the text with the other behind it.             *)
LEMMA AppendKeeps ==
  ASSUME StringAssumption, NEW s, NEW t, KeepsText(s, t), NEW u \in Seq(Chars)
  PROVE  KeepsText(AppendText(s, u), t \o u)
<1>1. t \in Seq(Chars) /\ Len(t) \in Nat /\ Len(u) \in Nat /\ s.size = Len(t)
  BY LenProperties DEF KeepsText
<1>2. CASE u = <<>>
  BY <1>1, <1>2, ConcatEmptySeq DEF AppendText
<1>3. CASE u # <<>>
  <2> DEFINE n == s.size + Len(u)
             r == RoomFor(s, n)
  <2>1. n \in Nat /\ n >= Len(t)
    BY <1>1
  <2>2. /\ FitsString(r) /\ Len(r.buf) \in Nat /\ Len(r.buf) > n
        /\ \A i \in 1 .. Len(t) : r.buf[i] = t[i]
    BY <2>1, RoomFacts
  <2>3. AppendText(s, u) \in Rewritten(r, PutChars(r.buf, Len(t), Terminated(u)), Len(t) + Len(u))
    <3>1. AppendText(s, u) = [r EXCEPT !.buf = PutChars(r.buf, s.size, Terminated(u)), !.size = n]
      BY <1>3 DEF AppendText
    <3>2. r \in StringType
      BY <2>2 DEF FitsString
    <3> QED
      BY <1>1, <3>1, <3>2, RewrittenFacts, ZenonT(40)
  <2>4. /\ t \o u \in Seq(Chars) /\ Len(t \o u) = Len(t) + Len(u)
        /\ \A i \in 1 .. Len(t) + Len(u) : (t \o u)[i] = IF i <= Len(t) THEN t[i] ELSE u[i - Len(t)]
    BY <1>1, ConcatProperties
  <2>5. \A i \in 1 .. Len(t) : r.buf[i] = (t \o u)[i]
    BY <1>1, <2>2, <2>4
  <2>6. \A i \in 1 .. Len(u) : (t \o u)[Len(t) + i] = u[i]
    <3> TAKE i \in 1 .. Len(u)
    <3>1. Len(t) + i \in 1 .. Len(t) + Len(u) /\ ~ (Len(t) + i <= Len(t)) /\ (Len(t) + i) - Len(t) = i
      BY <1>1
    <3> QED
      BY <2>4, <3>1
  <2> HIDE DEF r
  <2>7. Len(t) + Len(u) < Len(r.buf)
    BY <1>1, <2>1, <2>2
  <2> HIDE DEF n
  <2> QED
    BY <1>1, <2>2, <2>3, <2>4, <2>5, <2>6, <2>7, WrittenKeeps
<1> QED
  BY <1>2, <1>3

(* append() of a range gives the same text, character by character.        *)
LEMMA AppendEachKeeps ==
  ASSUME StringAssumption, NEW s, NEW t, KeepsText(s, t), NEW u \in Seq(Chars)
  PROVE  KeepsText(AppendEach(s, u), t \o u)
<1> DEFINE Next(a, n) == AppendText(a, <<u[n]>>)
           Done(g, n) == g = [k \in 0 .. n |-> IF k = 0 THEN s ELSE Next(g[k - 1], k)]
           S == {n \in Nat : \E g : Done(g, n)}
<1>0. Len(u) \in Nat
  BY LenProperties
<1> HIDE DEF Next
<1>1. 0 \in S
  <2>1. Done([k \in 0 .. 0 |-> s], 0)
    OBVIOUS
  <2> QED
    BY <2>1
<1>2. ASSUME NEW n \in S PROVE n + 1 \in S
  <2>1. PICK g : Done(g, n)
    OBVIOUS
  <2> DEFINE h == [k \in 0 .. n + 1 |-> IF k <= n THEN g[k] ELSE Next(g[n], n + 1)]
  <2>2. n \in Nat /\ n + 1 \in Nat
    OBVIOUS
  <2>3. ASSUME NEW k \in 0 .. n + 1 PROVE h[k] = IF k = 0 THEN s ELSE Next(h[k - 1], k)
    <3>1. CASE k <= n
      <4>1. k \in 0 .. n /\ h[k] = g[k] /\ (k # 0 => k - 1 \in 0 .. n + 1 /\ k - 1 <= n)
        BY <2>2, <3>1
      <4>2. k # 0 => h[k - 1] = g[k - 1]
        BY <4>1
      <4>3. g[k] = IF k = 0 THEN s ELSE Next(g[k - 1], k)
        BY <2>1, <4>1
      <4> HIDE DEF h, Done
      <4> QED
        BY <4>1, <4>2, <4>3
    <3>2. CASE k = n + 1
      <4>1. ~ (k <= n) /\ k # 0 /\ k - 1 = n /\ n \in 0 .. n + 1 /\ n <= n
        BY <2>2, <3>2
      <4>2. h[k] = Next(g[n], n + 1) /\ h[n] = g[n]
        BY <2>2, <4>1
      <4> HIDE DEF h, Done
      <4> QED
        BY <3>2, <4>1, <4>2
    <3> QED
      BY <2>2, <3>1, <3>2
  <2>4. Done(h, n + 1)
    <3>1. h = [k \in 0 .. n + 1 |-> h[k]]
      OBVIOUS
    <3> HIDE DEF h
    <3>2. [k \in 0 .. n + 1 |-> h[k]] = [k \in 0 .. n + 1 |-> IF k = 0 THEN s ELSE Next(h[k - 1], k)]
      BY <2>3
    <3> QED
      BY <3>1, <3>2
  <2> HIDE DEF h, Done
  <2> QED
    BY <2>2, <2>4
<1>3. \E g : Done(g, Len(u))
  <2> HIDE DEF Done
  <2>1. S \in SUBSET Nat
    OBVIOUS
  <2> HIDE DEF S
  <2>2. S = Nat
    BY <1>1, <1>2, <2>1, Induction
  <2> USE DEF S
  <2> QED
    BY <1>0, <2>2
<1> DEFINE done == CHOOSE g : Done(g, Len(u))
<1>4. Done(done, Len(u))
  <2> HIDE DEF Done
  <2> QED
    BY <1>3
<1>5. AppendEach(s, u) = done[Len(u)]
  BY DEF AppendEach, Next
<1> HIDE DEF done
<1>6. /\ done[0] = s
      /\ \A k \in 1 .. Len(u) : done[k] = Next(done[k - 1], k)
  BY <1>0, <1>4
<1> DEFINE Kept == {n \in Nat : n <= Len(u) => KeepsText(done[n], t \o UpTo(u, n))}
<1>7. t \in Seq(Chars)
  BY DEF KeepsText
<1>8. 0 \in Kept
  <2>1. UpTo(u, 0) = <<>>
    BY SubSeqEmpty DEF UpTo
  <2>2. t \o UpTo(u, 0) = t
    BY <1>7, <2>1, ConcatEmptySeq
  <2> QED
    BY <1>6, <2>2
<1>9. ASSUME NEW n \in Kept PROVE n + 1 \in Kept
  <2> SUFFICES ASSUME n + 1 <= Len(u) PROVE KeepsText(done[n + 1], t \o UpTo(u, n + 1))
    OBVIOUS
  <2>1. n \in Nat /\ n <= Len(u) /\ n \in 0 .. Len(u) /\ n + 1 \in 1 .. Len(u) /\ (n + 1) - 1 = n
    BY <1>0
  <2>2. KeepsText(done[n], t \o UpTo(u, n))
    BY <2>1
  <2>3. done[n + 1] = AppendText(done[n], <<u[n + 1]>>)
    BY <1>6, <2>1 DEF Next
  <2>4. u[n + 1] \in Chars /\ <<u[n + 1]>> \in Seq(Chars)
    BY <2>1, ElementOfSeq
  <2>5. KeepsText(done[n + 1], (t \o UpTo(u, n)) \o <<u[n + 1]>>)
    BY <2>2, <2>3, <2>4, AppendKeeps
  <2>6. UpTo(u, n) \in Seq(Chars)
    BY <2>1, UpToFacts
  <2>7. (t \o UpTo(u, n)) \o <<u[n + 1]>> = t \o (UpTo(u, n) \o <<u[n + 1]>>)
    BY <1>7, <2>4, <2>6, ConcatAssociative, SMTT(30)
  <2>8. UpTo(u, n + 1) = UpTo(u, n) \o <<u[n + 1]>>
    <3>1. 1 \in 1 .. Len(u) /\ n + 1 \in 1 .. Len(u)
      BY <1>0, <2>1
    <3>2. SubSeq(u, 1, n + 1) = SubSeq(u, 1, (n + 1) - 1) \o <<u[n + 1]>>
      BY <3>1, SubSeqRecursiveSecond
    <3> QED
      BY <2>1, <3>2 DEF UpTo
  <2> QED
    BY <2>5, <2>7, <2>8
<1>10. KeepsText(done[Len(u)], t \o UpTo(u, Len(u)))
  <2>1. Kept \in SUBSET Nat
    OBVIOUS
  <2> HIDE DEF Kept
  <2>2. Kept = Nat
    BY <1>8, <1>9, <2>1, Induction
  <2> USE DEF Kept
  <2> QED
    BY <1>0, <2>2
<1>11. UpTo(u, Len(u)) = u
  BY SubSeqFull DEF UpTo
<1> QED
  BY <1>5, <1>10, <1>11

(* assign() of a text or a range.                                          *)
LEMMA AssignKeeps ==
  ASSUME StringAssumption, NEW s, NEW u \in Seq(Chars)
  PROVE  KeepsText(Assign(s, u), u) /\ KeepsText(AssignEach(s, u), u)
<1>1. KeepsText(Empty, <<>>)
  BY EmptyKeeps
<1>2. <<>> \o u = u
  BY ConcatEmptySeq
<1> QED
  BY <1>1, <1>2, AppendKeeps, AppendEachKeeps DEF Assign, AssignEach, StringClear

(* erase() takes out a part, as far as there is one.                       *)
LEMMA StringEraseKeeps ==
  ASSUME StringAssumption, NEW s, NEW t, KeepsText(s, t), NEW pos \in 0 .. Len(t), NEW n \in Nat
  PROVE  KeepsText(StringErase(s, pos, n), WithoutPart(t, pos, IF pos + n > Len(t) THEN Len(t) ELSE pos + n))
<1> DEFINE count == IF pos + n > s.size THEN s.size - pos ELSE n
           r == RoomFor(s, s.size)
           u == After(t, pos + count)
           v == WithoutPart(t, pos, pos + count)
<1>1. t \in Seq(Chars) /\ Len(t) \in Nat /\ s.size = Len(t) /\ Text(s) = t
  BY LenProperties, TextIsKept DEF KeepsText
<1>2. /\ count \in Nat /\ pos + count \in pos .. Len(t) /\ pos + count \in 0 .. Len(t) /\ pos \in Nat
      /\ pos + count = IF pos + n > Len(t) THEN Len(t) ELSE pos + n
  BY <1>1
<1> HIDE DEF count, u, v, r
<1>3. /\ v \in Seq(Chars) /\ Len(v) = pos + (Len(t) - (pos + count))
      /\ \A k \in 1 .. pos : v[k] = t[k]
      /\ \A k \in 1 .. Len(t) - (pos + count) : v[pos + k] = t[(pos + count) + k]
      /\ pos = pos + count => v = t
  BY <1>1, <1>2, WithoutFacts, ZenonT(40) DEF v
<1>4. /\ u \in Seq(Chars) /\ Len(u) = Len(t) - (pos + count)
      /\ \A j \in 1 .. Len(t) - (pos + count) : u[j] = t[(pos + count) + j]
  BY <1>1, <1>2, AfterFacts DEF u
<1>5. /\ FitsString(r) /\ Len(r.buf) \in Nat /\ Len(r.buf) > Len(t) /\ r.size = Len(t)
      /\ \A i \in 1 .. Len(t) : r.buf[i] = t[i]
  BY <1>1, RoomFacts DEF r
<1>6. CASE count = 0
  <2>1. StringErase(s, pos, n) = s /\ v = t
    BY <1>2, <1>3, <1>6 DEF StringErase, count
  <2> QED
    BY <1>2, <2>1 DEF v
<1>7. CASE count # 0
  <2>1. StringErase(s, pos, n) = [r EXCEPT !.buf = PutChars(r.buf, pos, Terminated(u)), !.size = r.size - count]
    BY <1>1, <1>7 DEF StringErase, count, r, u
  <2>2. r.size - count = pos + Len(u)
    BY <1>1, <1>2, <1>4, <1>5
  <2>3. StringErase(s, pos, n) \in Rewritten(r, PutChars(r.buf, pos, Terminated(u)), pos + Len(u))
    <3>1. r \in StringType
      BY <1>5 DEF FitsString
    <3> QED
      BY <2>1, <2>2, <3>1, RewrittenFacts, ZenonT(40)
  <2>4. /\ pos + Len(u) < Len(r.buf) /\ Len(v) = pos + Len(u)
        /\ \A i \in 1 .. pos : r.buf[i] = v[i]
        /\ \A i \in 1 .. Len(u) : v[pos + i] = u[i]
    <3>1. pos + Len(u) < Len(r.buf) /\ Len(v) = pos + Len(u)
      BY <1>1, <1>2, <1>3, <1>4, <1>5
    <3>2. ASSUME NEW i \in 1 .. pos PROVE r.buf[i] = v[i]
      <4>1. i \in 1 .. Len(t)
        BY <1>1, <1>2
      <4> QED
        BY <1>3, <1>5, <4>1
    <3>3. \A i \in 1 .. Len(u) : v[pos + i] = u[i]
      BY <1>3, <1>4
    <3> QED
      BY <3>1, <3>2, <3>3
  <2>5. KeepsText(StringErase(s, pos, n), v)
    BY <1>2, <1>3, <1>4, <1>5, <2>3, <2>4, WrittenKeeps
  <2> QED
    BY <1>2, <2>5 DEF v
<1> QED
  BY <1>6, <1>7

(* substr().                                                               *)
LEMMA PartKeeps ==
  ASSUME StringAssumption, NEW s, NEW t, KeepsText(s, t), NEW pos \in Nat, NEW n \in Nat
  PROVE  \E v \in Seq(Chars) : /\ KeepsText(Part(s, pos, n), v)
                               /\ pos + n <= Len(t) => v = UpTo(After(t, pos), n)
<1>1. t \in Seq(Chars) /\ Len(t) \in Nat /\ s.size = Len(t) /\ Text(s) = t
  BY LenProperties, TextIsKept DEF KeepsText
<1>2. CASE pos >= s.size
  <2>1. KeepsText(Part(s, pos, n), <<>>)
    BY <1>2, EmptyKeeps DEF Part
  <2>2. ASSUME pos + n <= Len(t) PROVE <<>> = UpTo(After(t, pos), n)
    <3>1. n = 0
      BY <1>1, <1>2, <2>2
    <3> QED
      BY <3>1, SubSeqEmpty DEF UpTo
  <2>3. <<>> \in Seq(Chars)
    OBVIOUS
  <2> QED
    BY <2>1, <2>2, <2>3
<1>3. CASE pos < s.size
  <2> DEFINE a == After(t, pos)
             v == IF n < s.size - pos THEN UpTo(a, n) ELSE a
  <2>1. pos \in 0 .. Len(t)
    BY <1>1, <1>3
  <2>2. a \in Seq(Chars) /\ Len(a) = Len(t) - pos
    BY <1>1, <2>1, AfterFacts
  <2> HIDE DEF a
  <2>3. v \in Seq(Chars) /\ (pos + n <= Len(t) => v = UpTo(a, n))
    <3>1. n < s.size - pos \/ n >= s.size - pos
      BY <1>1
    <3>2. CASE n < s.size - pos
      <4>1. n \in 0 .. Len(a)
        BY <1>1, <1>3, <2>2, <3>2
      <4> QED
        BY <2>2, <3>2, <4>1, UpToFacts
    <3>3. CASE n >= s.size - pos
      <4>1. v = a
        BY <1>1, <3>3
      <4>2. ASSUME pos + n <= Len(t) PROVE v = UpTo(a, n)
        <5>1. n = Len(a)
          BY <1>1, <1>3, <2>2, <3>3, <4>2
        <5> QED
          BY <2>2, <4>1, <5>1, SubSeqFull DEF UpTo
      <4> QED
        BY <2>2, <4>1, <4>2
    <3> QED
      BY <3>1, <3>2, <3>3
  <2>4. Part(s, pos, n) = ConstructedString(v)
    BY <1>1, <1>3 DEF Part, a
  <2> HIDE DEF v
  <2>5. KeepsText(Part(s, pos, n), v)
    BY <2>3, <2>4, ConstructedStringKeeps
  <2> QED
    BY <2>3, <2>5 DEF a
<1> QED
  BY <1>1, <1>2, <1>3

(* reserve() and the growth before a change keep the text.                 *)
LEMMA GrowKeeps ==
  ASSUME NEW s, NEW t, KeepsText(s, t), NEW n \in Nat
  PROVE  KeepsText(Grow(s, n), t) /\ KeepsText(StringReserve(s, n), t)
<1>1. /\ FitsString(s) /\ s.size = Len(t) /\ s.size < Len(s.buf) /\ Len(t) \in Nat
      /\ t \in Seq(Chars) /\ s.buf[Len(t) + 1] = End /\ \A i \in 1 .. Len(t) : s.buf[i] = t[i]
  BY LenProperties DEF KeepsText
<1>2. ASSUME NEW m \in Nat PROVE KeepsText(Grow(s, m), t)
  <2>1. /\ FitsString(Grow(s, m)) /\ Grow(s, m).size = s.size
        /\ Len(Grow(s, m).buf) > s.size
        /\ \A i \in 1 .. s.size + 1 : Grow(s, m).buf[i] = s.buf[i]
    BY <1>1, GrowFacts
  <2>2. \A i \in 1 .. Len(t) : i \in 1 .. s.size + 1
    BY <1>1
  <2>3. Len(t) + 1 \in 1 .. s.size + 1
    BY <1>1
  <2> QED
    BY <1>1, <2>1, <2>2, <2>3 DEF KeepsText
<1>3. StringReserve(s, n) = s \/ StringReserve(s, n) = Grow(s, n + 1)
  BY DEF StringReserve
<1> QED
  BY <1>2, <1>3

(* resize() cuts the text or fills it up.                                  *)
LEMMA StringResizeKeeps ==
  ASSUME StringAssumption, NEW s, NEW t, KeepsText(s, t), NEW n \in Nat, NEW c \in Chars
  PROVE  KeepsText(StringResize(s, n, c), Resized(t, n, c))
<1> DEFINE room == IF (s.flag = "STACK" /\ n < Sso) \/ HasRoom(s, n) THEN s ELSE Grow(s, n + 1)
           v == Resized(t, n, c)
           fill == Repeated(n - s.size, c)
           b == PutChars(room.buf, s.size, fill)
           e == PutChars(b, n, <<End>>)
<1>1. /\ FitsString(s) /\ s.size = Len(t) /\ s.size < Len(s.buf) /\ Len(t) \in Nat /\ Len(s.buf) \in Nat
      /\ t \in Seq(Chars) /\ \A i \in 1 .. Len(t) : s.buf[i] = t[i]
      /\ s.flag = "STACK" => Len(s.buf) = Sso
  BY LenProperties DEF KeepsText, FitsString, StringType
<1>2. /\ FitsString(room) /\ Len(room.buf) > n /\ Len(room.buf) > Len(t) /\ Len(room.buf) \in Nat
      /\ room.buf \in Seq(Symbols) /\ \A i \in 1 .. Len(t) : room.buf[i] = t[i]
  <2>1. CASE (s.flag = "STACK" /\ n < Sso) \/ HasRoom(s, n)
    BY <1>1, <2>1 DEF HasRoom, FitsString, StringType
  <2>2. CASE ~ ((s.flag = "STACK" /\ n < Sso) \/ HasRoom(s, n))
    <3>1. room = Grow(s, n + 1) /\ n + 1 \in Nat
      BY <2>2
    <3> HIDE DEF room
    <3>2. /\ FitsString(room) /\ Len(room.buf) >= n + 1 /\ Len(room.buf) > s.size /\ Len(room.buf) \in Nat
          /\ \A i \in 1 .. s.size + 1 : room.buf[i] = s.buf[i]
      BY <1>1, <3>1, GrowFacts
    <3>3. \A i \in 1 .. Len(t) : i \in 1 .. s.size + 1
      BY <1>1
    <3> QED
      BY <1>1, <3>2, <3>3 DEF FitsString, StringType
  <2> QED
    BY <2>1, <2>2
<1>3. /\ fill \in Seq(Symbols) /\ Len(fill) = (IF n > Len(t) THEN n - Len(t) ELSE 0)
      /\ fill \in Seq(Chars) /\ \A i \in 1 .. n - Len(t) : fill[i] = c
  <2>1. Chars \subseteq Symbols /\ n - s.size \in Int /\ n - s.size = n - Len(t) /\ (n > Len(t) <=> n - Len(t) > 0)
    BY <1>1 DEF Symbols
  <2>2. /\ fill \in Seq(Chars) /\ Len(fill) = (IF n - s.size > 0 THEN n - s.size ELSE 0)
        /\ \A i \in 1 .. n - s.size : fill[i] = c
    BY <2>1, RepeatedFacts
  <2> HIDE DEF fill
  <2>3. fill \in Seq(Symbols)
    BY <2>1, <2>2, SeqMonotonic
  <2> QED
    BY <2>1, <2>2, <2>3
<1>4. StringResize(s, n, c) = IF n = s.size THEN s ELSE [room EXCEPT !.buf = e, !.size = n]
  BY DEF StringResize
<1>5. /\ v \in Seq(Chars) /\ Len(v) = n
      /\ \A i \in 1 .. n : v[i] = IF i <= Len(t) THEN t[i] ELSE c
  <2>1. CASE n <= Len(t)
    <3>1. v = UpTo(t, n) /\ n \in 0 .. Len(t)
      BY <1>1, <2>1 DEF Resized
    <3>2. UpTo(t, n) \in Seq(Chars) /\ Len(UpTo(t, n)) = n /\ \A j \in 1 .. n : UpTo(t, n)[j] = t[j]
      BY <1>1, <3>1, UpToFacts
    <3> HIDE DEF v
    <3> QED
      BY <1>1, <2>1, <3>1, <3>2
  <2>2. CASE n > Len(t)
    <3>1. v = t \o fill
      BY <1>1, <2>2 DEF Resized
    <3> HIDE DEF v, fill
    <3>2. /\ t \o fill \in Seq(Chars) /\ Len(t \o fill) = Len(t) + Len(fill)
          /\ \A i \in 1 .. Len(t) + Len(fill) : (t \o fill)[i] = IF i <= Len(t) THEN t[i] ELSE fill[i - Len(t)]
      BY <1>1, <1>3, ConcatProperties
    <3>3. Len(t) + Len(fill) = n
      BY <1>1, <1>3, <2>2
    <3>4. ASSUME NEW i \in 1 .. n, i > Len(t) PROVE fill[i - Len(t)] = c
      <4>1. i - Len(t) \in 1 .. n - Len(t)
        BY <1>1, <3>4
      <4> QED
        BY <1>3, <4>1
    <3>5. \A i \in 1 .. n : ~ (i <= Len(t)) => i > Len(t)
      BY <1>1
    <3> QED
      BY <3>1, <3>2, <3>3, <3>4, <3>5
  <2> QED
    BY <1>1, <2>1, <2>2
<1> HIDE DEF room, fill, v
<1>6. /\ b \in Seq(Symbols) /\ Len(b) = Len(room.buf)
      /\ \A i \in 1 .. Len(room.buf) :
           b[i] = IF i > Len(t) /\ i <= Len(t) + Len(fill) THEN fill[i - Len(t)] ELSE room.buf[i]
  <2>1. s.size \in Nat /\ s.size = Len(t)
    BY <1>1
  <2>2. /\ b \in Seq(Symbols) /\ Len(b) = Len(room.buf)
        /\ \A i \in 1 .. Len(room.buf) :
             b[i] = IF i > s.size /\ i <= s.size + Len(fill) THEN fill[i - s.size] ELSE room.buf[i]
    <3>1. room.buf \in Seq(Symbols) /\ fill \in Seq(Symbols)
      BY <1>2, <1>3
    <3> QED
      BY <2>1, <3>1, PutFacts
  <2> QED
    BY <2>1, <2>2
<1> HIDE DEF b
<1>7. /\ e \in Seq(Symbols) /\ Len(e) = Len(room.buf)
      /\ \A i \in 1 .. Len(room.buf) : e[i] = IF i > n /\ i <= n + 1 THEN <<End>>[i - n] ELSE b[i]
  <2>1. <<End>> \in Seq(Symbols) /\ Len(<<End>>) = 1
    BY DEF Symbols
  <2>2. /\ e \in Seq(Symbols) /\ Len(e) = Len(b)
        /\ \A i \in 1 .. Len(b) : e[i] = IF i > n /\ i <= n + Len(<<End>>) THEN <<End>>[i - n] ELSE b[i]
    BY <1>6, <2>1, PutFacts
  <2> QED
    BY <1>6, <2>1, <2>2
<1> HIDE DEF e
<1>8. CASE n = s.size
  <2>1. v = t
    BY <1>1, <1>5, <1>8, SeqEqual
  <2> QED
    BY <1>4, <1>8, <2>1 DEF v
<1>9. CASE n # s.size
  <2> DEFINE x == StringResize(s, n, c)
  <2>1. x \in Rewritten(room, e, n)
    <3>1. room \in StringType /\ x = [room EXCEPT !.buf = e, !.size = n]
      BY <1>2, <1>4, <1>9 DEF FitsString
    <3> HIDE DEF x
    <3> QED
      BY <3>1, RewrittenFacts
  <2> HIDE DEF x
  <2>2. x.flag = room.flag /\ x.size = n /\ x.buf = e
    BY <2>1 DEF Rewritten
  <2>3. FitsString(x)
    BY <1>2, <1>7, <2>1, <2>2 DEF FitsString, StringType, Rewritten
  <2>4. ASSUME NEW i \in 1 .. n PROVE e[i] = v[i]
    <3>1. i \in 1 .. Len(room.buf) /\ ~ (i > n) /\ i \in Nat
      BY <1>2
    <3>2. e[i] = b[i]
      BY <1>7, <3>1
    <3>3. CASE i <= Len(t)
      <4>1. i \in 1 .. Len(t) /\ ~ (i > Len(t))
        BY <1>1, <3>1, <3>3
      <4> QED
        BY <1>2, <1>5, <1>6, <3>1, <3>2, <3>3, <4>1
    <3>4. CASE i > Len(t)
      <4>1. i - Len(t) \in 1 .. n - Len(t) /\ i <= Len(t) + Len(fill) /\ ~ (i <= Len(t))
        BY <1>1, <1>3, <3>4
      <4> QED
        BY <1>3, <1>5, <1>6, <3>1, <3>2, <3>4, <4>1
    <3> QED
      BY <1>1, <3>1, <3>3, <3>4
  <2>5. e[n + 1] = End
    <3>1. n + 1 \in 1 .. Len(room.buf) /\ n + 1 > n /\ n + 1 <= n + 1 /\ (n + 1) - n = 1
      BY <1>2
    <3> QED
      BY <1>7, <3>1
  <2>6. KeepsText(x, v)
    BY <1>2, <1>5, <1>7, <2>2, <2>3, <2>4, <2>5 DEF KeepsText
  <2> QED
    BY <2>6 DEF x, v
<1> QED
  BY <1>8, <1>9

(* How much of a string is copied: its text and the terminator are within. *)
LEMMA CapacityFacts ==
  ASSUME NEW s, NEW t, KeepsText(s, t)
  PROVE  Capacity(s) \in Nat /\ Capacity(s) > Len(t) /\ Capacity(s) <= Len(s.buf)
BY LenProperties DEF KeepsText, FitsString, StringType, Capacity

(* A string into which the beginning of another one is copied.             *)
LEMMA CopiedInto ==
  ASSUME NEW o, NEW t, KeepsText(o, t), NEW c \in Nat, c > Len(t), c <= Len(o.buf),
         NEW b \in Seq(Symbols), Len(b) > Len(t),
         NEW x, x.size = Len(t), x.buf = PutChars(b, 0, UpTo(o.buf, c)), x.flag \in Flags,
         x.flag = "STACK" => Len(b) = Sso,
         x \in [flag : Flags, size : Nat, buf : {x.buf}]
  PROVE  KeepsText(x, t)
<1>1. /\ o.buf \in Seq(Symbols) /\ Len(o.buf) \in Nat /\ Len(t) \in Nat /\ t \in Seq(Chars) /\ Len(b) \in Nat
      /\ o.buf[Len(t) + 1] = End /\ \A i \in 1 .. Len(t) : o.buf[i] = t[i]
  BY LenProperties DEF KeepsText, FitsString, StringType
<1> DEFINE u == UpTo(o.buf, c)
<1>2. u \in Seq(Symbols) /\ Len(u) = c /\ \A i \in 1 .. c : u[i] = o.buf[i]
  BY <1>1, UpToFacts
<1>3. x.buf = PutChars(b, 0, u)
  OBVIOUS
<1> HIDE DEF u
<1>4. /\ x.buf \in Seq(Symbols) /\ Len(x.buf) = Len(b)
      /\ \A i \in 1 .. Len(b) : i <= Len(u) => x.buf[i] = u[i]
  BY <1>2, <1>3, PutAtStart
<1>5. ASSUME NEW i \in 1 .. Len(t) + 1 PROVE x.buf[i] = o.buf[i]
  <2>1. i \in 1 .. Len(b) /\ i <= Len(u) /\ i \in 1 .. c
    BY <1>1, <1>2
  <2> QED
    BY <1>2, <1>4, <2>1
<1>6. x \in StringType
  BY <1>4 DEF StringType
<1>7. (\A i \in 1 .. Len(t) : i \in 1 .. Len(t) + 1) /\ Len(t) + 1 \in 1 .. Len(t) + 1
  BY <1>1
<1> QED
  BY <1>1, <1>4, <1>5, <1>6, <1>7 DEF KeepsText, FitsString

(* The copy constructor and operator= of another string.                   *)
LEMMA CopiedKeeps ==
  ASSUME StringAssumption, NEW s, NEW t, KeepsText(s, t) PROVE KeepsText(Copied(s), t)
<1>1. CASE s.flag = "STACK"
  <2>1. Len(t) < Sso /\ Text(s) = t /\ t \in Seq(Chars)
    BY <1>1, TextIsKept DEF KeepsText, FitsString
  <2>2. KeepsText(InObject(t), t)
    BY <2>1, ConstructedStringKeeps
  <2> QED
    BY <1>1, <2>1, <2>2 DEF Copied
<1>2. CASE s.flag # "STACK"
  BY <1>2 DEF Copied
<1> QED
  BY <1>1, <1>2

(* operator= of another string takes over its text and capacity.           *)
LEMMA StringCopyAssignKeeps ==
  ASSUME StringAssumption, NEW s, FitsString(s), s.size < Len(s.buf), NEW o, NEW t, KeepsText(o, t), Assignable(s, o)
  PROVE  KeepsText(StringCopyAssign(s, o), t)
<1> DEFINE c == Capacity(o)
           g == Grow(s, c)
           u == UpTo(o.buf, c)
           x == StringCopyAssign(s, o)
<1>1. c \in Nat /\ c > Len(t) /\ c <= Len(o.buf)
  BY CapacityFacts
<1>2. /\ o \in StringType /\ o.size = Len(t) /\ Len(t) \in Nat /\ o.flag \in Flags /\ o.size \in Nat
      /\ s \in StringType /\ s.flag \in Flags /\ s.buf \in Seq(Symbols)
  BY LenProperties DEF KeepsText, FitsString, StringType
<1>3. CASE o.flag = "RDATA"
  BY <1>3 DEF StringCopyAssign
<1>4. CASE o.flag # "RDATA" /\ s.flag = "STACK" /\ c <= Sso
  <2>1. o.flag = "STACK"
    <3>1. Len(o.buf) \in Nat /\ Sso \in Nat
      BY <1>2, LenProperties DEF StringType, StringAssumption
    <3> QED
      BY <1>2, <1>4, <3>1 DEF Assignable, Capacity, Flags
  <2>2. x = [o EXCEPT !.buf = PutChars(s.buf, 0, u)]
    BY <1>4 DEF StringCopyAssign
  <2>3. Len(s.buf) = Sso /\ Len(s.buf) > Len(t)
    BY <1>1, <1>2, <1>4 DEF FitsString, StringAssumption
  <2> HIDE DEF c, u, x
  <2>4. /\ x \in [flag : Flags, size : Nat, buf : {PutChars(s.buf, 0, u)}]
        /\ x.flag = o.flag /\ x.size = o.size /\ x.buf = PutChars(s.buf, 0, u)
    BY <1>2, <2>2 DEF StringType
  <2>5. x.flag \in Flags /\ x.size = Len(t) /\ x \in [flag : Flags, size : Nat, buf : {x.buf}]
    BY <1>2, <2>4
  <2>6. KeepsText(x, t)
    BY <1>1, <1>2, <2>3, <2>4, <2>5, CopiedInto DEF u
  <2> QED
    BY <2>6 DEF x
<1>5. CASE o.flag # "RDATA" /\ ~ (s.flag = "STACK" /\ c <= Sso)
  <2>1. x = [g EXCEPT !.buf = PutChars(g.buf, 0, u), !.size = o.size]
    BY <1>5 DEF StringCopyAssign
  <2>2. FitsString(g) /\ g.flag = "HEAP" /\ Len(g.buf) >= c /\ Len(g.buf) \in Nat
    BY <1>1, GrowFacts
  <2> HIDE DEF c, g, u, x
  <2>3. g \in StringType /\ g.buf \in Seq(Symbols) /\ Len(g.buf) > Len(t)
    BY <1>1, <1>2, <2>2 DEF FitsString, StringType
  <2>4. x \in Rewritten(g, PutChars(g.buf, 0, u), o.size)
    BY <2>1, <2>3, RewrittenFacts
  <2>5. x.flag = "HEAP" /\ x.size = o.size /\ x.buf = PutChars(g.buf, 0, u)
    BY <2>2, <2>4 DEF Rewritten
  <2>6. x.flag \in Flags /\ x.size = Len(t) /\ x \in [flag : Flags, size : Nat, buf : {x.buf}]
    BY <1>2, <2>2, <2>4, <2>5 DEF Rewritten, Flags
  <2>7. KeepsText(x, t)
    BY <1>1, <2>3, <2>5, <2>6, CopiedInto DEF u
  <2> QED
    BY <2>7 DEF x
<1> QED
  BY <1>3, <1>4, <1>5

(* operator+ of two strings, whichever block the sum is put together in,   *)
(* and of a string and a character.                                        *)
LEMMA PlusKeeps ==
  ASSUME StringAssumption, NEW s, NEW t, KeepsText(s, t), NEW o, NEW u, KeepsText(o, u), Assignable(Empty, s)
  PROVE  KeepsText(Plus(s, o), t \o u)
<1> DEFINE n == s.size + o.size
           v == t \o u
<1>0. /\ t \in Seq(Chars) /\ u \in Seq(Chars) /\ s.size = Len(t) /\ o.size = Len(u)
      /\ Text(s) = t /\ Text(o) = u /\ Sso \in Nat
  BY TextIsKept, Zenon DEF KeepsText, StringAssumption
<1>1. /\ t \in Seq(Chars) /\ u \in Seq(Chars) /\ Len(t) \in Nat /\ Len(u) \in Nat /\ n = Len(t) + Len(u)
      /\ s.size = Len(t) /\ o.size = Len(u) /\ n \in Nat /\ Text(s) = t /\ Text(o) = u /\ Sso \in Nat
  BY <1>0, LenProperties
<1>2. /\ v \in Seq(Chars) /\ Len(v) = Len(t) + Len(u)
      /\ \A i \in 1 .. Len(t) + Len(u) : v[i] = IF i <= Len(t) THEN t[i] ELSE u[i - Len(t)]
  BY <1>1, ConcatProperties
<1>3. \A i \in 1 .. Len(u) : v[Len(t) + i] = u[i]
  <2> TAKE i \in 1 .. Len(u)
  <2>1. Len(t) + i \in 1 .. Len(t) + Len(u) /\ ~ (Len(t) + i <= Len(t)) /\ (Len(t) + i) - Len(t) = i
    BY <1>1
  <2> QED
    BY <1>2, <2>1
<1>4. /\ KeepsText(Empty, <<>>) /\ FitsString(Empty) /\ Empty.size < Len(Empty.buf) /\ Empty.size = 0
  BY EmptyKeeps, TextIsKept DEF KeepsText, Empty
<1>5. CASE n < Sso
  <2>1. Plus(s, o) = InObject(v)
    BY <1>1, <1>5 DEF Plus
  <2> HIDE DEF v
  <2>2. KeepsText(InObject(v), v)
    BY <1>1, <1>2, <1>5, ConstructedStringKeeps
  <2> QED
    BY <2>1, <2>2 DEF v
<1>6. CASE ~ (n < Sso) /\ HasRoom(s, n)
  <2> DEFINE b == PutChars(s.buf, s.size, Terminated(u))
             p == [s EXCEPT !.buf = b]
             q == [s EXCEPT !.buf = b, !.size = n]
             a == StringCopyAssign(Empty, p)
             aq == StringCopyAssign(Empty, q)
  <2>1. /\ s \in StringType /\ FitsString(s) /\ s.flag = "HEAP" /\ Len(s.buf) >= n + 1 /\ Len(s.buf) \in Nat
        /\ \A i \in 1 .. Len(t) : s.buf[i] = t[i]
    BY <1>6, LenProperties DEF HasRoom, KeepsText, FitsString, StringType
  <2>2. PlusLeft(s, o) = p
    BY <1>1, <1>6 DEF PlusLeft
  <2>3. Plus(s, o) = [a EXCEPT !.size = n]
    BY <1>1, <1>6, <2>2 DEF Plus
  <2>4. q \in Rewritten(s, b, n)
    BY <2>1, RewrittenFacts
  <2>5. q.flag = "HEAP" /\ q.buf = b /\ q.size = n
    BY <2>1, <2>4 DEF Rewritten
  <2>6. p.flag = "HEAP" /\ p.buf = b /\ p.size = s.size
    BY <2>1 DEF StringType
  <2> HIDE DEF n, v, b, p, q, a, aq
  <2>7. KeepsText(q, v)
    <3>1. Len(t) + Len(u) < Len(s.buf) /\ b = PutChars(s.buf, Len(t), Terminated(u))
      BY <1>1, <2>1 DEF b
    <3>2. \A i \in 1 .. Len(t) : s.buf[i] = v[i]
      BY <1>1, <1>2, <2>1
    <3>3. q \in Rewritten(s, PutChars(s.buf, Len(t), Terminated(u)), Len(t) + Len(u))
      BY <1>1, <2>4, <3>1
    <3> QED
      BY <1>1, <1>2, <1>3, <2>1, <3>1, <3>2, <3>3, WrittenKeeps
  <2>8. Len(b) = Len(s.buf)
    <3>1. s.buf \in Seq(Symbols) /\ s.size \in Nat
      BY <1>1, <2>1 DEF StringType
    <3>2. Terminated(u) \in Seq(Symbols)
      BY <1>1, TerminatedFacts
    <3> QED
      BY <3>1, <3>2, PutFacts DEF b
  <2>9. Assignable(Empty, q) /\ Empty.flag = "STACK"
    <3>1. Len(q.buf) > Sso
      BY <1>1, <1>6, <2>1, <2>5, <2>8
    <3> QED
      BY <3>1 DEF Assignable, Empty
  <2>10. KeepsText(aq, v)
    BY <1>4, <2>7, <2>9, StringCopyAssignKeeps DEF aq
  <2>11. Capacity(p) = Len(b) /\ Capacity(q) = Len(b) /\ ~ (Len(b) <= Sso)
    BY <1>1, <1>6, <2>1, <2>5, <2>6, <2>8 DEF Capacity
  <2> DEFINE g == Grow(Empty, Len(b))
             c == PutChars(g.buf, 0, UpTo(b, Len(b)))
  <2>12. /\ a = [g EXCEPT !.buf = c, !.size = s.size]
         /\ aq = [g EXCEPT !.buf = c, !.size = n]
    BY <2>5, <2>6, <2>11 DEF StringCopyAssign, a, aq
  <2>13. Plus(s, o) = aq
    BY <2>3, <2>12
  <2> QED
    BY <2>10, <2>13 DEF v
<1>7. CASE ~ (n < Sso) /\ ~ HasRoom(s, n)
  <2> DEFINE g == Grow(Empty, n + 1)
             x == Plus(s, o)
  <2>1. x = [g EXCEPT !.buf = PutChars(g.buf, 0, Terminated(v)), !.size = n]
    BY <1>1, <1>7 DEF Plus
  <2> HIDE DEF n, v
  <2>2. n + 1 \in Nat
    BY <1>1
  <2>3. FitsString(g) /\ Len(g.buf) >= n + 1 /\ Len(g.buf) \in Nat
    BY <1>4, <2>2, GrowFacts
  <2> HIDE DEF g, x
  <2>4. x \in Rewritten(g, PutChars(g.buf, 0, Terminated(v)), n)
    BY <2>1, <2>3, RewrittenFacts DEF FitsString
  <2>5. /\ 0 \in Nat /\ 0 + Len(v) = n /\ 0 + Len(v) < Len(g.buf) /\ Len(v) = 0 + Len(v)
        /\ (\A i \in 1 .. 0 : g.buf[i] = v[i]) /\ \A i \in 1 .. Len(v) : v[0 + i] = v[i]
    BY <1>1, <1>2, <2>3
  <2>6. x \in Rewritten(g, PutChars(g.buf, 0, Terminated(v)), 0 + Len(v))
    BY <2>4, <2>5
  <2>7. KeepsText(x, v)
    BY <1>2, <2>3, <2>5, <2>6, WrittenKeeps
  <2> QED
    BY <2>7 DEF x, v
<1> QED
  BY <1>5, <1>6, <1>7

(* A text of its own put together in a block for it.                       *)
LEMMA BlockKeeps ==
  ASSUME StringAssumption, NEW v \in Seq(Chars), NEW x,
         x = [Grow(Empty, Len(v) + 1) EXCEPT !.buf = PutChars(@, 0, Terminated(v)), !.size = Len(v)]
  PROVE  KeepsText(x, v)
<1> DEFINE g == Grow(Empty, Len(v) + 1)
<1>1. FitsString(Empty) /\ Empty.size < Len(Empty.buf)
  BY EmptyKeeps, TextIsKept DEF KeepsText
<1>2. Len(v) \in Nat /\ Len(v) + 1 \in Nat
  BY LenProperties
<1>3. FitsString(g) /\ Len(g.buf) >= Len(v) + 1 /\ Len(g.buf) \in Nat
  BY <1>1, <1>2, GrowFacts
<1> HIDE DEF g
<1>4. x \in Rewritten(g, PutChars(g.buf, 0, Terminated(v)), Len(v))
  <2>1. g \in StringType
    BY <1>3 DEF FitsString
  <2>2. x = [g EXCEPT !.buf = PutChars(g.buf, 0, Terminated(v)), !.size = Len(v)]
    BY DEF g
  <2>3. [g EXCEPT !.buf = PutChars(g.buf, 0, Terminated(v)), !.size = Len(v)]
          \in Rewritten(g, PutChars(g.buf, 0, Terminated(v)), Len(v))
    BY <2>1, RewrittenFacts
  <2> QED
    BY <2>2, <2>3, Zenon
<1>5. /\ 0 \in Nat /\ 0 + Len(v) < Len(g.buf) /\ Len(v) = 0 + Len(v)
      /\ (\A i \in 1 .. 0 : g.buf[i] = v[i]) /\ \A i \in 1 .. Len(v) : v[0 + i] = v[i]
  BY <1>2, <1>3
<1>6. x \in Rewritten(g, PutChars(g.buf, 0, Terminated(v)), 0 + Len(v))
  BY <1>4, <1>5
<1> QED
  BY <1>3, <1>5, <1>6, WrittenKeeps

(* operator+ of a character makes a text longer by it.                     *)
LEMMA PlusCharKeeps ==
  ASSUME StringAssumption, NEW s, NEW t, KeepsText(s, t), NEW c \in Chars
  PROVE  KeepsText(PlusChar(s, c), Append(t, c))
<1> DEFINE v == Append(t, c)
<1>1. t \in Seq(Chars) /\ s.size = Len(t) /\ Text(s) = t /\ Len(t) \in Nat
  BY TextIsKept, LenProperties DEF KeepsText
<1>2. v \in Seq(Chars) /\ Len(v) = s.size + 1 /\ s.size + 2 = Len(v) + 1
  BY <1>1
<1>3. PlusChar(s, c) = IF s.size + 1 < Sso THEN InObject(v)
                       ELSE [Grow(Empty, s.size + 2) EXCEPT !.buf = PutChars(@, 0, Terminated(v)), !.size = s.size + 1]
  BY <1>1 DEF PlusChar
<1> HIDE DEF v
<1>4. CASE s.size + 1 < Sso
  <2>1. KeepsText(InObject(v), v)
    BY <1>2, <1>4, ConstructedStringKeeps
  <2> QED
    BY <1>3, <1>4, <2>1 DEF v
<1>5. CASE ~ (s.size + 1 < Sso)
  <2>1. PlusChar(s, c) = [Grow(Empty, Len(v) + 1) EXCEPT !.buf = PutChars(@, 0, Terminated(v)), !.size = Len(v)]
    BY <1>2, <1>3, <1>5
  <2>2. KeepsText(PlusChar(s, c), v)
    BY <1>2, <2>1, BlockKeeps
  <2> QED
    BY <2>2 DEF v
<1> QED
  BY <1>4, <1>5

(* replace(): where the guard holds, the text before and behind the part   *)
(* is still there when the new text is put together.                       *)
LEMMA ReplaceKeeps ==
  ASSUME StringAssumption, NEW s, NEW t, KeepsText(s, t), NEW pos \in 0 .. Len(t), NEW len \in Nat,
         NEW p \in Seq(Chars), StringReplaceable(s, pos, len, p)
  PROVE  KeepsText(Replace(s, pos, len, p),
               UpTo(t, pos) \o p \o After(t, IF pos + len > Len(t) THEN Len(t) ELSE pos + len))
<1> DEFINE count == IF len < s.size - pos THEN len ELSE s.size - pos
           n == s.size - count + Len(p)
           room == RoomFor(s, n)
           moved == s.flag # "RDATA" /\ room.buf # s.buf
           old == IF s.flag = "RDATA" THEN s.buf ELSE IF moved THEN JunkChars(s.size) ELSE PutChars(s.buf, pos, p)
           tail == After(UpTo(old, s.size), pos + count)
           v == UpTo(t, pos) \o p \o After(t, pos + count)
           w == UpTo(old, pos) \o p \o tail \o <<End>>
<1>1. /\ t \in Seq(Chars) /\ Len(t) \in Nat /\ s.size = Len(t) /\ pos \in Nat /\ pos <= Len(t) /\ Len(p) \in Nat
      /\ s \in StringType /\ FitsString(s) /\ s.buf \in Seq(Symbols) /\ Len(s.buf) \in Nat /\ Len(t) < Len(s.buf)
      /\ \A i \in 1 .. Len(t) : s.buf[i] = t[i]
  BY LenProperties DEF KeepsText, FitsString, StringType
<1>2. /\ count \in Nat /\ pos + count <= Len(t) /\ n \in Nat /\ n = pos + Len(p) + (Len(t) - (pos + count))
      /\ pos + count = IF pos + len > Len(t) THEN Len(t) ELSE pos + len
  BY <1>1
<1>3. Replace(s, pos, len, p) = [room EXCEPT !.buf = PutChars(room.buf, 0, w), !.size = n]
  BY <1>1 DEF Replace
<1>4. \/ s.flag = "RDATA"
      \/ /\ IF s.flag = "STACK" THEN n < Sso ELSE HasRoom(s, n)
         /\ Len(p) <= count \/ pos + count = s.size
      \/ pos = 0 /\ count = s.size
  BY DEF StringReplaceable
<1> HIDE DEF count, n
<1>5. /\ FitsString(room) /\ Len(room.buf) \in Nat /\ Len(room.buf) > n
  BY <1>2, RoomFacts
<1>6. Chars \subseteq Symbols /\ p \in Seq(Symbols) /\ t \in Seq(Symbols)
  BY <1>1, SeqMonotonic DEF Symbols
<1>7. old \in Seq(Symbols) /\ Len(old) >= s.size /\ Len(old) \in Nat
  <2>1. PutChars(s.buf, pos, p) \in Seq(Symbols) /\ Len(PutChars(s.buf, pos, p)) = Len(s.buf)
    BY <1>1, <1>6, PutFacts
  <2>2. JunkChars(s.size) \in Seq(Symbols) /\ Len(JunkChars(s.size)) = s.size
    <3>1. Junk \in Symbols /\ s.size \in Int
      BY <1>1 DEF Symbols
    <3>2. Repeated(s.size, Junk) \in Seq(Symbols) /\ Len(Repeated(s.size, Junk)) = IF s.size > 0 THEN s.size ELSE 0
      BY <3>1, RepeatedFacts
    <3> QED
      BY <1>1, <3>2 DEF JunkChars
  <2> HIDE DEF moved, room
  <2> QED
    BY <1>1, <2>1, <2>2
<1>8. (\A i \in 1 .. pos : old[i] = t[i]) /\ \A i \in pos + count + 1 .. Len(t) : old[i] = t[i]
  <2>1. CASE s.flag = "RDATA"
    <3>1. old = s.buf
      BY <2>1
    <3> HIDE DEF old
    <3>2. \A i \in pos + count + 1 .. Len(t) : i \in 1 .. Len(t)
      BY <1>1, <1>2
    <3>3. \A i \in 1 .. pos : i \in 1 .. Len(t)
      BY <1>1
    <3> QED
      BY <1>1, <3>1, <3>2, <3>3
  <2>2. CASE /\ s.flag # "RDATA"
             /\ IF s.flag = "STACK" THEN n < Sso ELSE HasRoom(s, n)
             /\ Len(p) <= count \/ pos + count = s.size
    <3>1. room = s
      BY <2>2 DEF RoomFor, Own, HasRoom
    <3>2. old = PutChars(s.buf, pos, p)
      BY <2>2, <3>1
    <3> HIDE DEF old, room
    <3>3. \A i \in 1 .. Len(s.buf) :
            PutChars(s.buf, pos, p)[i] = IF i > pos /\ i <= pos + Len(p) THEN p[i - pos] ELSE s.buf[i]
      BY <1>1, <1>6, PutFacts
    <3>4. ASSUME NEW i \in 1 .. pos PROVE old[i] = t[i]
      <4>1. i \in 1 .. Len(t) /\ i \in 1 .. Len(s.buf) /\ ~ (i > pos)
        BY <1>1
      <4> QED
        BY <1>1, <3>2, <3>3, <4>1
    <3>5. ASSUME NEW i \in pos + count + 1 .. Len(t) PROVE old[i] = t[i]
      <4>1. i \in 1 .. Len(t) /\ i \in 1 .. Len(s.buf) /\ ~ (i <= pos + Len(p))
        BY <1>1, <1>2, <2>2
      <4> QED
        BY <1>1, <3>2, <3>3, <4>1
    <3> QED
      BY <3>4, <3>5
  <2>3. CASE pos = 0 /\ count = s.size
    BY <1>1, <2>3
  <2> QED
    BY <1>4, <2>1, <2>2, <2>3
<1> HIDE DEF old, room, moved
<1> DEFINE a == UpTo(old, pos)
<1>9. a = UpTo(t, pos) /\ a \in Seq(Chars) /\ Len(a) = pos
  <2>1. pos \in 0 .. Len(old) /\ pos \in 0 .. Len(t)
    BY <1>1, <1>7
  <2>2. a \in Seq(Symbols) /\ Len(a) = pos /\ \A j \in 1 .. pos : a[j] = old[j]
    BY <1>7, <2>1, UpToFacts
  <2>3. /\ UpTo(t, pos) \in Seq(Chars) /\ UpTo(t, pos) \in Seq(Symbols) /\ Len(UpTo(t, pos)) = pos
        /\ \A j \in 1 .. pos : UpTo(t, pos)[j] = t[j]
    BY <1>1, <1>6, <2>1, UpToFacts
  <2> HIDE DEF a
  <2>4. \A j \in 1 .. Len(a) : a[j] = UpTo(t, pos)[j]
    BY <1>8, <2>2, <2>3
  <2>5. a = UpTo(t, pos)
    BY <2>2, <2>3, <2>4, SeqEqual
  <2> QED
    BY <2>3, <2>5
<1>10. tail = After(t, pos + count) /\ tail \in Seq(Chars)
  <2> DEFINE m == UpTo(old, s.size)
  <2>1. pos + count \in 0 .. Len(t) /\ s.size \in 0 .. Len(old)
    BY <1>1, <1>2, <1>7
  <2>2. m \in Seq(Symbols) /\ Len(m) = s.size /\ \A j \in 1 .. s.size : m[j] = old[j]
    BY <1>7, <2>1, UpToFacts
  <2> HIDE DEF m
  <2>3. /\ After(m, pos + count) \in Seq(Symbols) /\ Len(After(m, pos + count)) = Len(t) - (pos + count)
        /\ \A j \in 1 .. Len(t) - (pos + count) : After(m, pos + count)[j] = m[(pos + count) + j]
    <3>1. pos + count \in 0 .. Len(m) /\ Len(m) = Len(t)
      BY <1>1, <2>1, <2>2
    <3>2. /\ After(m, pos + count) \in Seq(Symbols) /\ Len(After(m, pos + count)) = Len(m) - (pos + count)
          /\ \A j \in 1 .. Len(m) - (pos + count) : After(m, pos + count)[j] = m[(pos + count) + j]
      BY <2>2, <3>1, AfterFacts
    <3> QED
      BY <3>1, <3>2
  <2>4. /\ After(t, pos + count) \in Seq(Chars) /\ Len(After(t, pos + count)) = Len(t) - (pos + count)
        /\ \A j \in 1 .. Len(t) - (pos + count) : After(t, pos + count)[j] = t[(pos + count) + j]
    BY <1>1, <2>1, AfterFacts
  <2>5. After(t, pos + count) \in Seq(Symbols)
    BY <1>6, <2>4, SeqMonotonic
  <2>6. ASSUME NEW j \in 1 .. Len(t) - (pos + count) PROVE After(m, pos + count)[j] = After(t, pos + count)[j]
    <3>1. (pos + count) + j \in 1 .. s.size /\ (pos + count) + j \in pos + count + 1 .. Len(t)
      BY <1>1, <1>2, SMTT(30)
    <3> QED
      BY <1>8, <2>2, <2>3, <2>4, <3>1
  <2>7. After(m, pos + count) = After(t, pos + count)
    BY <2>3, <2>4, <2>5, <2>6, SeqEqual
  <2> QED
    BY <2>4, <2>7 DEF m
<1>11. v \in Seq(Chars) /\ Len(v) = n
  <2>1. pos + count \in pos .. Len(t)
    BY <1>1, <1>2
  <2> QED
    BY <1>1, <1>2, <2>1, InsertedFacts, ZenonT(40)
<1>12. w = Terminated(v)
  <2>1. w = v \o <<End>>
    BY <1>9, <1>10
  <2>2. v \in Seq(Symbols) /\ End \in Symbols
    BY <1>11, TerminatedFacts DEF Symbols
  <2> HIDE DEF v
  <2>3. v \o <<End>> = Append(v, End)
    BY <2>2
  <2> QED
    BY <2>1, <2>3 DEF Terminated
<1> HIDE DEF v, w
<1>13. Replace(s, pos, len, p) \in Rewritten(room, PutChars(room.buf, 0, Terminated(v)), n)
  <2>1. room \in StringType
    BY <1>5 DEF FitsString
  <2> QED
    BY <1>3, <1>12, <2>1, RewrittenFacts, ZenonT(40)
<1>14. /\ 0 \in Nat /\ 0 + Len(v) = n /\ 0 + Len(v) < Len(room.buf) /\ Len(v) = 0 + Len(v)
       /\ (\A i \in 1 .. 0 : room.buf[i] = v[i]) /\ \A i \in 1 .. Len(v) : v[0 + i] = v[i]
  BY <1>2, <1>5, <1>11
<1>15. Replace(s, pos, len, p) \in Rewritten(room, PutChars(room.buf, 0, Terminated(v)), 0 + Len(v))
  BY <1>13, <1>14
<1>16. KeepsText(Replace(s, pos, len, p), v)
  BY <1>5, <1>11, <1>14, <1>15, WrittenKeeps
<1> QED
  BY <1>2, <1>16 DEF v

-----------------------------------------------------------------------------
(* The strings of the client.                                              *)

(* Both strings of the client keep their texts.                            *)
LEMMA BothKeep ==
  ASSUME StringsInv PROVE KeepsText(str, Text(str)) /\ KeepsText(str_other, Text(str_other))
BY SoundKeeps DEF StringsInv, StringsTerminated

(* A step to a string that keeps a text keeps the invariant.               *)
LEMMA StringBecomesKeeps ==
  ASSUME StringsInv, NEW s, NEW t, KeepsText(s, t), StringBecomes(s) PROVE StringsInv'
<1>1. s \in StringType /\ Sound(s)
  BY TextIsKept
<1>2. str' = s /\ str_other' = str_other
  BY DEF StringBecomes
<1> QED
  BY <1>1, <1>2 DEF StringsInv, StringsTerminated

(* The same for a step that gives the second string, too.                  *)
LEMMA GivesStringKeeps ==
  ASSUME NEW s, NEW t, KeepsText(s, t), NEW o, NEW u, KeepsText(o, u), GivesString(s, o) PROVE StringsInv'
<1>1. s \in StringType /\ Sound(s) /\ o \in StringType /\ Sound(o)
  BY TextIsKept
<1>2. str' = s /\ str_other' = o
  BY DEF GivesString
<1> QED
  BY <1>1, <1>2 DEF StringsInv, StringsTerminated

(* Initially, and after every step.                                        *)
LEMMA StringsInvInit == ASSUME StringAssumption, StringInit PROVE StringsInv
<1>1. KeepsText(Empty, <<>>)
  BY EmptyKeeps
<1>2. Empty \in StringType /\ Sound(Empty)
  BY <1>1, TextIsKept
<1> QED
  BY <1>2 DEF StringInit, StringsInv, StringsTerminated

(* Every call of the client keeps the invariant.                           *)
LEMMA StringsInvStep == ASSUME StringAssumption, StringsInv, [StringStep]_string_vars PROVE StringsInv'
<1> DEFINE t == Text(str)
           u == Text(str_other)
<1>1. KeepsText(str, t) /\ KeepsText(str_other, u) /\ KeepsText(Empty, <<>>)
  BY BothKeep, EmptyKeeps
<1>2. /\ t \in Seq(Chars) /\ u \in Seq(Chars) /\ str.size = Len(t) /\ Len(t) \in Nat
      /\ FitsString(str_other) /\ str_other.size < Len(str_other.buf)
  BY <1>1, TextIsKept, LenProperties DEF KeepsText
<1>3. /\ \A n \in Lengths : n \in Nat
      /\ \A p \in Pieces : p \in Seq(Chars)
  BY DEF StringAssumption
<1> HIDE DEF t, u
<1>4. ASSUME NEW p \in Pieces, AppendPiece(p) \/ AssignPiece(p) \/ StringConstruct(p) PROVE StringsInv'
  <2>1. p \in Seq(Chars)
    BY <1>3
  <2>2. KeepsText(AppendText(str, p), t \o p) /\ KeepsText(AppendEach(str, p), t \o p)
    BY <1>1, <2>1, AppendKeeps, AppendEachKeeps
  <2>3. KeepsText(Assign(str, p), p) /\ KeepsText(AssignEach(str, p), p)
    BY <2>1, AssignKeeps
  <2>4. KeepsText(Literal(p), p) /\ KeepsText(ConstructedString(p), p)
    BY <2>1, ConstructedStringKeeps
  <2>5. CASE AppendPiece(p)
    BY <2>2, <2>5, StringBecomesKeeps DEF AppendPiece
  <2>6. CASE AssignPiece(p)
    BY <2>3, <2>6, StringBecomesKeeps DEF AssignPiece
  <2>7. CASE StringConstruct(p)
    BY <1>1, <2>4, <2>7, GivesStringKeeps DEF StringConstruct
  <2> QED
    BY <1>4, <2>5, <2>6, <2>7
<1>5. ASSUME NEW pos \in 0 .. str.size, NEW n \in Lengths, ErasePart(pos, n) PROVE StringsInv'
  <2>1. pos \in 0 .. Len(t) /\ n \in Nat
    BY <1>2, <1>3
  <2>2. \E v : KeepsText(StringErase(str, pos, n), v)
    BY <1>1, <2>1, StringEraseKeeps
  <2> QED
    BY <1>5, <2>2, StringBecomesKeeps DEF ErasePart
<1>6. ASSUME NEW pos \in 0 .. str.size, NEW n \in Lengths, TakePart(pos, n) PROVE StringsInv'
  <2>1. pos \in Nat /\ n \in Nat
    BY <1>2, <1>3
  <2>2. \E v : KeepsText(Part(str, pos, n), v)
    BY <1>1, <2>1, PartKeeps
  <2> QED
    BY <1>6, <2>2, StringBecomesKeeps DEF TakePart
<1>7. ASSUME NEW pos \in 0 .. str.size, NEW n \in Lengths, NEW p \in Pieces, ReplacePart(pos, n, p) PROVE StringsInv'
  <2>1. pos \in 0 .. Len(t) /\ n \in Nat /\ p \in Seq(Chars) /\ StringReplaceable(str, pos, n, p)
    BY <1>2, <1>3, <1>7 DEF ReplacePart
  <2>2. \E v : KeepsText(Replace(str, pos, n, p), v)
    BY <1>1, <2>1, ReplaceKeeps
  <2> QED
    BY <1>7, <2>2, StringBecomesKeeps DEF ReplacePart
<1>8. ASSUME NEW n \in Lengths, StringReserveFor(n) PROVE StringsInv'
  <2>1. KeepsText(StringReserve(str, n), t)
    BY <1>1, <1>3, GrowKeeps
  <2> QED
    BY <1>8, <2>1, StringBecomesKeeps DEF StringReserveFor
<1>9. ASSUME NEW n \in Lengths, NEW c \in Chars, StringResizeTo(n, c) PROVE StringsInv'
  <2>1. KeepsText(StringResize(str, n, c), Resized(t, n, c))
    BY <1>1, <1>3, StringResizeKeeps
  <2> QED
    BY <1>9, <2>1, StringBecomesKeeps DEF StringResizeTo
<1>10. ASSUME NEW c \in Chars, AppendOne(c) PROVE StringsInv'
  <2>1. <<c>> \in Seq(Chars)
    OBVIOUS
  <2>2. KeepsText(AppendText(str, <<c>>), t \o <<c>>)
    BY <1>1, <2>1, AppendKeeps
  <2> QED
    BY <1>10, <2>2, StringBecomesKeeps DEF AppendOne
<1>11. CASE StringClearAll
  BY <1>1, <1>11, StringBecomesKeeps DEF StringClearAll, StringClear
<1>12. CASE Add
  <2>1. CASE Assignable(Empty, str) /\ PlusLeft(str, str_other) = str /\ StringBecomes(Plus(str, str_other))
    <3>1. KeepsText(Plus(str, str_other), t \o u)
      BY <1>1, <2>1, PlusKeeps
    <3> QED
      BY <2>1, <3>1, StringBecomesKeeps
  <2>2. ASSUME NEW c \in Chars, StringBecomes(PlusChar(str, c)) PROVE StringsInv'
    <3>1. KeepsText(PlusChar(str, c), Append(t, c))
      BY <1>1, PlusCharKeeps
    <3> QED
      BY <2>2, <3>1, StringBecomesKeeps
  <2> QED
    BY <1>12, <2>1, <2>2 DEF Add
<1>13. CASE ConstructCopy
  <2>1. KeepsText(Copied(str), t)
    BY <1>1, CopiedKeeps
  <2> QED
    BY <1>1, <1>13, <2>1, GivesStringKeeps DEF ConstructCopy
<1>14. CASE CopyString
  <2>1. KeepsText(StringCopyAssign(str_other, str), t)
    BY <1>1, <1>2, <1>14, StringCopyAssignKeeps DEF CopyString
  <2> QED
    BY <1>1, <1>14, <2>1, GivesStringKeeps DEF CopyString
<1>15. CASE MoveOutString
  <2>1. KeepsText(Copied(str), t)
    BY <1>1, CopiedKeeps
  <2>2. CASE GivesString(StringClear(MovedFrom(str)), Copied(str))
    BY <1>1, <2>1, <2>2, GivesStringKeeps DEF StringClear
  <2>3. CASE GivesString(MoveAssignedFrom(str), str)
    <3>1. \E v : KeepsText(MoveAssignedFrom(str), v)
      BY <1>1 DEF MoveAssignedFrom
    <3> QED
      BY <1>1, <2>3, <3>1, GivesStringKeeps
  <2> QED
    BY <1>15, <2>2, <2>3 DEF MoveOutString
<1>16. CASE StringSwap
  BY <1>1, <1>16, GivesStringKeeps DEF StringSwap
<1>17. CASE AssignMoved
  BY <1>1, <1>17, GivesStringKeeps DEF AssignMoved
<1>18. CASE UNCHANGED string_vars
  BY <1>18 DEF string_vars, StringsInv, StringsTerminated
<1> QED
  BY <1>4, <1>5, <1>6, <1>7, <1>8, <1>9, <1>10, <1>11, <1>12, <1>13, <1>14, <1>15, <1>16, <1>17, <1>18 DEF StringStep

(* The text of a string is inside what the string has, was all written,    *)
(* and is followed by its terminator, after any calls and for any texts    *)
(* and sizes.                                                              *)
THEOREM StringsTerminatedHolds == ASSUME StringAssumption PROVE StringSpec => []StringsTerminated
<1>1. StringInit => StringsInv
  BY StringsInvInit
<1>2. StringsInv /\ [StringStep]_string_vars => StringsInv'
  BY StringsInvStep
<1>3. StringsInv => StringsTerminated
  BY DEF StringsInv
<1> QED
  BY <1>1, <1>2, <1>3, PTL DEF StringSpec

-----------------------------------------------------------------------------
(* What the calls return.                                                  *)

(* Where rfind() finds a text, the string has it, no further than asked.   *)
LEMMA RfindFinds ==
  ASSUME NEW s, NEW t, KeepsText(s, t), NEW p \in Seq(Chars), NEW pos \in 0 .. Len(t),
         Rfind(s, p, pos) >= 0, pos + 1 >= Len(p)
  PROVE  LET i == Rfind(s, p, pos) IN
         WithInserted(WithoutPart(t, i, i + Len(p)), i, p) = t /\ i + Len(p) <= pos + 1
<1> DEFINE start == IF pos + 1 < Len(p) \/ pos >= s.size THEN s.size - Len(p) ELSE pos - Len(p) + 1
           At(i) == UpTo(After(s.buf, i), Len(p)) = p
           places == {i \in 0 .. start : At(i)}
           f == Rfind(s, p, pos)
<1>1. /\ t \in Seq(Chars) /\ Len(t) \in Nat /\ s.size = Len(t) /\ pos \in Nat /\ pos <= Len(t) /\ Len(p) \in Nat
      /\ s.buf \in Seq(Symbols) /\ Len(s.buf) \in Nat /\ Len(t) < Len(s.buf)
      /\ \A i \in 1 .. Len(t) : s.buf[i] = t[i]
  BY LenProperties DEF KeepsText, FitsString, StringType
<1>2. f = IF p = <<>> THEN IF pos > s.size THEN s.size ELSE pos
          ELSE IF Len(p) > s.size \/ places = {} THEN -1
          ELSE CHOOSE i \in places : \A j \in places : j <= i
  BY DEF Rfind
<1>3. start \in Int /\ (pos + 1 >= Len(p) => start + Len(p) <= Len(t) /\ start + Len(p) <= pos + 1)
  BY <1>1
<1> HIDE DEF f, start, At
<1>4. CASE p = <<>>
  <2>1. f = pos /\ Len(p) = 0 /\ f + Len(p) = f
    BY <1>1, <1>2, <1>4
  <2>2. WithoutPart(t, pos, pos) = t
    <3>1. pos \in 0 .. Len(t) /\ pos \in pos .. Len(t)
      BY <1>1
    <3> QED
      BY <1>1, <3>1, WithoutFacts
  <2>3. UpTo(t, pos) \o p = UpTo(t, pos)
    <3>1. UpTo(t, pos) \in Seq(Chars)
      BY <1>1, UpToFacts
    <3> QED
      BY <1>4, <3>1, ConcatEmptySeq
  <2>4. WithInserted(t, pos, p) = t
    BY <2>2, <2>3 DEF WithInserted, WithoutPart
  <2> QED
    BY <1>1, <2>1, <2>2, <2>4 DEF f
<1>5. CASE p # <<>>
  <2>1. places # {} /\ f = CHOOSE i \in places : \A j \in places : j <= i
    <3>1. f >= 0
      BY DEF f
    <3>2. f # -1
      BY <3>1
    <3> HIDE DEF places
    <3> QED
      BY <1>2, <1>5, <3>2, Zenon
  <2>2. start \in Nat /\ places \in SUBSET (0 .. start)
    BY <1>3, <2>1
  <2>3. \E i \in places : \A j \in places : j <= i
    BY <2>1, <2>2, LastOne
  <2>4. f \in places
    BY <2>1, <2>3
  <2> DEFINE e == f + Len(p)
             r == WithoutPart(t, f, e)
             w == WithInserted(r, f, p)
  <2>5. f \in Nat /\ At(f) /\ e <= Len(t) /\ e <= pos + 1 /\ f \in 0 .. Len(t) /\ e \in f .. Len(t)
    BY <1>1, <1>3, <2>2, <2>4
  <2>6. \A k \in 1 .. Len(p) : t[f + k] = p[k]
    <3> DEFINE a == After(s.buf, f)
    <3>1. a \in Seq(Symbols) /\ Len(a) = Len(s.buf) - f /\ \A k \in 1 .. Len(s.buf) - f : a[k] = s.buf[f + k]
      <4>1. f \in 0 .. Len(s.buf)
        BY <1>1, <2>5
      <4> QED
        BY <1>1, <4>1, AfterFacts
    <3>2. UpTo(a, Len(p)) = p
      BY <2>5 DEF At
    <3> HIDE DEF a
    <3>3. Len(p) \in 0 .. Len(a)
      BY <1>1, <2>5, <3>1
    <3>4. \A k \in 1 .. Len(p) : UpTo(a, Len(p))[k] = a[k]
      BY <3>1, <3>3, UpToFacts
    <3>5. ASSUME NEW k \in 1 .. Len(p) PROVE t[f + k] = p[k]
      <4>1. k \in 1 .. Len(s.buf) - f /\ f + k \in 1 .. Len(t)
        BY <1>1, <2>5
      <4> QED
        BY <1>1, <3>1, <3>2, <3>4, <4>1
    <3> QED
      BY <3>5
  <2>7. /\ r \in Seq(Chars) /\ Len(r) = f + (Len(t) - e)
        /\ \A k \in 1 .. f : r[k] = t[k]
        /\ \A k \in 1 .. Len(t) - e : r[f + k] = t[e + k]
    BY <1>1, <2>5, WithoutFacts
  <2> HIDE DEF r
  <2>8. f \in 0 .. Len(r) /\ f \in f .. Len(r) /\ Len(r) - f = Len(t) - e
    BY <1>1, <2>5, <2>7, SMTT(30)
  <2>9. /\ w \in Seq(Chars) /\ Len(w) = f + Len(p) + (Len(r) - f)
        /\ \A k \in 1 .. f : w[k] = r[k]
        /\ \A k \in 1 .. Len(p) : w[f + k] = p[k]
        /\ \A k \in 1 .. Len(r) - f : w[(f + Len(p)) + k] = r[f + k]
    <3> DEFINE q == UpTo(r, f) \o p \o After(r, f)
    <3>1. w = q
      BY DEF WithInserted
    <3>2. r \in Seq(Chars) /\ f \in 0 .. Len(r) /\ f \in f .. Len(r)
      BY <2>7, <2>8
    <3>3. /\ q \in Seq(Chars) /\ Len(q) = f + Len(p) + (Len(r) - f)
          /\ \A k \in 1 .. f : q[k] = r[k]
          /\ \A k \in 1 .. Len(p) : q[f + k] = p[k]
          /\ \A k \in 1 .. Len(r) - f : q[(f + Len(p)) + k] = r[f + k]
      BY <3>2, InsertedFacts, ZenonT(40)
    <3> HIDE DEF q, w
    <3> QED
      BY <3>1, <3>3
  <2> HIDE DEF w
  <2>10. Len(w) = Len(t)
    BY <1>1, <2>5, <2>8, <2>9
  <2>11. ASSUME NEW k \in 1 .. Len(w) PROVE w[k] = t[k]
    <3>1. k \in Nat /\ k >= 1 /\ k <= Len(t) /\ (k <= f \/ (k > f /\ k <= e) \/ k > e)
      BY <1>1, <2>5, <2>10
    <3>2. CASE k <= f
      <4>1. k \in 1 .. f
        BY <2>5, <3>1, <3>2
      <4> QED
        BY <2>7, <2>9, <4>1
    <3>3. CASE k > f /\ k <= e
      <4>1. k - f \in 1 .. Len(p) /\ f + (k - f) = k
        BY <1>1, <2>5, <3>1, <3>3
      <4> QED
        BY <2>6, <2>9, <4>1
    <3>4. CASE k > e
      <4>1. k - e \in 1 .. Len(t) - e /\ (f + Len(p)) + (k - e) = k /\ e + (k - e) = k
        BY <1>1, <2>5, <3>1, <3>4
      <4>2. w[(f + Len(p)) + (k - e)] = r[f + (k - e)] /\ r[f + (k - e)] = t[e + (k - e)]
        BY <2>7, <2>8, <2>9, <4>1
      <4> QED
        BY <4>1, <4>2
    <3> QED
      BY <3>1, <3>2, <3>3, <3>4
  <2>12. w = t
    BY <1>1, <2>9, <2>10, <2>11, SeqEqual
  <2> QED
    BY <2>5, <2>12 DEF w, r, f
<1> QED
  BY <1>4, <1>5

(* Every call on a string that keeps a text returns the text it says.      *)
LEMMA StringsAgree == ASSUME StringAssumption, StringsInv PROVE StringCallsAgree
<1> DEFINE t == Text(str)
<1>1. KeepsText(str, t) /\ KeepsText(str_other, Text(str_other))
  BY BothKeep
<1>2. t \in Seq(Chars) /\ str.size = Len(t) /\ Len(t) \in Nat /\ FitsString(str_other) /\ str_other.size < Len(str_other.buf)
  BY <1>1, TextIsKept, LenProperties DEF KeepsText
<1>3. (\A n \in Lengths : n \in Nat) /\ \A p \in Pieces : p \in Seq(Chars)
  BY DEF StringAssumption
<1> HIDE DEF t
<1>4. ASSUME NEW p \in Pieces
      PROVE  Text(AppendText(str, p)) = t \o p /\ Text(AppendEach(str, p)) = t \o p /\ Text(Assign(str, p)) = p
  <2>1. KeepsText(AppendText(str, p), t \o p) /\ KeepsText(AppendEach(str, p), t \o p) /\ KeepsText(Assign(str, p), p)
    BY <1>1, <1>3, AppendKeeps, AppendEachKeeps, AssignKeeps
  <2> QED
    BY <2>1, TextIsKept
<1>5. ASSUME NEW pos \in 0 .. str.size, NEW n \in 0 .. str.size
      PROVE  /\ pos + n <= str.size => Text(StringErase(str, pos, n)) = WithoutPart(t, pos, pos + n)
             /\ pos + n <= str.size => Text(Part(str, pos, n)) = UpTo(After(t, pos), n)
  <2>1. pos \in 0 .. Len(t) /\ n \in Nat /\ pos \in Nat
    BY <1>2
  <2>2. KeepsText(StringErase(str, pos, n), WithoutPart(t, pos, IF pos + n > Len(t) THEN Len(t) ELSE pos + n))
    BY <1>1, <2>1, StringEraseKeeps
  <2>3. ASSUME pos + n <= str.size PROVE Text(StringErase(str, pos, n)) = WithoutPart(t, pos, pos + n)
    <3>1. ~ (pos + n > Len(t))
      BY <1>2, <2>1, <2>3
    <3> QED
      BY <2>2, <3>1, TextIsKept
  <2>4. PICK v \in Seq(Chars) : KeepsText(Part(str, pos, n), v) /\ (pos + n <= Len(t) => v = UpTo(After(t, pos), n))
    BY <1>1, <2>1, PartKeeps, ZenonT(40)
  <2>5. ASSUME pos + n <= str.size PROVE Text(Part(str, pos, n)) = UpTo(After(t, pos), n)
    BY <1>2, <2>4, <2>5, TextIsKept
  <2> QED
    BY <2>3, <2>5
<1>6. ASSUME NEW pos \in 0 .. str.size, NEW n \in 0 .. str.size, NEW p \in Pieces, StringReplaceable(str, pos, n, p)
      PROVE  Text(Replace(str, pos, n, p)) = UpTo(t, pos) \o p \o After(t, IF pos + n > str.size THEN str.size ELSE pos + n)
  <2>1. pos \in 0 .. Len(t) /\ n \in Nat /\ p \in Seq(Chars)
    BY <1>2, <1>3
  <2>2. KeepsText(Replace(str, pos, n, p), UpTo(t, pos) \o p \o After(t, IF pos + n > Len(t) THEN Len(t) ELSE pos + n))
    BY <1>1, <1>6, <2>1, ReplaceKeeps
  <2>3. Text(Replace(str, pos, n, p)) = UpTo(t, pos) \o p \o After(t, IF pos + n > Len(t) THEN Len(t) ELSE pos + n)
    <3> DEFINE v == UpTo(t, pos) \o p \o After(t, IF pos + n > Len(t) THEN Len(t) ELSE pos + n)
               r == Replace(str, pos, n, p)
    <3>1. KeepsText(r, v)
      BY <2>2
    <3> HIDE DEF v, r
    <3>2. Text(r) = v
      BY <3>1, TextIsKept
    <3> QED
      BY <3>2 DEF v, r
  <2>4. str.size = Len(t)
    BY <1>2
  <2> QED
    BY <2>3, <2>4, Zenon
<1>7. ASSUME NEW pos \in 0 .. str.size, NEW p \in Pieces
      PROVE  LET i == Rfind(str, p, pos) IN
             i >= 0 /\ pos + 1 >= Len(p) => WithInserted(WithoutPart(t, i, i + Len(p)), i, p) = t /\ i + Len(p) <= pos + 1
  <2>1. pos \in 0 .. Len(t) /\ p \in Seq(Chars)
    BY <1>2, <1>3
  <2> QED
    BY <1>1, <2>1, RfindFinds
<1>8. ASSUME NEW n \in Lengths
      PROVE  Text(StringReserve(str, n)) = t /\ \A c \in Chars : Text(StringResize(str, n, c)) = Resized(t, n, c)
  <2>1. KeepsText(StringReserve(str, n), t) /\ \A c \in Chars : KeepsText(StringResize(str, n, c), Resized(t, n, c))
    BY <1>1, <1>3, GrowKeeps, StringResizeKeeps
  <2> QED
    BY <2>1, TextIsKept
<1>9. ASSUME Assignable(Empty, str) PROVE Text(Plus(str, str_other)) = t \o Text(str_other)
  <2>1. KeepsText(Plus(str, str_other), t \o Text(str_other))
    BY <1>1, <1>9, PlusKeeps
  <2> QED
    BY <2>1, TextIsKept
<1>10. Text(Copied(str)) = t
  BY <1>1, CopiedKeeps, TextIsKept
<1>11. Assignable(str_other, str) => Text(StringCopyAssign(str_other, str)) = t
  BY <1>1, <1>2, StringCopyAssignKeeps, TextIsKept
<1> QED
  BY <1>4, <1>5, <1>6, <1>7, <1>8, <1>9, <1>10, <1>11 DEF StringCallsAgree, t

(* Every call makes the text it says of any text there is, wherever the    *)
(* string keeps it.                                                        *)
THEOREM StringCallsAgreeHolds == ASSUME StringAssumption PROVE StringSpec => []StringCallsAgree
<1>1. StringInit => StringsInv
  BY StringsInvInit
<1>2. StringsInv /\ [StringStep]_string_vars => StringsInv'
  BY StringsInvStep
<1>3. StringsInv => StringCallsAgree
  BY StringsAgree
<1> QED
  BY <1>1, <1>2, <1>3, PTL DEF StringSpec
==============================================================================
