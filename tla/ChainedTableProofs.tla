-------------------------- MODULE ChainedTableProofs --------------------------
(***************************************************************************)
(* Theorems about ChainedTable, for every set of keys and values, any hash *)
(* of them, any ranges and initial elements.                               *)
(*                                                                         *)
(* The argument: the buckets in use make chains (Linked): each has a main  *)
(* bucket, a next one and a rank that grows along its chain, so that no    *)
(* walk goes round.  A walk from the main bucket of a key comes to every   *)
(* element with that main bucket.  The elements of a table are the set     *)
(* Held(tb) of what those buckets hold, each key once (Sound).  A new      *)
(* element begins a chain, goes behind the tail of one, or drives a tenant *)
(* out of its main bucket; a removal takes an element out of its chain;    *)
(* the chains stay chains in each case.  Each call is said as what becomes *)
(* of the elements (Inserts, Assigns, Drops, Resettled, Ranged, Built,     *)
(* Merging): that the tables stay sound (ChInv) and that the maps they     *)
(* hold change as KeyMap says both follow.                                 *)
(***************************************************************************)
EXTENDS ChainedTable, SeqsProofs, FiniteSetTheorems

-----------------------------------------------------------------------------
(* Chains.  O are the buckets in use; each has a main bucket m, a next one *)
(* nx and a rank r, which grows along a chain.                             *)

Ranked(O, m, nx, r) ==
  /\ \A i \in O : m[i] \in O /\ m[m[i]] = m[i]
  /\ \A i \in O : nx[i] \in O /\ m[nx[i]] = m[i]
  /\ \A i \in O : r[i] \in Nat /\ (nx[i] # i => r[nx[i]] > r[i])
  /\ \A i \in O : nx[i] # i => nx[i] # m[i]
  /\ \A i \in O : i # m[i] => \E j \in O : j # i /\ nx[j] = i
  /\ \A i, j \in O : nx[i] = nx[j] /\ nx[i] # i /\ nx[j] # j => i = j

Linked(O, m, nx) == \E r : Ranked(O, m, nx, r)

(* A chain begins in a bucket that was free, ...                           *)
LEMMA LinkedHead ==
  ASSUME NEW O, NEW m, NEW nx, Linked(O, m, nx), NEW b, b \notin O,
         NEW m2, NEW nx2, \A i \in O : m2[i] = m[i] /\ nx2[i] = nx[i], m2[b] = b, nx2[b] = b
  PROVE  Linked(O \cup {b}, m2, nx2)
<1> PICK r : Ranked(O, m, nx, r)
  BY DEF Linked
<1> DEFINE r2 == [i \in O \cup {b} |-> IF i = b THEN 0 ELSE r[i]]
<1>1. /\ r2[b] = 0 /\ \A i \in O : r2[i] = r[i] /\ i # b
  OBVIOUS
<1> HIDE DEF r2
<1>2. Ranked(O \cup {b}, m2, nx2, r2)
  BY <1>1 DEF Ranked
<1> QED
  BY <1>2 DEF Linked

(* ... goes on behind its tail, ...                                        *)
Extended(O, m, nx, t, p, m2, nx2) ==
  /\ t \in O /\ nx[t] = t /\ p \notin O
  /\ \A i \in O : m2[i] = m[i] /\ (i # t => nx2[i] = nx[i])
  /\ m2[p] = m[t] /\ nx2[t] = p /\ nx2[p] = p

LEMMA LinkedBehind ==
  ASSUME NEW O, NEW m, NEW nx, Linked(O, m, nx), NEW t, NEW p, NEW m2, NEW nx2,
         Extended(O, m, nx, t, p, m2, nx2)
  PROVE  Linked(O \cup {p}, m2, nx2)
<1> USE DEF Extended
<1> PICK r : Ranked(O, m, nx, r)
  BY DEF Linked
<1> DEFINE r2 == [i \in O \cup {p} |-> IF i = p THEN r[t] + 1 ELSE r[i]]
<1>1. /\ r2[p] = r[t] + 1 /\ \A i \in O : r2[i] = r[i] /\ i # p
  OBVIOUS
<1>0. r[t] \in Nat /\ \A i \in O : nx[i] # p /\ m[i] # p
  BY DEF Ranked
<1> HIDE DEF r2
<1> DEFINE P == O \cup {p}
<1>2. \A i \in P : m2[i] \in P /\ m2[m2[i]] = m2[i]
  BY DEF Ranked
<1>3. \A i \in P : nx2[i] \in P /\ m2[nx2[i]] = m2[i]
  BY DEF Ranked
<1>4. \A i \in P : r2[i] \in Nat /\ (nx2[i] # i => r2[nx2[i]] > r2[i])
  BY <1>0, <1>1 DEF Ranked
<1>5. \A i \in P : nx2[i] # i => nx2[i] # m2[i]
  BY <1>0 DEF Ranked
<1>6. \A i \in P : i # m2[i] => \E j \in P : j # i /\ nx2[j] = i
  <2>1. ASSUME NEW i \in O, i # m2[i] PROVE \E j \in P : j # i /\ nx2[j] = i
    <3>1. PICK j \in O : j # i /\ nx[j] = i
      BY <2>1 DEF Ranked
    <3> QED
      BY <3>1
  <2> QED
    BY <2>1
<1>7. \A i, j \in P : nx2[i] = nx2[j] /\ nx2[i] # i /\ nx2[j] # j => i = j
  BY <1>0 DEF Ranked
<1>8. Ranked(P, m2, nx2, r2)
  BY <1>2, <1>3, <1>4, <1>5, <1>6, <1>7 DEF Ranked
<1> QED
  BY <1>8 DEF Linked

(* ... has one of its buckets moved to another, ...                        *)
Moving(O, m, nx, b, p, f, m2, nx2) ==
  /\ b \in O /\ m[b] # b /\ p \in O /\ p # b /\ nx[p] = b /\ f \notin O
  /\ \A i \in O : i # b => m2[i] = m[i] /\ (i # p => nx2[i] = nx[i])
  /\ m2[f] = m[b] /\ nx2[p] = f /\ nx2[f] = IF nx[b] = b THEN f ELSE nx[b]

LEMMA LinkedMoved ==
  ASSUME NEW O, NEW m, NEW nx, Linked(O, m, nx), NEW b, NEW p, NEW f, NEW m2, NEW nx2,
         Moving(O, m, nx, b, p, f, m2, nx2)
  PROVE  Linked((O \ {b}) \cup {f}, m2, nx2)
<1> USE DEF Moving
<1> PICK r : Ranked(O, m, nx, r)
  BY DEF Linked
<1> DEFINE P == (O \ {b}) \cup {f}
           r2 == [i \in P |-> IF i = f THEN r[b] ELSE r[i]]
<1>1. /\ r2[f] = r[b] /\ \A i \in O : i # b => r2[i] = r[i] /\ i # f
  OBVIOUS
<1>0. /\ r[b] \in Nat /\ \A i \in O : nx[i] # f /\ m[i] # f /\ m[i] # b
      /\ \A i \in O : nx[i] = b => i = p \/ i = b
  <2>1. ASSUME NEW i \in O PROVE m[i] # b
    BY <2>1 DEF Ranked
  <2> QED
    BY <2>1 DEF Ranked
<1> HIDE DEF r2
<1>2. \A i \in P : m2[i] \in P /\ m2[m2[i]] = m2[i]
  BY <1>0 DEF Ranked
<1>3. \A i \in P : nx2[i] \in P /\ m2[nx2[i]] = m2[i]
  BY <1>0 DEF Ranked
<1>4. \A i \in P : r2[i] \in Nat /\ (nx2[i] # i => r2[nx2[i]] > r2[i])
  BY <1>0, <1>1 DEF Ranked
<1>5. \A i \in P : nx2[i] # i => nx2[i] # m2[i]
  BY <1>0 DEF Ranked
<1>6. \A i \in P : i # m2[i] => \E j \in P : j # i /\ nx2[j] = i
  <2>1. ASSUME NEW i \in O, i # b, i # m2[i] PROVE \E j \in P : j # i /\ nx2[j] = i
    <3>1. PICK j \in O : j # i /\ nx[j] = i
      BY <2>1 DEF Ranked
    <3>2. CASE j = b
      BY <2>1, <3>1, <3>2
    <3>3. CASE j # b
      BY <2>1, <3>1, <3>3
    <3> QED
      BY <3>2, <3>3
  <2>2. p \in P /\ p # f /\ nx2[p] = f
    OBVIOUS
  <2> QED
    BY <2>1, <2>2
<1>7. \A i, j \in P : nx2[i] = nx2[j] /\ nx2[i] # i /\ nx2[j] # j => i = j
  BY <1>0 DEF Ranked
<1>8. Ranked(P, m2, nx2, r2)
  BY <1>2, <1>3, <1>4, <1>5, <1>6, <1>7 DEF Ranked
<1> QED
  BY <1>8 DEF Linked

(* ... loses one that is not its first, ...                                *)
Shortened(O, m, nx, i, p, m2, nx2) ==
  /\ i \in O /\ m[i] # i /\ p \in O /\ p # i /\ nx[p] = i
  /\ \A j \in O : j # i => m2[j] = m[j] /\ (j # p => nx2[j] = nx[j])
  /\ nx2[p] = IF nx[i] = i THEN p ELSE nx[i]

LEMMA LinkedWithout ==
  ASSUME NEW O, NEW m, NEW nx, Linked(O, m, nx), NEW i, NEW p, NEW m2, NEW nx2,
         Shortened(O, m, nx, i, p, m2, nx2)
  PROVE  Linked(O \ {i}, m2, nx2)
<1> USE DEF Shortened
<1> PICK r : Ranked(O, m, nx, r)
  BY DEF Linked
<1> DEFINE P == O \ {i}
<1>0. /\ \A j \in O : m[j] # i
      /\ \A j \in O : nx[j] = i => j = p \/ j = i
  <2>1. ASSUME NEW j \in O PROVE m[j] # i
    BY <2>1 DEF Ranked
  <2> QED
    BY <2>1 DEF Ranked
<1>2. \A j \in P : m2[j] \in P /\ m2[m2[j]] = m2[j]
  BY <1>0 DEF Ranked
<1>3. \A j \in P : nx2[j] \in P /\ m2[nx2[j]] = m2[j]
  BY <1>0 DEF Ranked
<1>4. \A j \in P : r[j] \in Nat /\ (nx2[j] # j => r[nx2[j]] > r[j])
  BY <1>0 DEF Ranked
<1>5. \A j \in P : nx2[j] # j => nx2[j] # m2[j]
  BY <1>0 DEF Ranked
<1>6. \A j \in P : j # m2[j] => \E l \in P : l # j /\ nx2[l] = j
  <2>1. ASSUME NEW j \in O, j # i, j # m2[j] PROVE \E l \in P : l # j /\ nx2[l] = j
    <3>1. PICK l \in O : l # j /\ nx[l] = j
      BY <2>1 DEF Ranked
    <3>2. CASE l = i
      <4>1. nx2[p] = j
        BY <2>1, <3>1, <3>2
      <4>2. p # j
        BY <3>1, <3>2 DEF Ranked
      <4> QED
        BY <4>1, <4>2
    <3>3. CASE l # i
      BY <2>1, <3>1, <3>3
    <3> QED
      BY <3>2, <3>3
  <2> QED
    BY <2>1
<1>7. \A j, l \in P : nx2[j] = nx2[l] /\ nx2[j] # j /\ nx2[l] # l => j = l
  BY <1>0 DEF Ranked
<1>8. Ranked(P, m2, nx2, r)
  BY <1>2, <1>3, <1>4, <1>5, <1>6, <1>7 DEF Ranked
<1> QED
  BY <1>8 DEF Linked

(* A first bucket that is a tail has its chain for itself, ...             *)
LEMMA LinkedAlone ==
  ASSUME NEW O, NEW m, NEW nx, Linked(O, m, nx), NEW b \in O, nx[b] = b
  PROVE  \A i \in O : m[i] = b => i = b
<1> PICK r : Ranked(O, m, nx, r)
  BY DEF Linked
<1> DEFINE S == {n \in Nat : \E i \in O : m[i] = b /\ i # b /\ r[i] = n}
<1> SUFFICES ASSUME NEW i \in O, m[i] = b, i # b PROVE FALSE
  OBVIOUS
<1>1. r[i] \in S
  BY DEF Ranked
<1>2. PICK n \in S : \A d \in S : n <= d
  <2>1. S \in SUBSET Nat /\ S # {}
    BY <1>1
  <2> HIDE DEF S
  <2> QED
    BY <2>1, FirstOne
<1>3. PICK j \in O : m[j] = b /\ j # b /\ r[j] = n
  OBVIOUS
<1>4. PICK l \in O : l # j /\ nx[l] = j
  BY <1>3 DEF Ranked
<1>5. m[l] = b /\ l # b /\ r[l] < n /\ r[l] \in Nat
  BY <1>3, <1>4 DEF Ranked
<1>6. r[l] \in S
  BY <1>5
<1> QED
  BY <1>2, <1>5, <1>6

(* ... and nothing is left of the chain without it.                        *)
LEMMA LinkedLone ==
  ASSUME NEW O, NEW m, NEW nx, Linked(O, m, nx), NEW b \in O, nx[b] = b, m[b] = b,
         NEW m2, NEW nx2, \A j \in O : j # b => m2[j] = m[j] /\ nx2[j] = nx[j]
  PROVE  Linked(O \ {b}, m2, nx2)
<1> PICK r : Ranked(O, m, nx, r)
  BY DEF Linked
<1>1. \A i \in O : m[i] = b => i = b
  BY LinkedAlone
<1>2. \A i \in O : nx[i] = b => i = b
  BY <1>1 DEF Ranked
<1>3. Ranked(O \ {b}, m2, nx2, r)
  BY <1>1, <1>2 DEF Ranked
<1> QED
  BY <1>3 DEF Linked

-----------------------------------------------------------------------------
(* Tables.                                                                 *)

Elements == Keys \X Values

ChNodes(n) == [k : Keys, v : Values, nx : 0 .. n - 1]

ChShape(n) == [slot : [0 .. n - 1 -> ChNodes(n) \cup {Free}], n : {n}, filled : Nat, last : Nat]

(* What the proofs need of the constants.                                  *)
ChainedAssumption ==
  /\ Background \subseteq Keys
  /\ Hash \in [Keys -> Nat]
  /\ Free \notin Nat /\ Free \notin [k : Keys, v : Values, nx : Nat]
  /\ \A s \in Initials \cup Ranges : s \in Seq(Elements) /\ 16 * (Len(s) + 1) <= MostBuckets
  /\ \A n \in Sizes : n \in Nat /\ 2 * n <= MostBuckets
  /\ MaxBuckets \in Nat /\ 16 * (MaxBuckets + 1) <= MostBuckets
  /\ MaxElements \in Nat

Shaped(tb) == tb.n \in BucketCounts /\ tb \in ChShape(tb.n)

(* The sizes of a table, and what is in its buckets.                       *)
LEMMA ShapeFacts ==
  ASSUME ChainedAssumption, NEW tb, Shaped(tb)
  PROVE  /\ tb.n \in Nat /\ tb.n >= 8 /\ tb.n <= MostBuckets
         /\ tb.filled \in Nat /\ tb.last \in Nat
         /\ DOMAIN tb.slot = 0 .. tb.n - 1
         /\ Occupied(tb) = {i \in 0 .. tb.n - 1 : tb.slot[i] # Free}
         /\ \A i \in Occupied(tb) :
              /\ i \in 0 .. tb.n - 1 /\ tb.slot[i] # Free /\ tb.slot[i] \in ChNodes(tb.n)
              /\ tb.slot[i].k \in Keys /\ tb.slot[i].v \in Values /\ NextBucket(tb, i) \in 0 .. tb.n - 1
              /\ MainBucket(tb, i) \in 0 .. tb.n - 1
         /\ \A k \in Keys : KeyToBucket(tb, k) \in 0 .. tb.n - 1
         /\ \A k \in Keys, v \in Values, x \in 0 .. tb.n - 1 : Node(k, v, x) \in ChNodes(tb.n)
         /\ Free \notin ChNodes(tb.n) /\ Free \notin Nat
<1>1. tb.n \in Nat /\ tb.n >= 8 /\ tb.n <= MostBuckets
  BY Capacities DEF Shaped
<1>2. tb \in ChShape(tb.n)
  BY DEF Shaped
<1>3. /\ tb.filled \in Nat /\ tb.last \in Nat
      /\ DOMAIN tb.slot = 0 .. tb.n - 1
      /\ tb.slot \in [0 .. tb.n - 1 -> ChNodes(tb.n) \cup {Free}]
  BY <1>2 DEF ChShape
<1>4. Occupied(tb) = {i \in 0 .. tb.n - 1 : tb.slot[i] # Free}
  BY <1>3 DEF Occupied, IsEmpty
<1>5. \A k \in Keys : KeyToBucket(tb, k) \in 0 .. tb.n - 1
  BY <1>1 DEF KeyToBucket, ChainedAssumption
<1>6. ASSUME NEW i \in Occupied(tb)
      PROVE  /\ i \in 0 .. tb.n - 1 /\ tb.slot[i] # Free /\ tb.slot[i] \in ChNodes(tb.n)
             /\ tb.slot[i].k \in Keys /\ tb.slot[i].v \in Values /\ NextBucket(tb, i) \in 0 .. tb.n - 1
             /\ MainBucket(tb, i) \in 0 .. tb.n - 1
  <2>1. i \in 0 .. tb.n - 1 /\ tb.slot[i] # Free
    BY <1>4
  <2>2. tb.slot[i] \in ChNodes(tb.n)
    BY <1>3, <2>1
  <2>3. tb.slot[i].k \in Keys /\ tb.slot[i].v \in Values /\ tb.slot[i].nx \in 0 .. tb.n - 1
    BY <2>2 DEF ChNodes
  <2> QED
    BY <1>5, <2>1, <2>2, <2>3 DEF NextBucket, MainBucket
<1>7. \A k \in Keys, v \in Values, x \in 0 .. tb.n - 1 : Node(k, v, x) \in ChNodes(tb.n)
  BY DEF Node, ChNodes
<1>8. Free \notin ChNodes(tb.n)
  <2>1. ChNodes(tb.n) \subseteq [k : Keys, v : Values, nx : Nat]
    BY <1>1 DEF ChNodes
  <2> QED
    BY <2>1 DEF ChainedAssumption
<1> QED
  BY <1>1, <1>3, <1>4, <1>5, <1>6, <1>7, <1>8 DEF ChainedAssumption

(* A table with other buckets, another count and another place to scan     *)
(* from.                                                                   *)
With(tb, s, c, l) == [slot |-> s, n |-> tb.n, filled |-> c, last |-> l]

LEMMA WithFacts ==
  ASSUME ChainedAssumption, NEW tb, Shaped(tb), NEW c \in Nat, NEW l \in Nat,
         NEW s \in [0 .. tb.n - 1 -> ChNodes(tb.n) \cup {Free}]
  PROVE  /\ Shaped(With(tb, s, c, l)) /\ With(tb, s, c, l).n = tb.n
         /\ With(tb, s, c, l).slot = s /\ With(tb, s, c, l).filled = c /\ With(tb, s, c, l).last = l
<1> DEFINE u == With(tb, s, c, l)
<1>1. u.n = tb.n /\ u.slot = s /\ u.filled = c /\ u.last = l
  BY DEF With
<1>3. u \in ChShape(tb.n)
  BY DEF ChShape, With
<1>4. tb.n \in BucketCounts
  BY DEF Shaped
<1> QED
  BY <1>1, <1>3, <1>4 DEF Shaped

(* The table u has as many buckets as tb.                                  *)
Alters(u, tb, c, l) == Shaped(u) /\ u.n = tb.n /\ u.filled = c /\ u.last = l

(* A bucket gets another content, ...                                      *)
LEMMA SlotFacts ==
  ASSUME ChainedAssumption, NEW tb, Shaped(tb), NEW i \in 0 .. tb.n - 1, NEW x \in ChNodes(tb.n) \cup {Free}
  PROVE  /\ Alters([tb EXCEPT !.slot[i] = x], tb, tb.filled, tb.last)
         /\ \A j \in 0 .. tb.n - 1 : [tb EXCEPT !.slot[i] = x].slot[j] = IF j = i THEN x ELSE tb.slot[j]
<1> DEFINE s == [tb.slot EXCEPT ![i] = x]
           u == With(tb, s, tb.filled, tb.last)
<1>1. tb.filled \in Nat /\ tb.last \in Nat /\ DOMAIN tb.slot = 0 .. tb.n - 1
  BY ShapeFacts
<1>2. tb \in ChShape(tb.n)
  BY DEF Shaped
<1>3. tb.slot \in [0 .. tb.n - 1 -> ChNodes(tb.n) \cup {Free}]
  BY <1>2 DEF ChShape
<1>4. s \in [0 .. tb.n - 1 -> ChNodes(tb.n) \cup {Free}]
  BY <1>3
<1>5. \A j \in 0 .. tb.n - 1 : s[j] = IF j = i THEN x ELSE tb.slot[j]
  BY <1>1
<1>6. [tb EXCEPT !.slot[i] = x] = u
  BY <1>2 DEF ChShape, With
<1> HIDE DEF s
<1>7. Shaped(u) /\ u.n = tb.n /\ u.slot = s /\ u.filled = tb.filled /\ u.last = tb.last
  BY <1>1, <1>4, WithFacts
<1> HIDE DEF u
<1> QED
  BY <1>5, <1>6, <1>7 DEF Alters

(* ... other counts are kept, ...                                          *)
LEMMA CountFacts ==
  ASSUME ChainedAssumption, NEW tb, Shaped(tb), NEW c \in Nat
  PROVE  /\ Alters([tb EXCEPT !.filled = c], tb, c, tb.last) /\ [tb EXCEPT !.filled = c].slot = tb.slot
         /\ Alters([tb EXCEPT !.last = c], tb, tb.filled, c) /\ [tb EXCEPT !.last = c].slot = tb.slot
<1>1. tb \in ChShape(tb.n) /\ tb.n \in BucketCounts
  BY DEF Shaped
<1>2. /\ [tb EXCEPT !.filled = c] \in ChShape(tb.n) /\ [tb EXCEPT !.filled = c].n = tb.n
      /\ [tb EXCEPT !.filled = c].filled = c /\ [tb EXCEPT !.filled = c].last = tb.last
      /\ [tb EXCEPT !.filled = c].slot = tb.slot
  BY <1>1 DEF ChShape
<1>3. /\ [tb EXCEPT !.last = c] \in ChShape(tb.n) /\ [tb EXCEPT !.last = c].n = tb.n
      /\ [tb EXCEPT !.last = c].filled = tb.filled /\ [tb EXCEPT !.last = c].last = c
      /\ [tb EXCEPT !.last = c].slot = tb.slot
  BY <1>1 DEF ChShape
<1> QED
  BY <1>1, <1>2, <1>3 DEF Alters, Shaped

(* ... an element points to another bucket, ...                            *)
LEMMA LinkFacts ==
  ASSUME ChainedAssumption, NEW tb, Shaped(tb), NEW i \in Occupied(tb), NEW x \in 0 .. tb.n - 1
  PROVE  /\ Alters(Link(tb, i, x), tb, tb.filled, tb.last)
         /\ \A j \in 0 .. tb.n - 1 :
              Link(tb, i, x).slot[j] = IF j = i THEN Node(tb.slot[i].k, tb.slot[i].v, x) ELSE tb.slot[j]
<1> DEFINE e == Node(tb.slot[i].k, tb.slot[i].v, x)
<1>1. /\ i \in 0 .. tb.n - 1 /\ tb.slot[i] \in ChNodes(tb.n)
      /\ tb.slot[i].k \in Keys /\ tb.slot[i].v \in Values /\ DOMAIN tb.slot = 0 .. tb.n - 1
  BY ShapeFacts
<1>2. e \in ChNodes(tb.n)
  BY <1>1, ShapeFacts
<1>3. [tb.slot[i] EXCEPT !.nx = x] = e
  BY <1>1 DEF ChNodes, Node
<1>4. tb \in ChShape(tb.n)
  BY DEF Shaped
<1>5. Link(tb, i, x) = [tb EXCEPT !.slot[i] = [tb.slot[i] EXCEPT !.nx = x]]
  BY <1>4 DEF Link, ChShape
<1> HIDE DEF e
<1>6. Link(tb, i, x) = [tb EXCEPT !.slot[i] = e]
  BY <1>3, <1>5
<1>7. /\ Alters([tb EXCEPT !.slot[i] = e], tb, tb.filled, tb.last)
      /\ \A j \in 0 .. tb.n - 1 : [tb EXCEPT !.slot[i] = e].slot[j] = IF j = i THEN e ELSE tb.slot[j]
  <2>1. i \in 0 .. tb.n - 1 /\ e \in ChNodes(tb.n) \cup {Free}
    BY <1>1, <1>2
  <2> QED
    BY <2>1, SlotFacts
<1> QED
  BY <1>6, <1>7 DEF e

(* ... a bucket is freed, ...                                              *)
LEMMA ClearFacts ==
  ASSUME ChainedAssumption, NEW tb, Shaped(tb), NEW i \in 0 .. tb.n - 1
  PROVE  /\ Alters(ClearBucket(tb, i), tb, tb.filled, tb.last)
         /\ \A j \in 0 .. tb.n - 1 : ClearBucket(tb, i).slot[j] = IF j = i THEN Free ELSE tb.slot[j]
  BY SlotFacts DEF ClearBucket

(* ... or an element moves to another bucket.                              *)
LEMMA RelocateFacts ==
  ASSUME ChainedAssumption, NEW tb, Shaped(tb), NEW i \in Occupied(tb), NEW to \in 0 .. tb.n - 1, to # i,
         NEW x \in 0 .. tb.n - 1
  PROVE  /\ Alters(Relocate(tb, i, to, x), tb, tb.filled, tb.last)
         /\ \A j \in 0 .. tb.n - 1 :
              Relocate(tb, i, to, x).slot[j] = IF j = i THEN Free
                                               ELSE IF j = to THEN Node(tb.slot[i].k, tb.slot[i].v, x)
                                               ELSE tb.slot[j]
<1> DEFINE e == Node(tb.slot[i].k, tb.slot[i].v, x)
           t == [tb EXCEPT !.slot[to] = e]
<1>1. e \in ChNodes(tb.n) /\ i \in 0 .. tb.n - 1
  BY ShapeFacts
<1> HIDE DEF e
<1>2. Alters(t, tb, tb.filled, tb.last) /\ \A j \in 0 .. tb.n - 1 : t.slot[j] = IF j = to THEN e ELSE tb.slot[j]
  BY <1>1, SlotFacts
<1>3. Relocate(tb, i, to, x) = ClearBucket(t, i)
  BY DEF Relocate, e
<1> HIDE DEF t
<1>4. Shaped(t) /\ t.n = tb.n /\ t.filled = tb.filled /\ t.last = tb.last
  BY <1>2 DEF Alters
<1>5. /\ Alters(ClearBucket(t, i), t, t.filled, t.last)
      /\ \A j \in 0 .. t.n - 1 : ClearBucket(t, i).slot[j] = IF j = i THEN Free ELSE t.slot[j]
  BY <1>1, <1>4, ClearFacts
<1> QED
  BY <1>2, <1>3, <1>4, <1>5 DEF Alters, e

(* place_kv_at.                                                            *)
LEMMA PlaceFacts ==
  ASSUME ChainedAssumption, NEW tb, Shaped(tb), NEW p \in 0 .. tb.n - 1, NEW from \in 0 .. tb.n - 1,
         from # p => from \in Occupied(tb), NEW k \in Keys, NEW v \in Values
  PROVE  /\ Alters(PlaceKvAt(tb, p, from, k, v), tb, tb.filled + 1, tb.last)
         /\ \A j \in 0 .. tb.n - 1 :
              PlaceKvAt(tb, p, from, k, v).slot[j] = IF j = p THEN Node(k, v, p)
                                                     ELSE IF j = from THEN Node(tb.slot[from].k, tb.slot[from].v, p)
                                                     ELSE tb.slot[j]
<1> DEFINE s == [j \in 0 .. tb.n - 1 |-> IF j = p THEN Node(k, v, p)
                                         ELSE IF j = from THEN [tb.slot[j] EXCEPT !.nx = p] ELSE tb.slot[j]]
           u == With(tb, s, tb.filled + 1, tb.last)
<1>1. DOMAIN tb.slot = 0 .. tb.n - 1 /\ tb.filled \in Nat /\ tb.last \in Nat /\ Node(k, v, p) \in ChNodes(tb.n)
  BY ShapeFacts
<1>2. tb \in ChShape(tb.n)
  BY DEF Shaped
<1>3. from # p => /\ [tb.slot[from] EXCEPT !.nx = p] = Node(tb.slot[from].k, tb.slot[from].v, p)
                  /\ Node(tb.slot[from].k, tb.slot[from].v, p) \in ChNodes(tb.n)
  <2> SUFFICES ASSUME from # p
               PROVE  /\ [tb.slot[from] EXCEPT !.nx = p] = Node(tb.slot[from].k, tb.slot[from].v, p)
                      /\ Node(tb.slot[from].k, tb.slot[from].v, p) \in ChNodes(tb.n)
    OBVIOUS
  <2>1. tb.slot[from] \in ChNodes(tb.n)
    BY ShapeFacts
  <2> QED
    BY <2>1 DEF ChNodes, Node
<1>4. \A j \in 0 .. tb.n - 1 : tb.slot[j] \in ChNodes(tb.n) \cup {Free}
  BY <1>2 DEF ChShape
<1>5. \A j \in 0 .. tb.n - 1 : s[j] = IF j = p THEN Node(k, v, p)
                                      ELSE IF j = from THEN Node(tb.slot[from].k, tb.slot[from].v, p)
                                      ELSE tb.slot[j]
  BY <1>3
<1>6. \A j \in 0 .. tb.n - 1 : s[j] \in ChNodes(tb.n) \cup {Free}
  BY <1>1, <1>3, <1>4, <1>5
<1>7. PlaceKvAt(tb, p, from, k, v) = u
  <2> DEFINE t == [j \in DOMAIN tb.slot |-> IF j = p THEN Node(k, v, p)
                                            ELSE IF j = from THEN [tb.slot[j] EXCEPT !.nx = p] ELSE tb.slot[j]]
  <2>1. t = s
    BY <1>1
  <2>2. PlaceKvAt(tb, p, from, k, v) = [[tb EXCEPT !.slot = t] EXCEPT !.filled = tb.filled + 1]
    BY <1>2 DEF PlaceKvAt, ChShape
  <2> HIDE DEF t, s
  <2> QED
    BY <1>2, <2>1, <2>2 DEF ChShape, With
<1>8. s \in [0 .. tb.n - 1 -> ChNodes(tb.n) \cup {Free}]
  BY <1>6
<1> HIDE DEF s
<1>9. Shaped(u) /\ u.n = tb.n /\ u.slot = s /\ u.filled = tb.filled + 1 /\ u.last = tb.last
  <2>1. tb.filled + 1 \in Nat
    BY <1>1
  <2> QED
    BY <1>1, <1>8, <2>1, WithFacts
<1> HIDE DEF u
<1> QED
  BY <1>5, <1>7, <1>9 DEF Alters

-----------------------------------------------------------------------------
(* Tables whose chains are in order.                                       *)

Mains(tb) == [i \in Occupied(tb) |-> MainBucket(tb, i)]

Nexts(tb) == [i \in Occupied(tb) |-> NextBucket(tb, i)]

Elem(tb, i) == <<tb.slot[i].k, tb.slot[i].v>>

Held(tb) == {Elem(tb, i) : i \in Occupied(tb)}

HasKey(tb, k) == \E i \in Occupied(tb) : tb.slot[i].k = k

KeyedOnce(tb) == \A i, j \in Occupied(tb) : tb.slot[i].k = tb.slot[j].k => i = j

Chained(tb) ==
  Shaped(tb) /\ KeyedOnce(tb) /\ Linked(Occupied(tb), Mains(tb), Nexts(tb))

Sound(tb) == Chained(tb) /\ tb.filled = Cardinality(Occupied(tb))

(* What holds of the chains, bucket by bucket.                             *)
LEMMA ChainFacts ==
  ASSUME ChainedAssumption, NEW tb, Chained(tb)
  PROVE  /\ \A i \in Occupied(tb) :
              /\ MainBucket(tb, i) \in Occupied(tb) /\ MainBucket(tb, MainBucket(tb, i)) = MainBucket(tb, i)
              /\ NextBucket(tb, i) \in Occupied(tb) /\ MainBucket(tb, NextBucket(tb, i)) = MainBucket(tb, i)
              /\ NextBucket(tb, i) # i => NextBucket(tb, i) # MainBucket(tb, i)
              /\ i # MainBucket(tb, i) =>
                   \E j \in Occupied(tb) : j # i /\ NextBucket(tb, j) = i /\ MainBucket(tb, j) = MainBucket(tb, i)
         /\ \A i, j \in Occupied(tb) :
              NextBucket(tb, i) = NextBucket(tb, j) /\ NextBucket(tb, i) # i /\ NextBucket(tb, j) # j => i = j
<1>1. PICK r : Ranked(Occupied(tb), Mains(tb), Nexts(tb), r)
  BY DEF Chained, Linked
<1>2. \A i \in Occupied(tb) : Mains(tb)[i] = MainBucket(tb, i) /\ Nexts(tb)[i] = NextBucket(tb, i)
  BY DEF Mains, Nexts
<1>3. ASSUME NEW i \in Occupied(tb)
      PROVE  /\ MainBucket(tb, i) \in Occupied(tb) /\ MainBucket(tb, MainBucket(tb, i)) = MainBucket(tb, i)
             /\ NextBucket(tb, i) \in Occupied(tb) /\ MainBucket(tb, NextBucket(tb, i)) = MainBucket(tb, i)
             /\ NextBucket(tb, i) # i => NextBucket(tb, i) # MainBucket(tb, i)
  BY <1>1, <1>2 DEF Ranked
<1>4. ASSUME NEW i \in Occupied(tb), i # MainBucket(tb, i)
      PROVE  \E j \in Occupied(tb) : j # i /\ NextBucket(tb, j) = i /\ MainBucket(tb, j) = MainBucket(tb, i)
  <2>1. PICK j \in Occupied(tb) : j # i /\ Nexts(tb)[j] = i
    BY <1>1, <1>2, <1>4 DEF Ranked
  <2> QED
    BY <1>2, <1>3, <2>1
<1>5. ASSUME NEW i \in Occupied(tb), NEW j \in Occupied(tb),
             NextBucket(tb, i) = NextBucket(tb, j), NextBucket(tb, i) # i, NextBucket(tb, j) # j
      PROVE  i = j
  BY <1>1, <1>2, <1>5 DEF Ranked
<1> QED
  BY <1>3, <1>4, <1>5

(* How many elements there are.                                            *)
LEMMA OccupiedFinite ==
  ASSUME ChainedAssumption, NEW tb, Shaped(tb)
  PROVE  /\ IsFiniteSet(Occupied(tb)) /\ Cardinality(Occupied(tb)) \in Nat
         /\ Cardinality(Occupied(tb)) <= tb.n
         /\ Cardinality(Occupied(tb)) < tb.n => \E i \in 0 .. tb.n - 1 : IsEmpty(tb, i)
<1>1. tb.n \in Nat /\ tb.n >= 8 /\ Occupied(tb) = {i \in 0 .. tb.n - 1 : tb.slot[i] # Free}
  BY ShapeFacts
<1>3. IsFiniteSet(0 .. tb.n - 1) /\ Cardinality(0 .. tb.n - 1) = tb.n
  <2> DEFINE m == tb.n - 1
  <2>1. m \in Int /\ 0 \in Int /\ ~ (0 > m) /\ m - 0 + 1 = tb.n
    BY <1>1
  <2> HIDE DEF m
  <2>2. IsFiniteSet(0 .. m) /\ Cardinality(0 .. m) = tb.n
    BY <2>1, FS_Interval
  <2> QED
    BY <2>2 DEF m
<1>4. Occupied(tb) \subseteq 0 .. tb.n - 1
  BY <1>1
<1>5. IsFiniteSet(Occupied(tb)) /\ Cardinality(Occupied(tb)) <= tb.n
  BY <1>3, <1>4, FS_Subset
<1>6. Cardinality(Occupied(tb)) \in Nat
  BY <1>5, FS_CardinalityType
<1>7. Occupied(tb) = 0 .. tb.n - 1 => Cardinality(Occupied(tb)) = tb.n
  BY <1>3
<1>8. ASSUME \A i \in 0 .. tb.n - 1 : ~ IsEmpty(tb, i) PROVE Occupied(tb) = 0 .. tb.n - 1
  BY <1>1, <1>8 DEF IsEmpty
<1> QED
  BY <1>1, <1>5, <1>6, <1>7, <1>8

-----------------------------------------------------------------------------
(* One element comes, moves or goes.                                       *)

(* What u holds in j is what tb holds in i.                                *)
SameAt(u, j, tb, i) == u.slot[j].k = tb.slot[i].k /\ u.slot[j].v = tb.slot[i].v

LEMMA GainedElements ==
  ASSUME NEW tb, NEW u, KeyedOnce(tb), NEW p, NEW k, NEW v, ~ HasKey(tb, k), p \notin Occupied(tb),
         Occupied(u) = Occupied(tb) \cup {p}, \A j \in Occupied(tb) : SameAt(u, j, tb, j),
         u.slot[p].k = k, u.slot[p].v = v
  PROVE  KeyedOnce(u) /\ Held(u) = Held(tb) \cup {<<k, v>>}
<1>1. KeyedOnce(u)
  BY DEF KeyedOnce, HasKey, SameAt
<1>2. Elem(u, p) = <<k, v>> /\ \A j \in Occupied(tb) : Elem(u, j) = Elem(tb, j)
  BY DEF Elem, SameAt
<1>3. Held(u) = Held(tb) \cup {<<k, v>>}
  BY <1>2 DEF Held
<1> QED
  BY <1>1, <1>3

(* The elements of u are those that tb holds in S, in buckets of their own. *)
Rearranges(u, tb, S, g) ==
  /\ S \subseteq Occupied(tb)
  /\ \A j \in Occupied(u) : g[j] \in S /\ SameAt(u, j, tb, g[j])
  /\ \A x \in S : \E j \in Occupied(u) : g[j] = x
  /\ \A i, j \in Occupied(u) : g[i] = g[j] => i = j

LEMMA RearrangedElements ==
  ASSUME NEW tb, NEW u, KeyedOnce(tb), NEW S, NEW g, Rearranges(u, tb, S, g)
  PROVE  /\ KeyedOnce(u)
         /\ S = Occupied(tb) => Held(u) = Held(tb)
         /\ \A i \in Occupied(tb) : S = Occupied(tb) \ {i} => Held(u) = Held(tb) \ {Elem(tb, i)}
<1> USE DEF Rearranges
<1>1. KeyedOnce(u)
  <2> SUFFICES ASSUME NEW i \in Occupied(u), NEW j \in Occupied(u), u.slot[i].k = u.slot[j].k PROVE i = j
    BY DEF KeyedOnce
  <2>1. g[i] \in Occupied(tb) /\ g[j] \in Occupied(tb) /\ tb.slot[g[i]].k = tb.slot[g[j]].k
    BY DEF SameAt
  <2>2. g[i] = g[j]
    BY <2>1 DEF KeyedOnce
  <2> QED
    BY <2>2
<1>2. Held(u) = {Elem(tb, x) : x \in S}
  <2>1. \A j \in Occupied(u) : Elem(u, j) = Elem(tb, g[j])
    BY DEF Elem, SameAt
  <2> QED
    BY <2>1 DEF Held
<1>3. ASSUME NEW i \in Occupied(tb), S = Occupied(tb) \ {i} PROVE Held(u) = Held(tb) \ {Elem(tb, i)}
  <2>1. \A x \in S : Elem(tb, x) # Elem(tb, i)
    <3>1. \A x \in S : tb.slot[x].k # tb.slot[i].k
      BY <1>3 DEF KeyedOnce
    <3> QED
      BY <3>1 DEF Elem
  <2>2. \A e : e \in Held(tb) \ {Elem(tb, i)} <=> \E x \in S : e = Elem(tb, x)
    <3>1. \A e : e \in Held(tb) <=> \E x \in Occupied(tb) : e = Elem(tb, x)
      BY DEF Held
    <3>2. \A x \in Occupied(tb) : x \in S \/ x = i
      BY <1>3
    <3> QED
      BY <2>1, <3>1, <3>2
  <2> QED
    BY <1>2, <2>2
<1> QED
  BY <1>1, <1>2, <1>3 DEF Held

(* u is tb with one element more, in bucket p, ...                         *)
Gains(u, tb, p, k, v) ==
  /\ Chained(u) /\ u.n = tb.n /\ u.filled = tb.filled + 1 /\ (Sound(tb) => Sound(u))
  /\ p \notin Occupied(tb) /\ Occupied(u) = Occupied(tb) \cup {p}
  /\ u.slot[p].k = k /\ u.slot[p].v = v /\ \A j \in Occupied(tb) : SameAt(u, j, tb, j)
  /\ Held(u) = Held(tb) \cup {<<k, v>>}

(* ... with the same elements, one in another bucket, ...                  *)
Shifts(u, tb, b, f) ==
  /\ Chained(u) /\ u.n = tb.n /\ u.filled = tb.filled /\ (Sound(tb) => Sound(u))
  /\ f \notin Occupied(tb) /\ Occupied(u) = (Occupied(tb) \ {b}) \cup {f} /\ Held(u) = Held(tb)

(* ... or without the element of bucket i, into which another may have     *)
(* come (erase() counts it).                                               *)
Loses(u, tb, i) ==
  /\ Chained(u) /\ u.n = tb.n /\ u.filled = tb.filled
  /\ \E j \in Occupied(tb) : Occupied(u) = Occupied(tb) \ {j}
  /\ \A j \in Occupied(u) : j # i => SameAt(u, j, tb, j)
  /\ Held(u) = Held(tb) \ {Elem(tb, i)}

LEMMA PlacedFacts ==
  ASSUME ChainedAssumption, NEW tb, Chained(tb), NEW k \in Keys, NEW v \in Values, ~ HasKey(tb, k),
         NEW p \in 0 .. tb.n - 1, IsEmpty(tb, p), NEW from,
         \/ from = p /\ KeyToBucket(tb, k) = p
         \/ from \in Occupied(tb) /\ IsTail(tb, from) /\ MainBucket(tb, from) = KeyToBucket(tb, k)
  PROVE  Gains(PlaceKvAt(tb, p, from, k, v), tb, p, k, v)
<1> DEFINE u == PlaceKvAt(tb, p, from, k, v)
           O == Occupied(tb)
<1>1. Shaped(tb) /\ KeyedOnce(tb) /\ Linked(Occupied(tb), Mains(tb), Nexts(tb))
  BY DEF Chained
<1>2. /\ tb.filled \in Nat /\ O = {i \in 0 .. tb.n - 1 : tb.slot[i] # Free} /\ tb.n \in Nat
      /\ \A i \in O : i \in 0 .. tb.n - 1
  BY <1>1, ShapeFacts
<1>3. p \notin O /\ from \in 0 .. tb.n - 1 /\ (from # p => from \in O)
  BY <1>2 DEF IsEmpty
<1>4. /\ Alters(u, tb, tb.filled + 1, tb.last)
      /\ \A j \in 0 .. tb.n - 1 : u.slot[j] = IF j = p THEN Node(k, v, p)
                                               ELSE IF j = from THEN Node(tb.slot[from].k, tb.slot[from].v, p)
                                               ELSE tb.slot[j]
  BY <1>1, <1>3, PlaceFacts
<1> HIDE DEF u
<1>5. Shaped(u) /\ u.n = tb.n /\ u.filled = tb.filled + 1
  BY <1>4 DEF Alters
<1>6. \A a, b, c : Node(a, b, c).k = a /\ Node(a, b, c).v = b /\ Node(a, b, c).nx = c
  BY DEF Node
<1>7. /\ u.slot[p].k = k /\ u.slot[p].v = v /\ u.slot[p].nx = p
      /\ \A j \in O : SameAt(u, j, tb, j) /\ u.slot[j].nx = IF j = from THEN p ELSE tb.slot[j].nx
  BY <1>2, <1>3, <1>4, <1>6 DEF SameAt
<1>8. Occupied(u) = O \cup {p}
  <2>1. \A a, b : \A x \in 0 .. tb.n - 1 : a \in Keys /\ b \in Values => Node(a, b, x) # Free
    BY <1>1, ShapeFacts
  <2>2. \A i \in O : tb.slot[i].k \in Keys /\ tb.slot[i].v \in Values
    BY <1>1, ShapeFacts
  <2>3. \A j \in 0 .. tb.n - 1 : u.slot[j] # Free <=> j \in O \/ j = p
    BY <1>2, <1>3, <1>4, <2>1, <2>2
  <2>4. Occupied(u) = {i \in 0 .. tb.n - 1 : u.slot[i] # Free}
    BY <1>5, ShapeFacts
  <2> QED
    BY <1>2, <2>3, <2>4
<1>9. KeyedOnce(u) /\ Held(u) = Held(tb) \cup {<<k, v>>}
  BY <1>1, <1>3, <1>7, <1>8, GainedElements
<1>10. /\ \A j \in O : Mains(u)[j] = Mains(tb)[j] /\ Nexts(u)[j] = IF j = from THEN p ELSE Nexts(tb)[j]
       /\ Mains(u)[p] = KeyToBucket(tb, k) /\ Nexts(u)[p] = p
       /\ \A j \in O : Mains(tb)[j] = MainBucket(tb, j) /\ Nexts(tb)[j] = NextBucket(tb, j)
  BY <1>3, <1>5, <1>7, <1>8 DEF Mains, Nexts, MainBucket, NextBucket, KeyToBucket, SameAt
<1>11. Linked(Occupied(u), Mains(u), Nexts(u))
  <2> DEFINE m == Mains(tb)
             nx == Nexts(tb)
             m2 == Mains(u)
             nx2 == Nexts(u)
  <2>0. Linked(O, m, nx)
    BY <1>1
  <2>1. CASE from = p
    <3>1. \A i \in O : m2[i] = m[i] /\ nx2[i] = nx[i]
      BY <1>3, <1>10, <2>1
    <3>2. m2[p] = p /\ nx2[p] = p
      BY <1>3, <1>10, <2>1
    <3> HIDE DEF m, nx, m2, nx2, O
    <3>3. Linked(O \cup {p}, m2, nx2)
      BY <1>3, <2>0, <3>1, <3>2, LinkedHead
    <3> QED
      BY <1>8, <3>3 DEF m2, nx2
  <2>2. CASE from # p
    <3>1. from \in O /\ nx[from] = from /\ m[from] = KeyToBucket(tb, k)
      BY <1>3, <1>10, <2>2 DEF IsTail
    <3>2. \A i \in O : m2[i] = m[i] /\ (i # from => nx2[i] = nx[i])
      BY <1>10
    <3>3. m2[p] = m[from] /\ nx2[from] = p /\ nx2[p] = p
      BY <1>10, <3>1
    <3> HIDE DEF m, nx, m2, nx2, O
    <3>5. Extended(O, m, nx, from, p, m2, nx2)
      BY <1>3, <3>1, <3>2, <3>3 DEF Extended
    <3>4. Linked(O \cup {p}, m2, nx2)
      BY <2>0, <3>5, LinkedBehind
    <3> QED
      BY <1>8, <3>4 DEF m2, nx2
  <2> QED
    BY <2>1, <2>2
<1>12. Chained(u)
  BY <1>5, <1>9, <1>11 DEF Chained
<1>13. Sound(tb) => Sound(u)
  <2>1. IsFiniteSet(O)
    BY <1>1, OccupiedFinite
  <2>2. Cardinality(O \cup {p}) = Cardinality(O) + 1
    BY <1>3, <2>1, FS_AddElement
  <2> QED
    BY <1>5, <1>8, <1>12, <2>2 DEF Sound
<1> QED
  BY <1>3, <1>5, <1>7, <1>8, <1>9, <1>12, <1>13 DEF Gains, u

(* An element that is not the first of its chain moves to a free bucket.   *)
LEMMA MovedFacts ==
  ASSUME ChainedAssumption, NEW tb, Chained(tb), NEW b \in Occupied(tb), MainBucket(tb, b) # b,
         NEW p \in Occupied(tb), p # b, NextBucket(tb, p) = b, NEW f \in 0 .. tb.n - 1, IsEmpty(tb, f), NEW l \in Nat,
         NEW x, x = IF NextBucket(tb, b) = b THEN f ELSE NextBucket(tb, b)
  PROVE  Shifts(Link([Relocate(tb, b, f, x) EXCEPT !.last = l], p, f), tb, b, f)
<1> DEFINE t == Relocate(tb, b, f, x)
           w == [t EXCEPT !.last = l]
           u == Link(w, p, f)
           O == Occupied(tb)
           e == Node(tb.slot[b].k, tb.slot[b].v, x)
<1>1. Shaped(tb) /\ KeyedOnce(tb) /\ Linked(Occupied(tb), Mains(tb), Nexts(tb))
  BY DEF Chained
<1>2. /\ tb.filled \in Nat /\ O = {i \in 0 .. tb.n - 1 : tb.slot[i] # Free} /\ tb.n \in Nat
      /\ \A i \in O : i \in 0 .. tb.n - 1 /\ NextBucket(tb, i) \in 0 .. tb.n - 1 /\ tb.slot[i] # Free
      /\ \A i \in O : tb.slot[i].k \in Keys /\ tb.slot[i].v \in Values
  BY <1>1, ShapeFacts
<1>3. f \notin O /\ x \in 0 .. tb.n - 1 /\ f # b /\ f # p
  BY <1>2 DEF IsEmpty
<1>4. \A k \in Keys, v \in Values, y \in 0 .. tb.n - 1 : Node(k, v, y) # Free
  BY <1>1, ShapeFacts
<1>5. \A a, y, c : Node(a, y, c).k = a /\ Node(a, y, c).v = y /\ Node(a, y, c).nx = c
  BY DEF Node
<1>6. /\ Alters(t, tb, tb.filled, tb.last)
      /\ \A j \in 0 .. tb.n - 1 : t.slot[j] = IF j = b THEN Free ELSE IF j = f THEN e ELSE tb.slot[j]
  BY <1>1, <1>3, RelocateFacts
<1> HIDE DEF t
<1>7. Shaped(w) /\ w.n = tb.n /\ w.filled = tb.filled /\ w.slot = t.slot
  <2>1. Shaped(t) /\ t.n = tb.n /\ t.filled = tb.filled
    BY <1>6 DEF Alters
  <2>2. Alters(w, t, t.filled, l) /\ w.slot = t.slot
    BY <2>1, CountFacts
  <2> QED
    BY <2>1, <2>2 DEF Alters
<1> HIDE DEF w
<1>8. p \in Occupied(w) /\ w.slot[p] = tb.slot[p]
  <2>1. Occupied(w) = {i \in 0 .. w.n - 1 : w.slot[i] # Free}
    BY <1>7, ShapeFacts
  <2> QED
    BY <1>2, <1>3, <1>6, <1>7, <2>1
<1>9. /\ Alters(u, w, w.filled, w.last)
      /\ \A j \in 0 .. w.n - 1 : u.slot[j] = IF j = p THEN Node(w.slot[p].k, w.slot[p].v, f) ELSE w.slot[j]
  BY <1>3, <1>7, <1>8, LinkFacts
<1> HIDE DEF u
<1>10. Shaped(u) /\ u.n = tb.n /\ u.filled = tb.filled
  BY <1>7, <1>9 DEF Alters
<1>11. \A j \in 0 .. tb.n - 1 : u.slot[j] = IF j = b THEN Free ELSE IF j = f THEN e
                                           ELSE IF j = p THEN Node(tb.slot[p].k, tb.slot[p].v, f) ELSE tb.slot[j]
  BY <1>2, <1>3, <1>6, <1>7, <1>8, <1>9
<1>12. Occupied(u) = (O \ {b}) \cup {f}
  <2>1. Occupied(u) = {i \in 0 .. tb.n - 1 : u.slot[i] # Free}
    BY <1>10, ShapeFacts
  <2>2. e # Free /\ Node(tb.slot[p].k, tb.slot[p].v, f) # Free
    BY <1>2, <1>3, <1>4
  <2> HIDE DEF e
  <2>3. \A j \in 0 .. tb.n - 1 : u.slot[j] # Free <=> (j \in O /\ j # b) \/ j = f
    BY <1>2, <1>3, <1>11, <2>2
  <2> QED
    BY <1>2, <2>1, <2>3
<1>13. /\ SameAt(u, f, tb, b) /\ u.slot[f].nx = x
       /\ \A j \in O : j # b => SameAt(u, j, tb, j) /\ u.slot[j].nx = IF j = p THEN f ELSE tb.slot[j].nx
  <2>1. SameAt(u, f, tb, b) /\ u.slot[f].nx = x
    BY <1>3, <1>5, <1>11 DEF SameAt
  <2>2. ASSUME NEW j \in O, j # b PROVE SameAt(u, j, tb, j) /\ u.slot[j].nx = IF j = p THEN f ELSE tb.slot[j].nx
    BY <1>2, <1>3, <1>5, <1>11, <2>2 DEF SameAt
  <2> QED
    BY <2>1, <2>2
<1>14. KeyedOnce(u) /\ Held(u) = Held(tb)
  <2> DEFINE g == [j \in Occupied(u) |-> IF j = f THEN b ELSE j]
  <2>1. \A j \in Occupied(u) : g[j] \in O /\ SameAt(u, j, tb, g[j])
    BY <1>3, <1>12, <1>13
  <2>2. \A y \in O : \E j \in Occupied(u) : g[j] = y
    <3> SUFFICES ASSUME NEW y \in O PROVE \E j \in Occupied(u) : g[j] = y
      OBVIOUS
    <3>1. CASE y = b
      <4>1. f \in Occupied(u) /\ g[f] = b
        BY <1>12
      <4> QED
        BY <3>1, <4>1
    <3>2. CASE y # b
      <4>1. y \in Occupied(u) /\ g[y] = y
        BY <1>3, <1>12, <3>2
      <4> QED
        BY <4>1
    <3> QED
      BY <3>1, <3>2
  <2>3. \A i, j \in Occupied(u) : g[i] = g[j] => i = j
    BY <1>3, <1>12
  <2>9. Rearranges(u, tb, O, g)
    BY <2>1, <2>2, <2>3 DEF Rearranges
  <2> HIDE DEF g
  <2> QED
    BY <1>1, <2>9, RearrangedElements
<1>15. /\ \A j \in O : j # b => Mains(u)[j] = Mains(tb)[j] /\ (j # p => Nexts(u)[j] = Nexts(tb)[j])
       /\ Mains(u)[f] = Mains(tb)[b] /\ Nexts(u)[p] = f /\ Nexts(u)[f] = x
       /\ \A j \in O : Mains(tb)[j] = MainBucket(tb, j) /\ Nexts(tb)[j] = NextBucket(tb, j)
  <2>1. \A j \in O : Mains(tb)[j] = MainBucket(tb, j) /\ Nexts(tb)[j] = NextBucket(tb, j)
    BY DEF Mains, Nexts
  <2>2. \A j \in Occupied(u) : Mains(u)[j] = MainBucket(u, j) /\ Nexts(u)[j] = u.slot[j].nx
    BY DEF Mains, Nexts, NextBucket
  <2>3. \A j, i : SameAt(u, j, tb, i) => MainBucket(u, j) = MainBucket(tb, i)
    BY <1>10 DEF MainBucket, KeyToBucket, SameAt
  <2>4. \A j \in O : tb.slot[j].nx = NextBucket(tb, j)
    BY DEF NextBucket
  <2> QED
    BY <1>3, <1>12, <1>13, <2>1, <2>2, <2>3, <2>4
<1>16. Linked(Occupied(u), Mains(u), Nexts(u))
  <2> DEFINE m == Mains(tb)
             nx == Nexts(tb)
             m2 == Mains(u)
             nx2 == Nexts(u)
  <2>1. Moving(O, m, nx, b, p, f, m2, nx2)
    BY <1>3, <1>15 DEF Moving
  <2>2. Linked(O, m, nx)
    BY <1>1
  <2> HIDE DEF m, nx, m2, nx2, O
  <2>3. Linked((O \ {b}) \cup {f}, m2, nx2)
    BY <2>1, <2>2, LinkedMoved
  <2> QED
    BY <1>12, <2>3 DEF m2, nx2
<1>17. Chained(u)
  BY <1>10, <1>14, <1>16 DEF Chained
<1>18. Sound(tb) => Sound(u)
  <2>1. IsFiniteSet(O)
    BY <1>1, OccupiedFinite
  <2>2. Cardinality(O \ {b}) = Cardinality(O) - 1 /\ IsFiniteSet(O \ {b})
    BY <2>1, FS_RemoveElement
  <2>3. Cardinality((O \ {b}) \cup {f}) = Cardinality(O \ {b}) + 1
    BY <1>3, <2>2, FS_AddElement
  <2>4. Cardinality(O) \in Nat
    BY <2>1, FS_CardinalityType
  <2> QED
    BY <1>10, <1>12, <1>17, <2>2, <2>3, <2>4 DEF Sound
<1> QED
  BY <1>3, <1>10, <1>12, <1>14, <1>17, <1>18 DEF Shifts, u, w, t

(* An element that is not the first of its chain goes.                     *)
LEMMA UnlinkedFacts ==
  ASSUME ChainedAssumption, NEW tb, Chained(tb), NEW i \in Occupied(tb), MainBucket(tb, i) # i,
         NEW p \in Occupied(tb), p # i, NextBucket(tb, p) = i
  PROVE  Loses(Unlink(tb, i, p), tb, i)
<1> DEFINE x == IF IsTail(tb, i) THEN p ELSE NextBucket(tb, i)
           t == Link(tb, p, x)
           u == Unlink(tb, i, p)
           O == Occupied(tb)
           e == Node(tb.slot[p].k, tb.slot[p].v, x)
<1>1. Shaped(tb) /\ KeyedOnce(tb) /\ Linked(Occupied(tb), Mains(tb), Nexts(tb))
  BY DEF Chained
<1>2. /\ tb.filled \in Nat /\ O = {j \in 0 .. tb.n - 1 : tb.slot[j] # Free} /\ tb.n \in Nat
      /\ \A j \in O : j \in 0 .. tb.n - 1 /\ NextBucket(tb, j) \in 0 .. tb.n - 1 /\ tb.slot[j] # Free
      /\ \A j \in O : tb.slot[j].k \in Keys /\ tb.slot[j].v \in Values
  BY <1>1, ShapeFacts
<1>3. x = (IF NextBucket(tb, i) = i THEN p ELSE NextBucket(tb, i)) /\ x \in 0 .. tb.n - 1
  BY <1>2 DEF IsTail
<1>4. u = ClearBucket(t, i)
  BY DEF Unlink
<1> HIDE DEF x
<1>5. \A a, y, c : Node(a, y, c).k = a /\ Node(a, y, c).v = y /\ Node(a, y, c).nx = c
  BY DEF Node
<1>6. e # Free
  BY <1>1, <1>2, <1>3, ShapeFacts
<1>7. /\ Alters(t, tb, tb.filled, tb.last)
      /\ \A j \in 0 .. tb.n - 1 : t.slot[j] = IF j = p THEN e ELSE tb.slot[j]
  BY <1>1, <1>3, LinkFacts
<1> HIDE DEF t, u
<1>8. Shaped(t) /\ t.n = tb.n /\ t.filled = tb.filled
  BY <1>7 DEF Alters
<1>9. /\ Alters(u, t, t.filled, t.last)
      /\ \A j \in 0 .. t.n - 1 : u.slot[j] = IF j = i THEN Free ELSE t.slot[j]
  BY <1>2, <1>4, <1>8, ClearFacts
<1>10. Shaped(u) /\ u.n = tb.n /\ u.filled = tb.filled
  BY <1>8, <1>9 DEF Alters
<1>11. \A j \in 0 .. tb.n - 1 : u.slot[j] = IF j = i THEN Free ELSE IF j = p THEN e ELSE tb.slot[j]
  BY <1>7, <1>8, <1>9
<1>12. Occupied(u) = O \ {i}
  <2>1. Occupied(u) = {j \in 0 .. tb.n - 1 : u.slot[j] # Free}
    BY <1>10, ShapeFacts
  <2> HIDE DEF e
  <2>3. \A j \in 0 .. tb.n - 1 : u.slot[j] # Free <=> j \in O /\ j # i
    BY <1>2, <1>6, <1>11
  <2> QED
    BY <1>2, <2>1, <2>3
<1>13. \A j \in O : j # i => SameAt(u, j, tb, j) /\ u.slot[j].nx = IF j = p THEN x ELSE tb.slot[j].nx
  <2> SUFFICES ASSUME NEW j \in O, j # i PROVE SameAt(u, j, tb, j) /\ u.slot[j].nx = IF j = p THEN x ELSE tb.slot[j].nx
    OBVIOUS
  <2> QED
    BY <1>2, <1>5, <1>11 DEF SameAt
<1>14. KeyedOnce(u) /\ Held(u) = Held(tb) \ {Elem(tb, i)}
  <2> DEFINE g == [j \in Occupied(u) |-> j]
             S == O \ {i}
  <2>1. \A j \in Occupied(u) : g[j] \in S /\ SameAt(u, j, tb, g[j])
    BY <1>12, <1>13
  <2>2. \A y \in S : \E j \in Occupied(u) : g[j] = y
    BY <1>12
  <2>3. \A j, y \in Occupied(u) : g[j] = g[y] => j = y
    OBVIOUS
  <2>4. S \subseteq O /\ S = O \ {i}
    OBVIOUS
  <2>9. Rearranges(u, tb, S, g)
    BY <2>1, <2>2, <2>3, <2>4 DEF Rearranges
  <2> HIDE DEF g, S
  <2> QED
    BY <1>1, <2>9, <2>4, RearrangedElements
<1>15. /\ \A j \in O : j # i => Mains(u)[j] = Mains(tb)[j] /\ (j # p => Nexts(u)[j] = Nexts(tb)[j])
       /\ Nexts(u)[p] = x
       /\ \A j \in O : Mains(tb)[j] = MainBucket(tb, j) /\ Nexts(tb)[j] = NextBucket(tb, j)
  <2>1. \A j \in O : Mains(tb)[j] = MainBucket(tb, j) /\ Nexts(tb)[j] = NextBucket(tb, j)
    BY DEF Mains, Nexts
  <2>2. \A j \in Occupied(u) : Mains(u)[j] = MainBucket(u, j) /\ Nexts(u)[j] = u.slot[j].nx
    BY DEF Mains, Nexts, NextBucket
  <2>3. \A j, y : SameAt(u, j, tb, y) => MainBucket(u, j) = MainBucket(tb, y)
    BY <1>10 DEF MainBucket, KeyToBucket, SameAt
  <2>4. \A j \in O : tb.slot[j].nx = NextBucket(tb, j)
    BY DEF NextBucket
  <2> QED
    BY <1>12, <1>13, <2>1, <2>2, <2>3, <2>4
<1>16. Linked(Occupied(u), Mains(u), Nexts(u))
  <2> DEFINE m == Mains(tb)
             nx == Nexts(tb)
             m2 == Mains(u)
             nx2 == Nexts(u)
  <2>1. Shortened(O, m, nx, i, p, m2, nx2)
    BY <1>3, <1>15 DEF Shortened
  <2>2. Linked(O, m, nx)
    BY <1>1
  <2> HIDE DEF m, nx, m2, nx2, O
  <2>3. Linked(O \ {i}, m2, nx2)
    BY <2>1, <2>2, LinkedWithout
  <2> QED
    BY <1>12, <2>3 DEF m2, nx2
<1>17. Chained(u)
  BY <1>10, <1>14, <1>16 DEF Chained
<1>18. \A j \in Occupied(u) : j # i => SameAt(u, j, tb, j)
  BY <1>12, <1>13
<1> HIDE DEF O
<1> QED
  BY <1>10, <1>12, <1>14, <1>17, <1>18 DEF Loses, u, O

(* The first of a chain goes, and the second takes its place.              *)
LEMMA EraseHeadFacts ==
  ASSUME ChainedAssumption, NEW tb, Chained(tb), NEW i \in Occupied(tb), MainBucket(tb, i) = i
  PROVE  Loses(EraseHead(tb, i), tb, i)
<1> DEFINE u == EraseHead(tb, i)
           O == Occupied(tb)
           nb == NextBucket(tb, i)
<1>1. Shaped(tb) /\ KeyedOnce(tb) /\ Linked(Occupied(tb), Mains(tb), Nexts(tb))
  BY DEF Chained
<1>2. /\ tb.filled \in Nat /\ O = {j \in 0 .. tb.n - 1 : tb.slot[j] # Free} /\ tb.n \in Nat
      /\ \A j \in O : j \in 0 .. tb.n - 1 /\ NextBucket(tb, j) \in 0 .. tb.n - 1 /\ tb.slot[j] # Free
      /\ \A j \in O : tb.slot[j].k \in Keys /\ tb.slot[j].v \in Values
  BY <1>1, ShapeFacts
<1>3. \A j \in O : Mains(tb)[j] = MainBucket(tb, j) /\ Nexts(tb)[j] = NextBucket(tb, j) /\ tb.slot[j].nx = NextBucket(tb, j)
  BY DEF Mains, Nexts, NextBucket
<1>4. \A w : /\ \A j \in Occupied(w) : Mains(w)[j] = MainBucket(w, j) /\ Nexts(w)[j] = w.slot[j].nx
             /\ \A j, y : SameAt(w, j, tb, y) /\ w.n = tb.n => MainBucket(w, j) = MainBucket(tb, y)
  BY DEF Mains, Nexts, NextBucket, MainBucket, KeyToBucket, SameAt
<1>5. CASE nb = i
  <2>1. u = ClearBucket(tb, i)
    BY <1>5 DEF EraseHead
  <2> HIDE DEF u
  <2>2. /\ Alters(u, tb, tb.filled, tb.last)
        /\ \A j \in 0 .. tb.n - 1 : u.slot[j] = IF j = i THEN Free ELSE tb.slot[j]
    BY <1>1, <1>2, <2>1, ClearFacts
  <2>3. Shaped(u) /\ u.n = tb.n /\ u.filled = tb.filled
    BY <2>2 DEF Alters
  <2>4. Occupied(u) = O \ {i}
    <3>1. Occupied(u) = {j \in 0 .. tb.n - 1 : u.slot[j] # Free}
      BY <2>3, ShapeFacts
    <3> QED
      BY <1>2, <2>2, <3>1
  <2>5. \A j \in O : j # i => u.slot[j] = tb.slot[j] /\ SameAt(u, j, tb, j)
    BY <1>2, <2>2 DEF SameAt
  <2>6. KeyedOnce(u) /\ Held(u) = Held(tb) \ {Elem(tb, i)}
    <3> DEFINE g == [j \in Occupied(u) |-> j]
               S == O \ {i}
    <3>1. \A j \in Occupied(u) : g[j] \in S /\ SameAt(u, j, tb, g[j])
      BY <2>4, <2>5
    <3>2. \A y \in S : \E j \in Occupied(u) : g[j] = y
      BY <2>4
    <3>3. \A j, y \in Occupied(u) : g[j] = g[y] => j = y
      OBVIOUS
    <3>4. S \subseteq O /\ S = O \ {i}
      OBVIOUS
    <3>9. Rearranges(u, tb, S, g)
      BY <3>1, <3>2, <3>3, <3>4 DEF Rearranges
    <3> HIDE DEF g, S
    <3> QED
      BY <1>1, <3>9, <3>4, RearrangedElements
  <2>7. Linked(Occupied(u), Mains(u), Nexts(u))
    <3> DEFINE m == Mains(tb)
               nx == Nexts(tb)
               m2 == Mains(u)
               nx2 == Nexts(u)
    <3>1. \A j \in O : j # i => m2[j] = m[j] /\ nx2[j] = nx[j]
      BY <1>3, <1>4, <2>3, <2>4, <2>5
    <3>2. Linked(O, m, nx) /\ i \in O /\ nx[i] = i /\ m[i] = i
      BY <1>1, <1>3, <1>5
    <3> HIDE DEF m, nx, m2, nx2, O
    <3>3. Linked(O \ {i}, m2, nx2)
      BY <3>1, <3>2, LinkedLone
    <3> QED
      BY <2>4, <3>3 DEF m2, nx2
  <2>8. Chained(u)
    BY <2>3, <2>6, <2>7 DEF Chained
  <2>9. \A j \in Occupied(u) : j # i => SameAt(u, j, tb, j)
    BY <2>4, <2>5
  <2> HIDE DEF O
  <2> QED
    BY <2>3, <2>4, <2>6, <2>8, <2>9 DEF Loses, u, O
<1>6. CASE nb # i
  <2> DEFINE nx0 == NextBucket(tb, nb)
             x == IF nx0 = nb THEN i ELSE nx0
             e == Node(tb.slot[nb].k, tb.slot[nb].v, x)
  <2>1. u = Relocate(tb, nb, i, x)
    BY <1>6 DEF EraseHead
  <2>0. nb \in O /\ MainBucket(tb, nb) = i /\ x \in 0 .. tb.n - 1
    <3>1. nb \in O /\ MainBucket(tb, nb) = i
      BY ChainFacts
    <3> QED
      BY <1>2, <3>1
  <2>00. \A a, y, c : Node(a, y, c).k = a /\ Node(a, y, c).v = y /\ Node(a, y, c).nx = c
    BY DEF Node
  <2> HIDE DEF u, x, nb
  <2>2. /\ Alters(u, tb, tb.filled, tb.last)
        /\ \A j \in 0 .. tb.n - 1 : u.slot[j] = IF j = nb THEN Free ELSE IF j = i THEN e ELSE tb.slot[j]
    BY <1>1, <1>2, <1>6, <2>0, <2>1, RelocateFacts
  <2>3. Shaped(u) /\ u.n = tb.n /\ u.filled = tb.filled
    BY <2>2 DEF Alters
  <2>4. Occupied(u) = O \ {nb}
    <3>1. Occupied(u) = {j \in 0 .. tb.n - 1 : u.slot[j] # Free}
      BY <2>3, ShapeFacts
    <3>2. e # Free
      BY <1>1, <1>2, <2>0, ShapeFacts
    <3> HIDE DEF e
    <3> QED
      BY <1>2, <1>6, <2>2, <3>1, <3>2
  <2>5. /\ \A j \in O : j # nb /\ j # i => u.slot[j] = tb.slot[j] /\ SameAt(u, j, tb, j)
        /\ SameAt(u, i, tb, nb) /\ u.slot[i].nx = x
    <3>1. \A j \in O : j # nb /\ j # i => u.slot[j] = tb.slot[j] /\ SameAt(u, j, tb, j)
      BY <1>2, <2>2 DEF SameAt
    <3>2. u.slot[i] = e
      BY <1>2, <1>6, <2>2
    <3> QED
      BY <2>00, <3>1, <3>2 DEF SameAt
  <2>6. KeyedOnce(u) /\ Held(u) = Held(tb) \ {Elem(tb, i)}
    <3> DEFINE g == [j \in Occupied(u) |-> IF j = i THEN nb ELSE j]
               S == O \ {i}
    <3>1. \A j \in Occupied(u) : g[j] \in S /\ SameAt(u, j, tb, g[j])
      BY <1>6, <2>0, <2>4, <2>5
    <3>2. \A y \in S : \E j \in Occupied(u) : g[j] = y
      <4> SUFFICES ASSUME NEW y \in S PROVE \E j \in Occupied(u) : g[j] = y
        OBVIOUS
      <4>1. CASE y = nb
        <5>1. i \in Occupied(u) /\ g[i] = nb
          BY <1>6, <2>4
        <5> QED
          BY <4>1, <5>1
      <4>2. CASE y # nb
        <5>1. y \in Occupied(u) /\ g[y] = y
          BY <2>4, <4>2
        <5> QED
          BY <5>1
      <4> QED
        BY <4>1, <4>2
    <3>3. \A j, y \in Occupied(u) : g[j] = g[y] => j = y
      BY <2>4
    <3>4. S \subseteq O /\ S = O \ {i}
      OBVIOUS
    <3>9. Rearranges(u, tb, S, g)
      BY <3>1, <3>2, <3>3, <3>4 DEF Rearranges
    <3> HIDE DEF g, S
    <3> QED
      BY <1>1, <3>9, <3>4, RearrangedElements
  <2>7. Linked(Occupied(u), Mains(u), Nexts(u))
    <3> DEFINE m == Mains(tb)
               nx == Nexts(tb)
               m2 == Mains(u)
               nx2 == Nexts(u)
    <3>1. \A j \in O : j # nb => m2[j] = m[j] /\ (j # i => nx2[j] = nx[j])
      BY <1>3, <1>4, <2>0, <2>3, <2>4, <2>5
    <3>2. Linked(O, m, nx) /\ nb \in O /\ m[nb] = i /\ i \in O /\ nx[i] = nb /\ nx2[i] = x /\ nx[nb] = nx0
      <4>1. i \in Occupied(u)
        BY <1>6, <2>4
      <4> QED
        BY <1>1, <1>3, <1>4, <2>0, <2>5, <4>1 DEF nb
    <3>3. Shortened(O, m, nx, nb, i, m2, nx2)
      BY <1>6, <3>1, <3>2 DEF Shortened, x
    <3> HIDE DEF m, nx, m2, nx2, O
    <3>4. Linked(O \ {nb}, m2, nx2)
      BY <3>2, <3>3, LinkedWithout
    <3> QED
      BY <2>4, <3>4 DEF m2, nx2
  <2>8. Chained(u)
    BY <2>3, <2>6, <2>7 DEF Chained
  <2>9. \A j \in Occupied(u) : j # i => SameAt(u, j, tb, j)
    BY <2>4, <2>5
  <2> HIDE DEF O
  <2> QED
    BY <2>0, <2>3, <2>4, <2>6, <2>8, <2>9 DEF Loses, u, O
<1> QED
  BY <1>5, <1>6

-----------------------------------------------------------------------------
(* Walks along a chain.                                                    *)

(* A walk that stays in D.                                                 *)
LEMMA WalkSteps ==
  ASSUME ChainedAssumption, NEW tb, Shaped(tb), NEW D, NEW b \in D, NEW goal,
         \A i \in D : WalkOn(tb, i, goal) \in D
  PROVE  /\ Walk(tb, b, goal)[0] = b
         /\ \A m \in 1 .. tb.n : Walk(tb, b, goal)[m] = WalkOn(tb, Walk(tb, b, goal)[m - 1], goal)
         /\ \A m \in 0 .. tb.n : Walk(tb, b, goal)[m] \in D
<1> DEFINE N == tb.n
           W == Walk(tb, b, goal)
           step == [m \in 1 .. N |-> [x \in D |-> WalkOn(tb, x, goal)]]
           Is(f) == f = [m \in 0 .. N |-> IF m = 0 THEN b ELSE WalkOn(tb, f[m - 1], goal)]
<1>0. N \in Nat
  BY ShapeFacts
<1>1. IsStep(step, D, N)
  BY DEF IsStep
<1>2. PICK f : Follows(f, b, step, D, N)
  <2> HIDE DEF step, Is, N
  <2> QED
    BY <1>0, <1>1, RecursionExists
<1>3. ASSUME NEW m \in 0 .. N PROVE f[m] = IF m = 0 THEN b ELSE WalkOn(tb, f[m - 1], goal)
  <2>1. CASE m = 0
    BY <1>2, <2>1 DEF Follows
  <2>2. CASE m # 0
    <3>1. m \in 1 .. N /\ m - 1 \in 0 .. N
      BY <1>0, <2>2
    <3>2. f[m - 1] \in D /\ f[m] = step[m][f[m - 1]]
      <4> HIDE DEF step
      <4> QED
        BY <1>2, <3>1 DEF Follows
    <3> QED
      BY <2>2, <3>1, <3>2
  <2> QED
    BY <2>1, <2>2
<1>4. Is(f)
  BY <1>2, <1>3 DEF Follows
<1>5. W = CHOOSE g : Is(g)
  BY DEF Walk
<1>6. Is(W)
  <2> HIDE DEF Is
  <2> QED
    BY <1>4, <1>5
<1>7. \A m \in 0 .. N : W[m] = IF m = 0 THEN b ELSE WalkOn(tb, W[m - 1], goal)
  BY <1>6
<1> HIDE DEF Is, W
<1>8. W[0] = b /\ \A m \in 1 .. N : W[m] = WalkOn(tb, W[m - 1], goal)
  BY <1>0, <1>7
<1>9. \A m \in 0 .. N : W[m] \in D
  <2> DEFINE S == {m \in 0 .. N : W[m] \in D}
  <2>1. 0 \in S
    BY <1>0, <1>8
  <2>2. ASSUME NEW m \in 1 .. N, m - 1 \in S PROVE m \in S
    BY <1>0, <1>8, <2>2
  <2> HIDE DEF S
  <2>3. \A m \in 0 .. N : m \in S
    BY <1>0, <2>1, <2>2, InductionUpTo
  <2> QED
    BY <2>3 DEF S
<1> QED
  BY <1>8, <1>9 DEF W

(* The walk in a chain comes to a bucket of the goal or to the tail, ...   *)
WalkStops(tb, b, goal) ==
  /\ WalkTo(tb, b, goal) \in Occupied(tb)
  /\ MainBucket(tb, WalkTo(tb, b, goal)) = MainBucket(tb, b)
  /\ WalkTo(tb, b, goal) \in goal \/ IsTail(tb, WalkTo(tb, b, goal))

(* ... and from its first bucket to one of the goal, if there is one.      *)
WalkMeets(tb, b, goal) ==
  WalkTo(tb, b, goal) \notin goal => \A i \in Sharing(tb, b) : i \notin goal

LEMMA WalkFacts ==
  ASSUME ChainedAssumption, NEW tb, Chained(tb), NEW b \in Occupied(tb), NEW goal
  PROVE  WalkStops(tb, b, goal) /\ (MainBucket(tb, b) = b => WalkMeets(tb, b, goal))
<1> DEFINE N == tb.n
           O == Occupied(tb)
           D == {i \in O : MainBucket(tb, i) = MainBucket(tb, b)}
           W == Walk(tb, b, goal)
           Stays(i) == i \in goal \/ IsTail(tb, i)
<1>1. Shaped(tb)
  BY DEF Chained
<1>2. N \in Nat /\ N >= 8 /\ O = {j \in 0 .. N - 1 : tb.slot[j] # Free}
  BY <1>1, ShapeFacts
<1>3. \A i \in O : ~ IsEmpty(tb, i)
  BY <1>2 DEF IsEmpty
<1>4. \A i \in O : WalkOn(tb, i, goal) = IF Stays(i) THEN i ELSE NextBucket(tb, i)
  BY <1>3 DEF WalkOn
<1>5. \A i \in D : WalkOn(tb, i, goal) \in D
  BY <1>4, ChainFacts
<1>6. /\ W[0] = b /\ \A m \in 1 .. N : W[m] = WalkOn(tb, W[m - 1], goal)
      /\ \A m \in 0 .. N : W[m] \in D
  <2> HIDE DEF D
  <2>1. b \in D
    BY DEF D
  <2> QED
    BY <1>1, <1>5, <2>1, WalkSteps
<1>7. WalkTo(tb, b, goal) = W[N]
  BY DEF WalkTo
<1>8. PICK r : Ranked(O, Mains(tb), Nexts(tb), r)
  BY DEF Chained, Linked
<1>9. \A i \in O : /\ r[i] \in Nat /\ Mains(tb)[i] = MainBucket(tb, i) /\ Nexts(tb)[i] = NextBucket(tb, i)
                   /\ ~ IsTail(tb, i) => r[NextBucket(tb, i)] > r[i] /\ NextBucket(tb, i) \in O
  BY <1>8 DEF Ranked, Mains, Nexts, IsTail
<1> HIDE DEF W, Stays
<1>10. \A m \in 1 .. N : /\ W[m - 1] \in O /\ W[m] \in O
                         /\ Stays(W[m - 1]) => W[m] = W[m - 1]
                         /\ ~ Stays(W[m - 1]) => W[m] = NextBucket(tb, W[m - 1]) /\ r[W[m]] > r[W[m - 1]]
  <2> SUFFICES ASSUME NEW m \in 1 .. N
               PROVE  /\ W[m - 1] \in O /\ W[m] \in O
                      /\ Stays(W[m - 1]) => W[m] = W[m - 1]
                      /\ ~ Stays(W[m - 1]) => W[m] = NextBucket(tb, W[m - 1]) /\ r[W[m]] > r[W[m - 1]]
    OBVIOUS
  <2>1. m - 1 \in 0 .. N /\ m \in 0 .. N
    BY <1>2
  <2>2. W[m - 1] \in O /\ W[m] \in O
    BY <1>6, <2>1
  <2>3. W[m] = IF Stays(W[m - 1]) THEN W[m - 1] ELSE NextBucket(tb, W[m - 1])
    BY <1>4, <1>6, <2>2
  <2>4. ~ Stays(W[m - 1]) => ~ IsTail(tb, W[m - 1])
    BY DEF Stays
  <2> QED
    BY <1>9, <2>2, <2>3, <2>4
<1>11. Stays(W[N])
  <2> SUFFICES ASSUME ~ Stays(W[N]) PROVE FALSE
    OBVIOUS
  <2> DEFINE S == {m \in 0 .. N : ~ Stays(W[N - m])}
             T == {m \in 0 .. N : \A l \in 0 .. N : l < m => r[W[l]] < r[W[m]]}
  <2>1. \A m \in 0 .. N : m \in S
    <3>1. 0 \in S
      BY <1>2
    <3>2. ASSUME NEW m \in 1 .. N, m - 1 \in S PROVE m \in S
      <4>1. N - m + 1 \in 1 .. N /\ (N - m + 1) - 1 = N - m /\ N - (m - 1) = N - m + 1
        BY <1>2
      <4>2. ~ Stays(W[N - m + 1])
        BY <3>2, <4>1
      <4>3. Stays(W[N - m]) => W[N - m + 1] = W[N - m]
        BY <1>10, <4>1
      <4> QED
        BY <4>2, <4>3
    <3> HIDE DEF S
    <3> QED
      BY <1>2, <3>1, <3>2, InductionUpTo
  <2>2. \A m \in 0 .. N : ~ Stays(W[m])
    <3> SUFFICES ASSUME NEW m \in 0 .. N PROVE ~ Stays(W[m])
      OBVIOUS
    <3>1. N - m \in 0 .. N /\ N - (N - m) = m
      BY <1>2
    <3> QED
      BY <2>1, <3>1
  <2>3. \A m \in 0 .. N : m \in T
    <3>1. 0 \in T
      BY <1>2
    <3>2. ASSUME NEW m \in 1 .. N, m - 1 \in T PROVE m \in T
      <4>1. m - 1 \in 0 .. N /\ m \in 0 .. N
        BY <1>2
      <4>2. r[W[m]] > r[W[m - 1]]
        BY <1>10, <2>2, <4>1
      <4>3. r[W[m]] \in Nat /\ r[W[m - 1]] \in Nat /\ \A l \in 0 .. N : r[W[l]] \in Nat
        BY <1>6, <1>9, <4>1
      <4>4. ASSUME NEW l \in 0 .. N, l < m PROVE r[W[l]] < r[W[m]]
        <5>1. l < m - 1 \/ l = m - 1
          BY <4>4
        <5>2. l < m - 1 => r[W[l]] < r[W[m - 1]]
          BY <3>2
        <5> QED
          BY <4>2, <4>3, <5>1, <5>2
      <4> QED
        BY <4>1, <4>4
    <3> HIDE DEF T
    <3> QED
      BY <1>2, <3>1, <3>2, InductionUpTo
  <2> DEFINE f == [m \in 0 .. N |-> W[m]]
  <2>4. f \in [0 .. N -> O]
    BY <1>6
  <2>5. IsFiniteSet(O) /\ Cardinality(O) <= N /\ Cardinality(O) \in Nat
    BY <1>1, OccupiedFinite
  <2>6. IsFiniteSet(0 .. N) /\ Cardinality(0 .. N) = N + 1
    <3>1. 0 \in Int /\ N \in Int /\ ~ (0 > N) /\ N - 0 + 1 = N + 1
      BY <1>2
    <3> HIDE DEF N
    <3> QED
      BY <3>1, FS_Interval
  <2>7. \E x, y \in 0 .. N : x # y /\ f[x] = f[y]
    <3>1. Cardinality(O) < Cardinality(0 .. N)
      BY <1>2, <2>5, <2>6
    <3> DEFINE Z == 0 .. N
    <3>2. IsFiniteSet(Z) /\ Cardinality(O) < Cardinality(Z) /\ f \in [Z -> O]
      BY <2>4, <2>6, <3>1
    <3> HIDE DEF f, Z, O
    <3>3. \E x, y \in Z : x # y /\ f[x] = f[y]
      BY <2>5, <3>2, FS_PigeonHole
    <3> QED
      BY <3>3 DEF Z
  <2>8. PICK x \in 0 .. N, y \in 0 .. N : x # y /\ W[x] = W[y]
    BY <2>7
  <2>9. r[W[x]] \in Nat
    BY <1>6, <1>9
  <2> QED
    BY <2>3, <2>8, <2>9
<1>12. WalkStops(tb, b, goal)
  <2>1. W[N] \in D
    BY <1>2, <1>6
  <2> QED
    BY <1>7, <1>11, <2>1 DEF WalkStops, Stays
<1>13. ASSUME MainBucket(tb, b) = b, W[N] \notin goal PROVE \A i \in Sharing(tb, b) : i \notin goal
  <2> DEFINE V == {W[m] : m \in 0 .. N}
             C == Sharing(tb, b)
             S == {n \in Nat : \E i \in C : i \notin V /\ r[i] = n}
  <2>1. \A i \in C : i \in O /\ MainBucket(tb, i) = b
    BY DEF Sharing
  <2>2. \A i \in C : i \in V
    <3> SUFFICES ASSUME NEW c \in C, c \notin V PROVE FALSE
      OBVIOUS
    <3>1. r[c] \in S
      BY <1>9, <2>1
    <3>2. PICK n \in S : \A d \in S : n <= d
      <4>1. S \in SUBSET Nat /\ S # {}
        BY <3>1
      <4> HIDE DEF S
      <4> QED
        BY <4>1, FirstOne
    <3>3. PICK i \in C : i \notin V /\ r[i] = n
      OBVIOUS
    <3>4. b \in V
      BY <1>2, <1>6
    <3>5. PICK j \in O : j # i /\ NextBucket(tb, j) = i /\ MainBucket(tb, j) = b
      BY <2>1, <3>3, <3>4, ChainFacts
    <3>6. ~ IsTail(tb, j) /\ r[j] < r[i] /\ r[j] \in Nat /\ r[i] \in Nat
      BY <1>9, <2>1, <3>5 DEF IsTail
    <3>7. j \in C
      BY <3>5 DEF Sharing
    <3>8. j \in V
      <4> SUFFICES ASSUME j \notin V PROVE FALSE
        OBVIOUS
      <4>1. r[j] \in S
        BY <3>6, <3>7
      <4> QED
        BY <3>2, <3>3, <3>6, <4>1
    <3>9. PICK m \in 0 .. N : j = W[m]
      BY <3>8
    <3>10. CASE m = N
      BY <1>11, <1>13, <3>6, <3>9, <3>10 DEF Stays
    <3>11. CASE m < N
      <4>1. m + 1 \in 1 .. N /\ (m + 1) - 1 = m /\ m + 1 \in 0 .. N
        BY <1>2, <3>11
      <4>2. CASE Stays(W[m])
        <5>1. W[m] \in goal
          BY <3>6, <3>9, <4>2 DEF Stays
        <5> DEFINE F == {l \in 0 .. N - m : W[m + l] = W[m]}
        <5>2. \A l \in 0 .. N - m : l \in F
          <6>1. 0 \in F
            BY <1>2
          <6>2. ASSUME NEW l \in 1 .. N - m, l - 1 \in F PROVE l \in F
            <7>1. m + l \in 1 .. N /\ (m + l) - 1 = m + (l - 1)
              BY <1>2
            <7> QED
              BY <1>10, <4>2, <6>2, <7>1
          <6> HIDE DEF F
          <6>3. N - m \in Nat
            BY <1>2
          <6> QED
            BY <6>1, <6>2, <6>3, InductionUpTo
        <5>3. N - m \in F /\ m + (N - m) = N
          BY <1>2, <5>2
        <5> QED
          BY <1>13, <5>1, <5>3
      <4>3. CASE ~ Stays(W[m])
        <5>1. W[m + 1] = NextBucket(tb, W[m])
          BY <1>10, <4>1, <4>3
        <5>2. i \in V
          BY <3>5, <3>9, <4>1, <5>1
        <5> QED
          BY <3>3, <5>2
      <4> QED
        BY <4>2, <4>3
    <3> QED
      BY <1>2, <3>10, <3>11
  <2>3. \A m \in 0 .. N : W[m] \notin goal
    <3> DEFINE F == {l \in 0 .. N : W[N - l] \notin goal}
    <3>1. 0 \in F
      BY <1>2, <1>13
    <3>2. ASSUME NEW l \in 1 .. N, l - 1 \in F PROVE l \in F
      <4>1. N - l + 1 \in 1 .. N /\ (N - l + 1) - 1 = N - l /\ N - (l - 1) = N - l + 1
        BY <1>2
      <4>2. W[N - l + 1] \notin goal
        BY <3>2, <4>1
      <4>3. W[N - l] \in goal => W[N - l + 1] = W[N - l]
        BY <1>10, <4>1 DEF Stays
      <4> QED
        BY <4>2, <4>3
    <3> HIDE DEF F
    <3>3. \A l \in 0 .. N : l \in F
      BY <1>2, <3>1, <3>2, InductionUpTo
    <3> SUFFICES ASSUME NEW m \in 0 .. N PROVE W[m] \notin goal
      OBVIOUS
    <3>4. N - m \in 0 .. N /\ N - (N - m) = m
      BY <1>2
    <3>5. N - m \in F
      BY <3>3, <3>4
    <3> QED
      BY <3>4, <3>5 DEF F
  <2> QED
    BY <2>2, <2>3
<1>14. MainBucket(tb, b) = b => WalkMeets(tb, b, goal)
  BY <1>7, <1>13 DEF WalkMeets
<1> QED
  BY <1>12, <1>14

LEMMA WalkFromEmpty ==
  ASSUME ChainedAssumption, NEW tb, Shaped(tb), NEW b, IsEmpty(tb, b), NEW goal
  PROVE  WalkTo(tb, b, goal) = b
<1> DEFINE D == {b}
<1>1. \A i \in D : WalkOn(tb, i, goal) \in D
  BY DEF WalkOn
<1>2. b \in D
  OBVIOUS
<1> HIDE DEF D
<1>3. \A m \in 0 .. tb.n : Walk(tb, b, goal)[m] \in D
  BY <1>1, <1>2, WalkSteps
<1>4. tb.n \in 0 .. tb.n
  BY ShapeFacts
<1> QED
  BY <1>3, <1>4 DEF D, WalkTo

(* bucket() finds the element with a key, if there is one.                 *)
LEMMA BucketFacts ==
  ASSUME ChainedAssumption, NEW tb, Chained(tb), NEW k \in Keys
  PROVE  \/ Bucket(tb, k) \in Occupied(tb) /\ tb.slot[Bucket(tb, k)].k = k
         \/ Bucket(tb, k) = tb.n /\ ~ HasKey(tb, k)
<1> DEFINE b0 == KeyToBucket(tb, k)
           holding == {i \in Occupied(tb) : tb.slot[i].k = k}
           at == WalkTo(tb, b0, holding)
<1>1. Shaped(tb)
  BY DEF Chained
<1>2. Bucket(tb, k) = IF at \in holding THEN at ELSE tb.n
  BY DEF Bucket
<1>3. b0 \in 0 .. tb.n - 1 /\ Occupied(tb) = {i \in 0 .. tb.n - 1 : tb.slot[i] # Free}
  BY <1>1, ShapeFacts
<1>4. \A i \in holding : i \in Occupied(tb) /\ MainBucket(tb, i) = b0 /\ b0 \in Occupied(tb) /\ MainBucket(tb, b0) = b0
  <2>1. \A i \in holding : i \in Occupied(tb) /\ MainBucket(tb, i) = b0
    BY DEF MainBucket
  <2> QED
    BY <2>1, ChainFacts
<1>5. HasKey(tb, k) => at \in holding
  <2> SUFFICES ASSUME NEW i \in holding PROVE at \in holding
    BY DEF HasKey
  <2>1. b0 \in Occupied(tb) /\ MainBucket(tb, b0) = b0 /\ i \in Sharing(tb, b0)
    BY <1>4 DEF Sharing
  <2> HIDE DEF holding, b0
  <2>2. WalkMeets(tb, b0, holding)
    BY <2>1, WalkFacts
  <2> QED
    BY <2>1, <2>2 DEF WalkMeets
<1> QED
  BY <1>2, <1>5

(* find_prev_bucket finds the element that points to another one.          *)
Precedes(tb, p, i) == p \in Occupied(tb) /\ p # i /\ NextBucket(tb, p) = i

LEMMA FindPrevFacts ==
  ASSUME ChainedAssumption, NEW tb, Chained(tb), NEW i \in Occupied(tb)
  PROVE  IF MainBucket(tb, i) = i THEN FindPrevBucket(tb, MainBucket(tb, i), i) = Free
         ELSE FindPrevBucket(tb, MainBucket(tb, i), i) # Free /\ Precedes(tb, FindPrevBucket(tb, MainBucket(tb, i), i), i)
<1> DEFINE b == MainBucket(tb, i)
           before == {j \in Occupied(tb) : j # i /\ NextBucket(tb, j) = i}
           at == WalkTo(tb, b, before)
<1>0. Shaped(tb)
  BY DEF Chained
<1>1. FindPrevBucket(tb, b, i) = IF i # b /\ at \in before THEN at ELSE Free
  BY DEF FindPrevBucket
<1>2. b \in Occupied(tb) /\ MainBucket(tb, b) = b
  BY ChainFacts
<1>3. ASSUME b # i PROVE at \in before
  <2>1. PICK j \in Occupied(tb) : j # i /\ NextBucket(tb, j) = i /\ MainBucket(tb, j) = b
    BY <1>3, ChainFacts
  <2>2. j \in before /\ j \in Sharing(tb, b)
    BY <2>1 DEF Sharing
  <2> HIDE DEF before, b
  <2>3. WalkMeets(tb, b, before)
    BY <1>2, WalkFacts
  <2> QED
    BY <2>2, <2>3 DEF WalkMeets
<1>4. \A x \in before : Precedes(tb, x, i) /\ x # Free
  <2>1. \A x \in Occupied(tb) : x \in 0 .. tb.n - 1 /\ tb.n \in Nat /\ Free \notin Nat
    BY <1>0, ShapeFacts
  <2>2. \A x \in Occupied(tb) : x # Free
    BY <2>1
  <2> QED
    BY <2>2 DEF Precedes
<1> QED
  BY <1>1, <1>3, <1>4

(* The tail of a chain.                                                    *)
LEMMA TailFacts ==
  ASSUME ChainedAssumption, NEW tb, Chained(tb), NEW b \in Occupied(tb)
  PROVE  /\ TailOf(tb, b) \in Occupied(tb) /\ IsTail(tb, TailOf(tb, b))
         /\ MainBucket(tb, TailOf(tb, b)) = MainBucket(tb, b)
<1>1. WalkStops(tb, b, {})
  BY WalkFacts
<1> QED
  BY <1>1 DEF WalkStops, TailOf

(* What lookups and removals rely on.                                      *)
LEMMA SoundWellFormed ==
  ASSUME ChainedAssumption, NEW tb, Sound(tb)
  PROVE  WellFormed(tb)
<1>1. Chained(tb) /\ tb.filled = Cardinality(Occupied(tb)) /\ KeyedOnce(tb)
  BY DEF Sound, Chained
<1>2. ASSUME NEW i \in Occupied(tb)
      PROVE  /\ {MainBucket(tb, i), NextBucket(tb, i)} \subseteq Sharing(tb, MainBucket(tb, i))
             /\ WalkTo(tb, MainBucket(tb, i), {i}) = i
             /\ IsTail(tb, TailOf(tb, i))
  <2> DEFINE b == MainBucket(tb, i)
             G == {i}
  <2>1. b \in Occupied(tb) /\ MainBucket(tb, b) = b /\ {b, NextBucket(tb, i), i} \subseteq Sharing(tb, b)
    BY <1>1, ChainFacts DEF Sharing
  <2>2. IsTail(tb, TailOf(tb, i))
    BY <1>1, TailFacts
  <2> HIDE DEF b, G
  <2>3. WalkMeets(tb, b, G)
    BY <1>1, <2>1, WalkFacts
  <2>4. WalkTo(tb, b, G) \in G
    BY <2>1, <2>3 DEF WalkMeets, G
  <2> QED
    BY <2>1, <2>2, <2>4 DEF b, G
<1> QED
  BY <1>1, <1>2 DEF WellFormed, KeyedOnce

LEMMA NoTableFacts ==
  Occupied(NoTable) = {} /\ NoTable.n = 0 /\ NoTable.filled = 0 /\ WellFormed(NoTable) /\ Held(NoTable) = {}
<1>1. NoTable.n = 0 /\ NoTable.filled = 0 /\ NoTable.slot = [i \in 0 .. 0 - 1 |-> Free]
  BY DEF NoTable, EmptyTable
<1>2. DOMAIN NoTable.slot = {}
  BY <1>1
<1>3. Occupied(NoTable) = {}
  BY <1>2 DEF Occupied
<1>4. Cardinality({}) = 0
  BY FS_EmptySet
<1> QED
  BY <1>1, <1>3, <1>4 DEF WellFormed, Held

-----------------------------------------------------------------------------
(* Removals.                                                               *)

(* A table with the buckets of another one.                                *)
LEMMA AlikeFacts ==
  ASSUME ChainedAssumption, NEW tb, Chained(tb), NEW u, Shaped(u), u.n = tb.n, u.slot = tb.slot
  PROVE  Chained(u) /\ Occupied(u) = Occupied(tb) /\ Held(u) = Held(tb) /\ \A j : SameAt(u, j, tb, j)
<1>1. Occupied(u) = Occupied(tb) /\ Held(u) = Held(tb) /\ \A j : SameAt(u, j, tb, j)
  BY DEF Occupied, IsEmpty, Held, Elem, SameAt
<1>2. KeyedOnce(u)
  BY <1>1 DEF KeyedOnce, Chained
<1>3. Mains(u) = Mains(tb) /\ Nexts(u) = Nexts(tb)
  BY <1>1 DEF Mains, Nexts, MainBucket, NextBucket, KeyToBucket
<1>4. Linked(Occupied(u), Mains(u), Nexts(u))
  BY <1>1, <1>3 DEF Chained
<1> QED
  BY <1>1, <1>2, <1>4 DEF Chained

(* u is tb without the element of bucket i.                                *)
Drops(u, tb, i) ==
  /\ Sound(u) /\ u.n = tb.n /\ u.filled = tb.filled - 1 /\ tb.filled > 0
  /\ Occupied(u) \subseteq Occupied(tb)
  /\ \A j \in Occupied(u) : j # i => SameAt(u, j, tb, j)
  /\ Held(u) = Held(tb) \ {Elem(tb, i)}

LEMMA DropFacts ==
  ASSUME ChainedAssumption, NEW tb, Sound(tb), NEW i \in Occupied(tb), NEW w, Loses(w, tb, i)
  PROVE  Drops([w EXCEPT !.filled = @ - 1], tb, i)
<1> DEFINE c == w.filled - 1
           u == [w EXCEPT !.filled = c]
           O == Occupied(tb)
<1>1. /\ Chained(w) /\ Shaped(w) /\ w.n = tb.n /\ w.filled = tb.filled /\ Held(w) = Held(tb) \ {Elem(tb, i)}
      /\ \A j \in Occupied(w) : j # i => SameAt(w, j, tb, j)
  BY DEF Loses, Chained
<1>2. PICK j \in O : Occupied(w) = O \ {j}
  BY DEF Loses
<1>3. IsFiniteSet(O) /\ tb.filled = Cardinality(O)
  <2>1. Shaped(tb)
    BY DEF Sound, Chained
  <2> QED
    BY <2>1, OccupiedFinite DEF Sound
<1>4. IsFiniteSet(O \ {j}) /\ Cardinality(O \ {j}) = Cardinality(O) - 1
  BY <1>3, FS_RemoveElement
<1>5. Cardinality(O) \in Nat /\ Cardinality(O \ {j}) \in Nat
  BY <1>3, <1>4, FS_CardinalityType
<1>6. c \in Nat /\ c = Cardinality(Occupied(w)) /\ tb.filled > 0 /\ c = tb.filled - 1
  BY <1>1, <1>2, <1>3, <1>4, <1>5
<1> HIDE DEF c
<1>7. Alters(u, w, c, w.last) /\ u.slot = w.slot
  BY <1>1, <1>6, CountFacts
<1> HIDE DEF u
<1>8. Shaped(u) /\ u.n = w.n /\ u.filled = c
  BY <1>7 DEF Alters
<1>9. Chained(u) /\ Occupied(u) = Occupied(w) /\ Held(u) = Held(w) /\ \A x : SameAt(u, x, w, x)
  BY <1>1, <1>7, <1>8, AlikeFacts
<1>10. \A x \in Occupied(u) : x # i => SameAt(u, x, tb, x)
  BY <1>1, <1>9 DEF SameAt
<1>11. Sound(u)
  BY <1>6, <1>8, <1>9 DEF Sound
<1>12. Drops(u, tb, i)
  BY <1>1, <1>2, <1>6, <1>8, <1>9, <1>10, <1>11 DEF Drops
<1> QED
  BY <1>12 DEF u, c

(* find_next_bucket comes to the next element, or to the end.              *)
Comes(tb, i, r) ==
  /\ r \in i + 1 .. tb.n /\ (r # tb.n => r \in Occupied(tb))
  /\ \A j \in Occupied(tb) : j > i => j >= r

LEMMA NextFacts ==
  ASSUME ChainedAssumption, NEW tb, Shaped(tb), NEW i \in -1 .. tb.n - 1
  PROVE  Comes(tb, i, FindNextBucket(tb, i))
<1> DEFINE S == {j \in i + 1 .. tb.n : j = tb.n \/ ~ IsEmpty(tb, j)}
           r == FirstOf(S)
<1>1. tb.n \in Nat /\ Occupied(tb) = {j \in 0 .. tb.n - 1 : tb.slot[j] # Free}
  BY ShapeFacts
<1>2. S \in SUBSET Nat /\ tb.n \in S
  BY <1>1
<1>3. \A j \in Occupied(tb) : j > i => j \in S
  BY <1>1 DEF IsEmpty
<1>4. r \in S /\ \A d \in S : r <= d
  <2> HIDE DEF S
  <2> QED
    BY <1>2, FirstOne
<1>5. FindNextBucket(tb, i) = r
  BY DEF FindNextBucket
<1> HIDE DEF r
<1>6. r \in i + 1 .. tb.n /\ (r # tb.n => r \in Occupied(tb))
  BY <1>1, <1>4 DEF IsEmpty
<1>7. \A j \in Occupied(tb) : j > i => j >= r
  BY <1>1, <1>3, <1>4
<1> QED
  BY <1>5, <1>6, <1>7 DEF Comes

(* erase() and extract(): the element with the key goes, if there is one.  *)
LEMMA ErasedFacts ==
  ASSUME ChainedAssumption, NEW tb, Sound(tb), NEW k \in Keys
  PROVE  \/ Erased(tb, k) = tb /\ ~ HasKey(tb, k)
         \/ \E i \in Occupied(tb) : tb.slot[i].k = k /\ Drops(Erased(tb, k), tb, i)
<1> DEFINE at == Bucket(tb, k)
           b0 == KeyToBucket(tb, k)
           p == FindPrevBucket(tb, b0, at)
           w == IF at = b0 THEN EraseHead(tb, b0) ELSE Unlink(tb, at, p)
<1>1. Chained(tb) /\ Shaped(tb) /\ tb.n # 0
  <2>1. Chained(tb) /\ Shaped(tb)
    BY DEF Sound, Chained
  <2> QED
    BY <2>1, ShapeFacts
<1>2. Erased(tb, k) = IF at = tb.n THEN tb ELSE [w EXCEPT !.filled = @ - 1]
  BY <1>1 DEF Erased
<1>3. \/ at \in Occupied(tb) /\ tb.slot[at].k = k
      \/ at = tb.n /\ ~ HasKey(tb, k)
  BY <1>1, BucketFacts
<1>4. CASE at \in Occupied(tb) /\ tb.slot[at].k = k
  <2>1. b0 = MainBucket(tb, at) /\ at # tb.n
    <3>1. at \in 0 .. tb.n - 1 /\ tb.n \in Nat
      BY <1>1, <1>4, ShapeFacts
    <3> QED
      BY <1>4, <3>1 DEF MainBucket
  <2> HIDE DEF at, b0
  <2>2. CASE at = b0
    <3>1. Loses(EraseHead(tb, at), tb, at)
      BY <1>1, <1>4, <2>1, <2>2, EraseHeadFacts
    <3>2. Loses(w, tb, at)
      BY <2>2, <3>1
    <3> QED
      BY <1>2, <1>4, <2>1, <3>2, DropFacts
  <2>3. CASE at # b0
    <3>1. Precedes(tb, p, at)
      BY <1>1, <1>4, <2>1, <2>3, FindPrevFacts
    <3> HIDE DEF p
    <3>2. Loses(Unlink(tb, at, p), tb, at)
      BY <1>1, <1>4, <2>1, <2>3, <3>1, UnlinkedFacts DEF Precedes
    <3>3. Loses(w, tb, at)
      BY <2>3, <3>2
    <3> QED
      BY <1>2, <1>4, <2>1, <3>3, DropFacts
  <2> QED
    BY <2>2, <2>3
<1> QED
  BY <1>2, <1>3, <1>4

(* erase(iterator): the element goes, and every one behind it is at the    *)
(* bucket of the iterator that is returned or behind that.                 *)
LEMMA ErasedAtFacts ==
  ASSUME ChainedAssumption, NEW tb, Sound(tb), NEW i \in Occupied(tb)
  PROVE  /\ Drops(ErasedAt(tb, i).tb, tb, i)
         /\ ErasedAt(tb, i).at \in i .. tb.n
         /\ ErasedAt(tb, i).at # tb.n => ErasedAt(tb, i).at \in Occupied(ErasedAt(tb, i).tb)
         /\ \A j \in Occupied(ErasedAt(tb, i).tb) : j >= i => j >= ErasedAt(tb, i).at
<1> DEFINE p == FindPrevBucket(tb, MainBucket(tb, i), i)
           w == UnlinkOrClear(tb, i, p)
           u == [w EXCEPT !.filled = @ - 1]
<1>1. Chained(tb) /\ Shaped(tb)
  BY DEF Sound, Chained
<1>2. i \in 0 .. tb.n - 1 /\ tb.n \in Nat /\ ~ IsEmpty(tb, i)
  BY <1>1, ShapeFacts DEF IsEmpty
<1>3. ErasedAt(tb, i) = FromHereOn(u, i)
  BY <1>2 DEF ErasedAt
<1>4. Loses(w, tb, i)
  <2>1. CASE i = MainBucket(tb, i)
    <3>1. Loses(EraseHead(tb, i), tb, i)
      BY <1>1, <2>1, EraseHeadFacts
    <3> QED
      BY <2>1, <3>1 DEF UnlinkOrClear
  <2>2. CASE i # MainBucket(tb, i)
    <3>1. Precedes(tb, p, i) /\ p # Free
      BY <1>1, <2>2, FindPrevFacts
    <3> HIDE DEF p
    <3>2. Loses(Unlink(tb, i, p), tb, i)
      BY <1>1, <2>2, <3>1, UnlinkedFacts DEF Precedes
    <3> QED
      BY <2>2, <3>1, <3>2 DEF UnlinkOrClear
  <2> QED
    BY <2>1, <2>2
<1> HIDE DEF w
<1>5. Drops(u, tb, i)
  BY <1>4, DropFacts
<1> HIDE DEF u
<1>6. Shaped(u) /\ u.n = tb.n
  BY <1>5 DEF Drops, Sound, Chained
<1>7. Occupied(u) = {j \in 0 .. tb.n - 1 : u.slot[j] # Free}
  BY <1>6, ShapeFacts
<1>8. CASE IsEmpty(u, i)
  <2> DEFINE r == FindNextBucket(u, i)
  <2>1. FromHereOn(u, i).tb = u /\ FromHereOn(u, i).at = r
    BY <1>8 DEF FromHereOn
  <2>2. Comes(u, i, r)
    BY <1>2, <1>6, NextFacts
  <2> HIDE DEF r
  <2>3. r \in i + 1 .. tb.n /\ (r # tb.n => r \in Occupied(u)) /\ \A j \in Occupied(u) : j > i => j >= r
    BY <1>6, <2>2 DEF Comes
  <2>4. i \notin Occupied(u)
    BY <1>7, <1>8 DEF IsEmpty
  <2>5. \A j \in Occupied(u) : j >= i => j >= r
    <3> SUFFICES ASSUME NEW j \in Occupied(u), j >= i PROVE j >= r
      OBVIOUS
    <3>1. j \in 0 .. tb.n - 1 /\ j # i
      BY <1>7, <2>4
    <3>2. j > i
      BY <1>2, <3>1
    <3> QED
      BY <2>3, <3>2
  <2>6. r \in i .. tb.n
    BY <1>2, <2>3
  <2> QED
    BY <1>3, <1>5, <2>1, <2>3, <2>5, <2>6
<1>9. CASE ~ IsEmpty(u, i)
  <2>1. FromHereOn(u, i).tb = u /\ FromHereOn(u, i).at = i
    BY <1>9 DEF FromHereOn
  <2>2. i \in Occupied(u) /\ i \in i .. tb.n
    BY <1>2, <1>7, <1>9 DEF IsEmpty
  <2> QED
    BY <1>3, <1>5, <2>1, <2>2
<1> QED
  BY <1>8, <1>9

LEMMA ErasedAtPair ==
  ASSUME NEW tb, NEW i
  PROVE  ErasedAt(tb, i) = [tb |-> ErasedAt(tb, i).tb, at |-> ErasedAt(tb, i).at]
<1>1. \A u : FromHereOn(u, i) = [tb |-> FromHereOn(u, i).tb, at |-> FromHereOn(u, i).at]
  BY DEF FromHereOn
<1>2. CASE i >= tb.n
  BY <1>2 DEF ErasedAt
<1>3. CASE ~ (i >= tb.n) /\ IsEmpty(tb, i)
  BY <1>1, <1>3 DEF ErasedAt
<1>4. CASE ~ (i >= tb.n) /\ ~ IsEmpty(tb, i)
  BY <1>1, <1>4 DEF ErasedAt
<1> QED
  BY <1>2, <1>3, <1>4

(* erase(first, end()): what is left after a number of rounds.             *)
LeftAfter(x, tb, r) ==
  /\ x \in [tb : ChShape(tb.n), at : 0 .. tb.n]
  /\ Sound(x.tb) /\ x.tb.n = tb.n
  /\ x.at # tb.n => x.at \in Occupied(x.tb) /\ x.tb.filled = tb.filled - r
  /\ \A j \in Occupied(x.tb) : j >= x.at

LEMMA EraseRoundFacts ==
  ASSUME ChainedAssumption, NEW tb, Sound(tb), NEW r \in 1 .. tb.filled, NEW x, LeftAfter(x, tb, r - 1)
  PROVE  LeftAfter(ErasedAt(x.tb, x.at), tb, r)
<1> DEFINE y == ErasedAt(x.tb, x.at)
<1>0. tb.n \in Nat /\ tb.filled \in Nat
  <2>1. Shaped(tb)
    BY DEF Sound, Chained
  <2> QED
    BY <2>1, ShapeFacts
<1>1. /\ Sound(x.tb) /\ x.tb.n = tb.n /\ x.at \in 0 .. tb.n /\ x.tb \in ChShape(tb.n)
      /\ x.at # tb.n => x.at \in Occupied(x.tb) /\ x.tb.filled = tb.filled - (r - 1)
      /\ \A j \in Occupied(x.tb) : j >= x.at
  BY DEF LeftAfter
<1>2. y = [tb |-> y.tb, at |-> y.at]
  BY ErasedAtPair
<1>3. CASE x.at = tb.n
  <2>1. y.tb = x.tb /\ y.at = x.at
    BY <1>0, <1>1, <1>3 DEF ErasedAt
  <2> HIDE DEF y
  <2>2. y \in [tb : ChShape(tb.n), at : 0 .. tb.n]
    BY <1>1, <1>2, <2>1
  <2>3. LeftAfter(y, tb, r)
    BY <1>1, <1>3, <2>1, <2>2 DEF LeftAfter
  <2> QED
    BY <2>3 DEF y
<1>4. CASE x.at # tb.n
  <2>1. x.at \in Occupied(x.tb) /\ x.tb.filled = tb.filled - (r - 1)
    BY <1>1, <1>4
  <2>2. /\ Drops(y.tb, x.tb, x.at) /\ y.at \in x.at .. x.tb.n
        /\ y.at # x.tb.n => y.at \in Occupied(y.tb)
        /\ \A j \in Occupied(y.tb) : j >= x.at => j >= y.at
    BY <1>1, <2>1, ErasedAtFacts
  <2> HIDE DEF y
  <2>3. /\ Sound(y.tb) /\ y.tb.n = tb.n /\ y.tb.filled = tb.filled - r /\ Occupied(y.tb) \subseteq Occupied(x.tb)
        /\ y.tb \in ChShape(tb.n)
    <3>1. /\ Sound(y.tb) /\ y.tb.n = tb.n /\ y.tb.filled = x.tb.filled - 1
          /\ Occupied(y.tb) \subseteq Occupied(x.tb)
      BY <1>1, <2>2 DEF Drops
    <3>2. y.tb.filled = tb.filled - r
      BY <1>0, <2>1, <3>1
    <3>3. y.tb \in ChShape(tb.n)
      BY <3>1 DEF Sound, Chained, Shaped
    <3> QED
      BY <3>1, <3>2, <3>3
  <2>4. y.at \in 0 .. tb.n
    BY <1>0, <1>1, <2>2
  <2>5. y \in [tb : ChShape(tb.n), at : 0 .. tb.n]
    BY <1>2, <2>3, <2>4
  <2>6. LeftAfter(y, tb, r)
    BY <1>1, <2>2, <2>3, <2>5 DEF LeftAfter
  <2> QED
    BY <2>6 DEF y
<1> QED
  BY <1>3, <1>4

(* A walk through sets that each step leads on from.                       *)
LEMMA StaysIn ==
  ASSUME NEW N \in Nat, NEW Inv, NEW m, m[0] \in Inv[0], \A i \in 1 .. N : m[i - 1] \in Inv[i - 1] => m[i] \in Inv[i]
  PROVE  \A i \in 0 .. N : m[i] \in Inv[i]
<1> DEFINE S == {i \in 0 .. N : m[i] \in Inv[i]}
<1>1. 0 \in S
  OBVIOUS
<1>2. ASSUME NEW i \in 1 .. N, i - 1 \in S PROVE i \in S
  BY <1>2
<1> HIDE DEF S
<1>3. \A i \in 0 .. N : i \in S
  BY <1>1, <1>2, InductionUpTo
<1> QED
  BY <1>3 DEF S

LEMMA EraseRoundsFacts ==
  ASSUME ChainedAssumption, NEW tb, Sound(tb), NEW i0, LeftAfter([tb |-> tb, at |-> i0], tb, 0)
  PROVE  \A r \in 0 .. tb.filled : LeftAfter(EraseRounds(tb, i0)[r], tb, r)
<1> DEFINE N == tb.filled
           R == [tb : ChShape(tb.n), at : 0 .. tb.n]
           Inv == [r \in 0 .. N |-> {x \in R : LeftAfter(x, tb, r)}]
           step == [r \in 1 .. N |-> [x \in R |-> ErasedAt(x.tb, x.at)]]
           f0 == [tb |-> tb, at |-> i0]
           Is(f) == f = [r \in 0 .. N |-> IF r = 0 THEN f0 ELSE ErasedAt(f[r - 1].tb, f[r - 1].at)]
           m == EraseRounds(tb, i0)
<1>1. N \in Nat
  <2>1. Shaped(tb)
    BY DEF Sound, Chained
  <2> QED
    BY <2>1, ShapeFacts
<1>2. \A x, r : LeftAfter(x, tb, r) => x \in R
  BY DEF LeftAfter
<1>3. m = CHOOSE g : Is(g)
  BY DEF EraseRounds
<1> HIDE DEF R, f0, m
<1>5. Leads(step, Inv, N)
  <2> SUFFICES ASSUME NEW r \in 1 .. N, NEW x \in Inv[r - 1] PROVE step[r][x] \in Inv[r]
    BY DEF Leads
  <2>1. r - 1 \in 0 .. N /\ r \in 0 .. N
    BY <1>1
  <2>2. LeftAfter(x, tb, r - 1) /\ x \in R
    BY <2>1
  <2>4. LeftAfter(ErasedAt(x.tb, x.at), tb, r)
    BY <2>2, EraseRoundFacts
  <2> QED
    BY <1>2, <2>1, <2>2, <2>4
<1>6. f0 \in Inv[0]
  BY <1>1, <1>2 DEF f0
<1>7. PICK f : Walks(f, f0, step, Inv, N)
  <2> HIDE DEF Inv, step, N
  <2> QED
    BY <1>1, <1>5, <1>6, WalkExists
<1>8. Is(f)
  <2>1. ASSUME NEW r \in 0 .. N PROVE f[r] = IF r = 0 THEN f0 ELSE ErasedAt(f[r - 1].tb, f[r - 1].at)
    <3>1. CASE r = 0
      BY <1>7, <3>1 DEF Walks
    <3>2. CASE r # 0
      <4>1. r \in 1 .. N /\ r - 1 \in 0 .. N
        BY <1>1, <3>2
      <4>2. f[r] = step[r][f[r - 1]] /\ f[r - 1] \in Inv[r - 1]
        BY <1>7, <4>1 DEF Walks
      <4>3. f[r - 1] \in R
        BY <4>1, <4>2
      <4> QED
        BY <3>2, <4>1, <4>2, <4>3
    <3> QED
      BY <3>1, <3>2
  <2> QED
    BY <1>7, <2>1 DEF Walks
<1>10. Is(m)
  <2> HIDE DEF Is
  <2> QED
    BY <1>3, <1>8
<1>11. m[0] = f0 /\ \A r \in 1 .. N : m[r] = ErasedAt(m[r - 1].tb, m[r - 1].at)
  BY <1>1, <1>10
<1> HIDE DEF Is
<1>12. \A r \in 0 .. N : m[r] \in Inv[r]
  <2>1. m[0] \in Inv[0]
    BY <1>6, <1>11
  <2>2. \A r \in 1 .. N : m[r - 1] \in Inv[r - 1] => m[r] \in Inv[r]
    <3> SUFFICES ASSUME NEW r \in 1 .. N, m[r - 1] \in Inv[r - 1] PROVE m[r] \in Inv[r]
      OBVIOUS
    <3>1. r - 1 \in 0 .. N /\ r \in 0 .. N
      BY <1>1
    <3>2. LeftAfter(m[r - 1], tb, r - 1)
      BY <3>1
    <3>3. LeftAfter(m[r], tb, r)
      BY <1>11, <3>2, EraseRoundFacts
    <3> QED
      BY <1>2, <3>1, <3>3
  <2> HIDE DEF Inv
  <2> QED
    BY <1>1, <2>1, <2>2, StaysIn
<1> QED
  BY <1>12 DEF m

(* It leaves nothing when it begins with the first element.                *)
LEMMA ErasedFromFacts ==
  ASSUME ChainedAssumption, NEW tb, Sound(tb)
  PROVE  Sound(ErasedFrom(tb, FindFirstBucket(tb))) /\ Held(ErasedFrom(tb, FindFirstBucket(tb))) = {}
<1> DEFINE i0 == FindFirstBucket(tb)
           f0 == [tb |-> tb, at |-> i0]
           x == EraseRounds(tb, i0)[tb.filled]
<1>1. Shaped(tb)
  BY DEF Sound, Chained
<1>2. tb.n \in Nat /\ tb.filled \in Nat /\ \A j \in Occupied(tb) : j \in 0 .. tb.n - 1
  BY <1>1, ShapeFacts
<1>3. Comes(tb, -1, i0)
  <2>1. -1 \in -1 .. tb.n - 1
    BY <1>2
  <2> QED
    BY <1>1, <2>1, NextFacts DEF FindFirstBucket
<1> HIDE DEF i0
<1>4. i0 \in 0 .. tb.n /\ (i0 # tb.n => i0 \in Occupied(tb)) /\ \A j \in Occupied(tb) : j >= i0
  BY <1>2, <1>3 DEF Comes
<1>5. f0.tb = tb /\ f0.at = i0 /\ f0 \in [tb : ChShape(tb.n), at : 0 .. tb.n]
  BY <1>1, <1>4 DEF Shaped
<1> HIDE DEF f0
<1>6. LeftAfter(f0, tb, 0)
  BY <1>2, <1>4, <1>5 DEF LeftAfter
<1>7. LeftAfter(x, tb, tb.filled)
  BY <1>2, <1>6, EraseRoundsFacts DEF f0
<1>8. x.tb = ErasedFrom(tb, i0)
  BY DEF ErasedFrom
<1> HIDE DEF x
<1>9. Sound(x.tb) /\ Shaped(x.tb) /\ x.tb.n = tb.n
  BY <1>7 DEF LeftAfter, Sound, Chained
<1>10. Occupied(x.tb) = {}
  <2>1. CASE x.at = tb.n
    <3>1. \A j \in Occupied(x.tb) : j >= tb.n /\ j \in 0 .. tb.n - 1
      BY <1>7, <1>9, <2>1, ShapeFacts DEF LeftAfter
    <3> QED
      BY <1>2, <3>1
  <2>2. CASE x.at # tb.n
    <3>1. x.tb.filled = 0
      BY <1>2, <1>7, <2>2 DEF LeftAfter
    <3>2. IsFiniteSet(Occupied(x.tb)) /\ Cardinality(Occupied(x.tb)) = 0
      BY <1>9, <3>1, OccupiedFinite DEF Sound
    <3> QED
      BY <3>2, FS_EmptySet
  <2> QED
    BY <2>1, <2>2
<1> QED
  BY <1>8, <1>9, <1>10 DEF Held, i0

-----------------------------------------------------------------------------
(* Free buckets.                                                           *)

Candidates(c) == DOMAIN c \subseteq Nat /\ \A j \in DOMAIN c : c[j] \in Int

Vacant(tb, x, barred) == x \in 0 .. tb.n - 1 /\ IsEmpty(tb, x) /\ x \notin barred

LEMMA FirstEmptyFacts ==
  ASSUME ChainedAssumption, NEW tb, Shaped(tb), NEW c, Candidates(c), NEW barred
  PROVE  /\ FirstEmpty(tb, c, barred) # Free => Vacant(tb, FirstEmpty(tb, c, barred), barred)
         /\ FirstEmpty(tb, c, barred) = Free => \A j \in DOMAIN c : ~ Vacant(tb, c[j] % tb.n, barred)
<1> DEFINE good == {j \in DOMAIN c : IsEmpty(tb, c[j] % tb.n) /\ c[j] % tb.n \notin barred}
           x == c[FirstOf(good)] % tb.n
<1>1. tb.n \in Nat /\ tb.n >= 8 /\ Free \notin Nat
  BY ShapeFacts
<1>2. \A j \in DOMAIN c : c[j] % tb.n \in 0 .. tb.n - 1
  BY <1>1 DEF Candidates
<1>3. FirstEmpty(tb, c, barred) = IF good = {} THEN Free ELSE x
  BY DEF FirstEmpty
<1>4. CASE good = {}
  BY <1>3, <1>4 DEF Vacant
<1>5. CASE good # {}
  <2>1. good \in SUBSET Nat
    BY DEF Candidates
  <2> DEFINE j == FirstOf(good)
  <2>2. j \in good
    <3> HIDE DEF good
    <3> QED
      BY <1>5, <2>1, FirstOne
  <2> HIDE DEF j
  <2>3. c[j] % tb.n \in 0 .. tb.n - 1 /\ IsEmpty(tb, c[j] % tb.n) /\ c[j] % tb.n \notin barred
    BY <1>2, <2>2
  <2>4. x = c[j] % tb.n
    BY DEF j
  <2> QED
    BY <1>1, <1>3, <1>5, <2>3, <2>4 DEF Vacant
<1> QED
  BY <1>4, <1>5

LEMMA NearFacts ==
  ASSUME NEW from \in Nat, NEW s \in Nat
  PROVE  Candidates(NearCandidates(from, s))
<1>1. NearCandidates(from, s) \in Seq(Nat)
  BY DEF NearCandidates
<1> HIDE DEF NearCandidates
<1>2. DOMAIN NearCandidates(from, s) = 1 .. Len(NearCandidates(from, s)) /\ Len(NearCandidates(from, s)) \in Nat
  BY <1>1
<1>3. \A j \in DOMAIN NearCandidates(from, s) : NearCandidates(from, s)[j] \in Nat
  BY <1>1, <1>2
<1> QED
  BY <1>2, <1>3 DEF Candidates

(* The scan comes to every bucket, from wherever it goes on.               *)
LEMMA ScanFacts ==
  ASSUME ChainedAssumption, NEW tb, Shaped(tb)
  PROVE  /\ Candidates(ScanCandidates(tb))
         /\ \A e \in 0 .. tb.n - 1 : \E j \in DOMAIN ScanCandidates(tb) : ScanCandidates(tb)[j] % tb.n = e
<1> DEFINE n == tb.n
           l == tb.last
           c == ScanCandidates(tb)
<1>1. n \in Nat /\ n >= 8 /\ l \in Nat
  BY ShapeFacts
<1>2. DOMAIN c = 1 .. 2 * n /\ \A j \in 1 .. 2 * n : c[j] = IF j % 2 = 1 THEN l + (j + 1) \div 2 ELSE n \div 2 + l + j \div 2
  BY DEF ScanCandidates
<1> HIDE DEF n, l, c
<1>3. Candidates(c)
  <2>1. 1 .. 2 * n \subseteq Nat
    BY <1>1
  <2>2. \A j \in 1 .. 2 * n : c[j] \in Int
    BY <1>1, <1>2
  <2> QED
    BY <1>2, <2>1, <2>2 DEF Candidates
<1>4. ASSUME NEW e \in 0 .. n - 1 PROVE \E j \in DOMAIN c : c[j] % n = e
  <2> DEFINE y == e - l - 1
             d == y % n
             q == y \div n
             j == 2 * d + 1
  <2>1. y \in Int /\ d \in 0 .. n - 1 /\ q \in Int /\ y = n * q + d
    BY <1>1
  <2> HIDE DEF d, q
  <2>2. j \in 1 .. 2 * n /\ j % 2 = 1 /\ (j + 1) \div 2 = d + 1
    BY <1>1, <2>1
  <2>3. c[j] = l + (d + 1)
    BY <1>2, <2>2
  <2>4. l + (d + 1) = e + n * (0 - q)
    <3> DEFINE w == n * q
    <3>1. w \in Int /\ n * (0 - q) = 0 - w
      BY <1>1, <2>1
    <3> HIDE DEF w
    <3> QED
      BY <1>1, <2>1, <3>1 DEF w
  <2>5. (e + n * (0 - q)) % n = e % n
    <3>1. 0 - q \in Int /\ n > 0 /\ e \in Int
      BY <1>1, <2>1
    <3> QED
      BY <1>1, <3>1, RoundsVanish
  <2>6. e % n = e
    BY <1>1
  <2> HIDE DEF j
  <2> QED
    BY <1>2, <2>2, <2>3, <2>4, <2>5, <2>6
<1> QED
  BY <1>3, <1>4 DEF c, n

(* find_empty_bucket finds a free bucket in a table that is not full.      *)
LEMMA FindEmptyFacts ==
  ASSUME ChainedAssumption, NEW tb, Sound(tb), tb.filled < tb.n, NEW from \in Nat, NEW hint \in Nat
  PROVE  /\ FindEmptyBucket(tb, from, hint).pos \in 0 .. tb.n - 1 /\ IsEmpty(tb, FindEmptyBucket(tb, from, hint).pos)
         /\ FindEmptyBucket(tb, from, hint).last \in Nat
<1> DEFINE c == NearCandidates(from, from + 1 + hint \div 2)
           near == FirstEmpty(tb, c, {})
           scan == ScanCandidates(tb)
           scanned == FirstEmpty(tb, scan, {})
<1>1. Shaped(tb)
  BY DEF Sound, Chained
<1>2. tb.n \in Nat /\ tb.last \in Nat
  BY <1>1, ShapeFacts
<1>3. FindEmptyBucket(tb, from, hint) = NearOrScanned(tb, near, scanned)
  BY DEF FindEmptyBucket
<1>4. Candidates(c)
  <2>1. from + 1 + hint \div 2 \in Nat
    OBVIOUS
  <2> QED
    BY <2>1, NearFacts
<1> HIDE DEF c, scan
<1>5. near # Free => Vacant(tb, near, {})
  BY <1>1, <1>4, FirstEmptyFacts
<1>6. /\ Candidates(scan)
      /\ \A e \in 0 .. tb.n - 1 : \E j \in DOMAIN scan : scan[j] % tb.n = e
  BY <1>1, ScanFacts DEF scan
<1>7. /\ scanned # Free => Vacant(tb, scanned, {})
      /\ scanned = Free => \A j \in DOMAIN scan : ~ Vacant(tb, scan[j] % tb.n, {})
  BY <1>1, <1>6, FirstEmptyFacts
<1> HIDE DEF near, scanned
<1>8. scanned # Free
  <2>1. PICK e \in 0 .. tb.n - 1 : IsEmpty(tb, e)
    BY <1>1, OccupiedFinite DEF Sound
  <2> QED
    BY <1>6, <1>7, <2>1 DEF Vacant
<1>9. scanned \in 0 .. tb.n - 1 /\ IsEmpty(tb, scanned) /\ scanned \in Nat
  BY <1>2, <1>7, <1>8 DEF Vacant
<1>10. near # Free => near \in 0 .. tb.n - 1 /\ IsEmpty(tb, near)
  BY <1>5 DEF Vacant
<1> QED
  BY <1>2, <1>3, <1>9, <1>10 DEF NearOrScanned

-----------------------------------------------------------------------------
(* Insertion.                                                              *)

LEMMA HeldKeys ==
  ASSUME NEW tb, NEW k
  PROVE  HasKey(tb, k) <=> k \in KeysOf(Held(tb))
<1>1. \A i : Elem(tb, i)[1] = tb.slot[i].k
  BY DEF Elem
<1> QED
  BY <1>1 DEF HasKey, KeysOf, Held

(* kickout_bucket: a tenant leaves with its place in its chain.            *)
LEMMA KickoutFacts ==
  ASSUME ChainedAssumption, NEW tb, Sound(tb), tb.filled < tb.n, NEW b \in Occupied(tb), MainBucket(tb, b) # b
  PROVE  \E f : Shifts(KickoutBucket(tb, MainBucket(tb, b), b), tb, b, f)
<1> DEFINE kmain == MainBucket(tb, b)
           free == FindEmptyBucket(tb, NextBucket(tb, b), 2)
           prev == FindPrevBucket(tb, kmain, b)
           f == free.pos
           l == free.last
           x == IF NextBucket(tb, b) = b THEN f ELSE NextBucket(tb, b)
<1>1. Chained(tb) /\ Shaped(tb)
  BY DEF Sound, Chained
<1>2. NextBucket(tb, b) \in Nat /\ 2 \in Nat
  BY <1>1, ShapeFacts
<1>3. f \in 0 .. tb.n - 1 /\ IsEmpty(tb, f) /\ l \in Nat
  BY <1>2, FindEmptyFacts
<1>4. Precedes(tb, prev, b) /\ prev # Free
  BY <1>1, FindPrevFacts
<1>5. KickoutBucket(tb, kmain, b) = KickoutTo(tb, kmain, b, free, prev)
  BY DEF KickoutBucket
<1> HIDE DEF free, prev
<1>6. KickoutTo(tb, kmain, b, free, prev) = Link([Relocate(tb, b, f, x) EXCEPT !.last = l], prev, f)
  BY <1>4 DEF KickoutTo
<1> HIDE DEF f, l, x
<1>8. x = IF NextBucket(tb, b) = b THEN f ELSE NextBucket(tb, b)
  BY DEF x
<1>7. Shifts(Link([Relocate(tb, b, f, x) EXCEPT !.last = l], prev, f), tb, b, f)
  BY <1>1, <1>3, <1>4, <1>8, MovedFacts DEF Precedes
<1> QED
  BY <1>5, <1>6, <1>7

(* find_slot: where a new element can go, and which bucket is to point to  *)
(* it.                                                                     *)
Slot(s, tb, k) ==
  /\ Sound(s.tb) /\ s.tb.n = tb.n /\ s.tb.filled = tb.filled /\ Held(s.tb) = Held(tb)
  /\ s.pos \in 0 .. tb.n - 1 /\ IsEmpty(s.tb, s.pos)
  /\ \/ s.from = s.pos /\ KeyToBucket(s.tb, k) = s.pos
     \/ s.from \in Occupied(s.tb) /\ IsTail(s.tb, s.from) /\ MainBucket(s.tb, s.from) = KeyToBucket(s.tb, k)

LEMMA FreeSlotFacts ==
  ASSUME ChainedAssumption, NEW tb, Sound(tb), tb.filled < tb.n, NEW k \in Keys
  PROVE  Slot(FreeSlot(tb, k), tb, k)
<1> DEFINE b0 == KeyToBucket(tb, k)
           kmain == MainBucket(tb, b0)
           tail == TailOf(tb, b0)
           hint == Cardinality(Sharing(tb, b0)) - 1
           free == FindEmptyBucket(tb, tail, hint)
           s == FreeSlot(tb, k)
<1>1. Chained(tb) /\ Shaped(tb)
  BY DEF Sound, Chained
<1>2. b0 \in 0 .. tb.n - 1 /\ tb.n \in Nat /\ Occupied(tb) = {i \in 0 .. tb.n - 1 : tb.slot[i] # Free}
  BY <1>1, ShapeFacts
<1>3. ~ IsEmpty(tb, b0) => b0 \in Occupied(tb)
  BY <1>2 DEF IsEmpty
<1>4. \A u : u.n = tb.n => KeyToBucket(u, k) = b0
  BY DEF KeyToBucket
<1>5. CASE IsEmpty(tb, b0)
  <2>1. s = [tb |-> tb, pos |-> b0, from |-> b0]
    BY <1>5 DEF FreeSlot
  <2>2. s.tb = tb /\ s.pos = b0 /\ s.from = b0
    BY <2>1
  <2> HIDE DEF s, b0
  <2>3. Slot(s, tb, k)
    BY <1>2, <1>4, <1>5, <2>2 DEF Slot
  <2> QED
    BY <2>3 DEF s
<1>6. CASE ~ IsEmpty(tb, b0) /\ kmain # b0
  <2>0. b0 \in Occupied(tb)
    BY <1>3, <1>6
  <2>1. ~ IsEmpty(tb, kmain)
    <3>1. kmain \in Occupied(tb)
      BY <1>1, <2>0, ChainFacts
    <3> QED
      BY <1>2, <3>1 DEF IsEmpty
  <2> DEFINE u == KickoutBucket(tb, kmain, b0)
  <2>2. s = [tb |-> u, pos |-> b0, from |-> b0]
    BY <1>6, <2>1 DEF FreeSlot
  <2>3. PICK f : Shifts(u, tb, b0, f)
    BY <1>6, <2>0, KickoutFacts
  <2> HIDE DEF u
  <2>4. s.tb = u /\ s.pos = b0 /\ s.from = b0
    BY <2>2
  <2> HIDE DEF s, b0
  <2>5. Sound(u) /\ u.n = tb.n /\ u.filled = tb.filled /\ Held(u) = Held(tb) /\ b0 \notin Occupied(u)
    BY <2>0, <2>3 DEF Shifts
  <2>6. IsEmpty(u, b0)
    <3>1. Shaped(u)
      BY <2>5 DEF Sound, Chained
    <3>2. Occupied(u) = {i \in 0 .. tb.n - 1 : u.slot[i] # Free}
      BY <2>5, <3>1, ShapeFacts
    <3> QED
      BY <1>2, <2>5, <3>2 DEF IsEmpty
  <2>7. Slot(s, tb, k)
    BY <1>2, <1>4, <2>4, <2>5, <2>6 DEF Slot
  <2> QED
    BY <2>7 DEF s
<1>7. CASE ~ IsEmpty(tb, b0) /\ kmain = b0
  <2>0. b0 \in Occupied(tb)
    BY <1>3, <1>7
  <2> DEFINE u == [tb EXCEPT !.last = free.last]
  <2>1. s = [tb |-> u, pos |-> free.pos, from |-> tail]
    BY <1>7 DEF FreeSlot, BehindTail
  <2>2. tail \in Occupied(tb) /\ IsTail(tb, tail) /\ MainBucket(tb, tail) = b0
    BY <1>1, <1>7, <2>0, TailFacts
  <2>3. hint \in Nat
    <3>1. Sharing(tb, b0) \subseteq Occupied(tb) /\ b0 \in Sharing(tb, b0)
      BY <1>7, <2>0 DEF Sharing
    <3>2. IsFiniteSet(Sharing(tb, b0))
      BY <1>1, <3>1, OccupiedFinite, FS_Subset
    <3>3. Cardinality(Sharing(tb, b0)) \in Nat /\ Cardinality(Sharing(tb, b0)) # 0
      BY <3>1, <3>2, FS_CardinalityType, FS_EmptySet
    <3> QED
      BY <3>3
  <2>4. tail \in Nat
    BY <1>2, <2>2
  <2> HIDE DEF tail, hint
  <2>5. free.pos \in 0 .. tb.n - 1 /\ IsEmpty(tb, free.pos) /\ free.last \in Nat
    BY <2>3, <2>4, FindEmptyFacts
  <2> HIDE DEF free
  <2>6. Alters(u, tb, tb.filled, free.last) /\ u.slot = tb.slot
    BY <1>1, <2>5, CountFacts
  <2>7. s.tb = u /\ s.pos = free.pos /\ s.from = tail
    BY <2>1
  <2> HIDE DEF u, s, b0
  <2>8. Shaped(u) /\ u.n = tb.n /\ u.filled = tb.filled
    BY <2>6 DEF Alters
  <2>9. Chained(u) /\ Occupied(u) = Occupied(tb) /\ Held(u) = Held(tb)
    BY <1>1, <2>6, <2>8, AlikeFacts
  <2>10. Sound(u)
    BY <2>8, <2>9 DEF Sound
  <2>11. IsEmpty(u, free.pos) /\ IsTail(u, tail) /\ MainBucket(u, tail) = b0
    BY <2>2, <2>5, <2>6, <2>8 DEF IsEmpty, IsTail, NextBucket, MainBucket, KeyToBucket
  <2>12. Slot(s, tb, k)
    BY <1>4, <2>2, <2>5, <2>7, <2>8, <2>9, <2>10, <2>11 DEF Slot
  <2> QED
    BY <2>12 DEF s
<1> QED
  BY <1>5, <1>6, <1>7

(* insert_kv finds the key, or puts a new element where it will be found.  *)
Inserts(res, tb, k, v) ==
  /\ Sound(res.tb) /\ res.pos \in Occupied(res.tb) /\ res.tb.slot[res.pos].k = k
  /\ \/ /\ res.inserted = FALSE /\ k \in KeysOf(Held(tb))
        /\ res.tb.filled = tb.filled /\ Held(res.tb) = Held(tb)
     \/ /\ res.inserted = TRUE /\ k \notin KeysOf(Held(tb))
        /\ res.tb.filled = tb.filled + 1 /\ Held(res.tb) = Held(tb) \cup {<<k, v>>}

LEMMA InsertKvFacts ==
  ASSUME ChainedAssumption, NEW tb, Sound(tb), tb.filled < tb.n, NEW k \in Keys, NEW v \in Values
  PROVE  Inserts(InsertKv(tb, k, v), tb, k, v) /\ InsertKv(tb, k, v).tb.n = tb.n
<1> DEFINE found == Bucket(tb, k)
           s == FreeSlot(tb, k)
           u == PlaceKvAt(s.tb, s.pos, s.from, k, v)
           res == InsertKv(tb, k, v)
<1>1. Chained(tb) /\ Shaped(tb)
  BY DEF Sound, Chained
<1>2. \/ found \in Occupied(tb) /\ tb.slot[found].k = k
      \/ found = tb.n /\ ~ HasKey(tb, k)
  BY <1>1, BucketFacts
<1>3. Slot(s, tb, k)
  BY FreeSlotFacts
<1>4. \A i \in Occupied(tb) : i \in 0 .. tb.n - 1 /\ tb.n \in Nat
  BY <1>1, ShapeFacts
<1>5. res = IF found # tb.n THEN [tb |-> tb, pos |-> found, inserted |-> FALSE]
            ELSE [tb |-> u, pos |-> s.pos, inserted |-> TRUE]
  BY DEF InsertKv, FoundOrPlaced
<1> HIDE DEF found, s
<1>6. CASE found \in Occupied(tb) /\ tb.slot[found].k = k
  <2>1. found # tb.n
    BY <1>4, <1>6
  <2>2. res.tb = tb /\ res.pos = found /\ res.inserted = FALSE
    BY <1>5, <2>1
  <2>3. k \in KeysOf(Held(tb))
    BY <1>6, HeldKeys DEF HasKey
  <2> HIDE DEF res
  <2>4. Inserts(res, tb, k, v) /\ res.tb.n = tb.n
    BY <1>6, <2>2, <2>3 DEF Inserts
  <2> QED
    BY <2>4 DEF res
<1>7. CASE found = tb.n /\ ~ HasKey(tb, k)
  <2>1. res.tb = u /\ res.pos = s.pos /\ res.inserted = TRUE
    BY <1>5, <1>7
  <2>2. /\ Sound(s.tb) /\ s.tb.n = tb.n /\ s.tb.filled = tb.filled /\ Held(s.tb) = Held(tb)
        /\ s.pos \in 0 .. s.tb.n - 1 /\ IsEmpty(s.tb, s.pos) /\ Chained(s.tb)
        /\ \/ s.from = s.pos /\ KeyToBucket(s.tb, k) = s.pos
           \/ s.from \in Occupied(s.tb) /\ IsTail(s.tb, s.from) /\ MainBucket(s.tb, s.from) = KeyToBucket(s.tb, k)
    BY <1>3 DEF Slot, Sound
  <2>3. ~ HasKey(s.tb, k) /\ k \notin KeysOf(Held(tb))
    BY <1>7, <2>2, HeldKeys
  <2>4. Gains(u, s.tb, s.pos, k, v)
    BY <2>2, <2>3, PlacedFacts
  <2> HIDE DEF u, res
  <2>5. Inserts(res, tb, k, v) /\ res.tb.n = tb.n
    BY <2>1, <2>2, <2>3, <2>4 DEF Inserts, Gains
  <2> QED
    BY <2>5 DEF res
<1> QED
  BY <1>2, <1>6, <1>7

-----------------------------------------------------------------------------
(* Rehashing.                                                              *)

(* A table the program can have: a moved-from one has no buckets.          *)
Good(tb) == tb = NoTable \/ Sound(tb)

LEMMA GoodFacts ==
  ASSUME ChainedAssumption, NEW tb, Good(tb)
  PROVE  /\ tb.n \in Nat /\ Occupied(tb) \subseteq 0 .. tb.n - 1 /\ KeyedOnce(tb)
         /\ IsFiniteSet(Occupied(tb)) /\ tb.filled = Cardinality(Occupied(tb)) /\ tb.filled \in Nat
         /\ tb.filled <= tb.n /\ tb.n <= MostBuckets /\ (tb.n # 0 => Sound(tb))
         /\ \A i \in 0 .. tb.n - 1 : ~ IsEmpty(tb, i) <=> i \in Occupied(tb)
         /\ \A i \in Occupied(tb) : tb.slot[i].k \in Keys /\ tb.slot[i].v \in Values
<1>1. CASE tb = NoTable
  <2>1. Occupied(tb) = {} /\ tb.n = 0 /\ tb.filled = 0
    BY <1>1, NoTableFacts
  <2>2. IsFiniteSet({}) /\ Cardinality({}) = 0 /\ MostBuckets \in Nat
    BY FS_EmptySet, Capacities
  <2> QED
    BY <2>1, <2>2 DEF KeyedOnce
<1>2. CASE Sound(tb)
  <2>1. Shaped(tb) /\ KeyedOnce(tb) /\ tb.filled = Cardinality(Occupied(tb))
    BY <1>2 DEF Sound, Chained
  <2>2. /\ tb.n \in Nat /\ tb.n <= MostBuckets /\ tb.filled \in Nat
        /\ Occupied(tb) = {i \in 0 .. tb.n - 1 : tb.slot[i] # Free}
        /\ \A i \in Occupied(tb) : tb.slot[i].k \in Keys /\ tb.slot[i].v \in Values
    BY <2>1, ShapeFacts
  <2>3. IsFiniteSet(Occupied(tb)) /\ Cardinality(Occupied(tb)) <= tb.n
    BY <2>1, OccupiedFinite
  <2>4. \A i \in 0 .. tb.n - 1 : ~ IsEmpty(tb, i) <=> i \in Occupied(tb)
    BY <2>2 DEF IsEmpty
  <2> QED
    BY <1>2, <2>1, <2>2, <2>3, <2>4
<1> QED
  BY <1>1, <1>2 DEF Good

LEMMA EmptyTableFacts ==
  ASSUME ChainedAssumption, NEW n \in BucketCounts
  PROVE  /\ Sound(EmptyTable(n)) /\ EmptyTable(n).n = n /\ EmptyTable(n).filled = 0
         /\ Occupied(EmptyTable(n)) = {} /\ Held(EmptyTable(n)) = {}
<1> DEFINE tb == EmptyTable(n)
<1>1. n \in Nat
  BY Capacities
<1>2. tb.n = n /\ tb.filled = 0 /\ tb.last = 0 /\ tb.slot = [i \in 0 .. n - 1 |-> Free]
  BY DEF EmptyTable
<1>3. tb.slot \in [0 .. n - 1 -> ChNodes(n) \cup {Free}]
  BY <1>2
<1>4. tb \in ChShape(n)
  BY <1>2, <1>3 DEF ChShape, EmptyTable
<1> HIDE DEF tb
<1>5. Shaped(tb)
  BY <1>2, <1>4 DEF Shaped
<1>6. Occupied(tb) = {}
  BY <1>2 DEF Occupied, IsEmpty
<1>7. Held(tb) = {} /\ KeyedOnce(tb)
  BY <1>6 DEF Held, KeyedOnce
<1>8. Linked(Occupied(tb), Mains(tb), Nexts(tb))
  <2>1. Ranked(Occupied(tb), Mains(tb), Nexts(tb), 0)
    BY <1>6 DEF Ranked
  <2> QED
    BY <2>1 DEF Linked
<1>9. Cardinality({}) = 0
  BY FS_EmptySet
<1>10. Sound(tb)
  BY <1>2, <1>5, <1>6, <1>7, <1>8, <1>9 DEF Sound, Chained
<1> QED
  BY <1>2, <1>6, <1>7, <1>10 DEF tb

(* The elements in the buckets before i.                                   *)
Below(tb, i) == {j \in Occupied(tb) : j < i}

HeldBelow(tb, i) == {Elem(tb, j) : j \in Below(tb, i)}

LEMMA BelowFacts ==
  ASSUME ChainedAssumption, NEW tb, Good(tb)
  PROVE  /\ Below(tb, 0) = {} /\ Below(tb, tb.n) = Occupied(tb) /\ HeldBelow(tb, tb.n) = Held(tb)
         /\ \A i \in 1 .. tb.n :
              /\ i - 1 \notin Occupied(tb) => Below(tb, i) = Below(tb, i - 1)
              /\ i - 1 \in Occupied(tb) =>
                   /\ Below(tb, i) = Below(tb, i - 1) \cup {i - 1}
                   /\ HeldBelow(tb, i) = HeldBelow(tb, i - 1) \cup {Elem(tb, i - 1)}
                   /\ Cardinality(Below(tb, i)) = Cardinality(Below(tb, i - 1)) + 1
                   /\ Cardinality(Below(tb, i - 1)) \in Nat
                   /\ tb.slot[i - 1].k \notin KeysOf(HeldBelow(tb, i - 1))
<1>1. /\ tb.n \in Nat /\ Occupied(tb) \subseteq 0 .. tb.n - 1 /\ IsFiniteSet(Occupied(tb))
      /\ tb.filled = Cardinality(Occupied(tb)) /\ KeyedOnce(tb)
  BY GoodFacts
<1>2. Below(tb, 0) = {} /\ Below(tb, tb.n) = Occupied(tb)
  BY <1>1 DEF Below
<1>3. ASSUME NEW i \in 1 .. tb.n, i - 1 \notin Occupied(tb) PROVE Below(tb, i) = Below(tb, i - 1)
  BY <1>1, <1>3 DEF Below
<1>4. ASSUME NEW i \in 1 .. tb.n, i - 1 \in Occupied(tb)
      PROVE  /\ Below(tb, i) = Below(tb, i - 1) \cup {i - 1}
             /\ HeldBelow(tb, i) = HeldBelow(tb, i - 1) \cup {Elem(tb, i - 1)}
             /\ Cardinality(Below(tb, i)) = Cardinality(Below(tb, i - 1)) + 1
             /\ Cardinality(Below(tb, i - 1)) \in Nat
             /\ tb.slot[i - 1].k \notin KeysOf(HeldBelow(tb, i - 1))
  <2>1. Below(tb, i) = Below(tb, i - 1) \cup {i - 1} /\ i - 1 \notin Below(tb, i - 1)
    BY <1>1, <1>4 DEF Below
  <2>2. HeldBelow(tb, i) = HeldBelow(tb, i - 1) \cup {Elem(tb, i - 1)}
    BY <2>1 DEF HeldBelow
  <2>3. Below(tb, i) \subseteq Occupied(tb) /\ Below(tb, i - 1) \subseteq Occupied(tb)
    BY DEF Below
  <2>4. IsFiniteSet(Below(tb, i)) /\ IsFiniteSet(Below(tb, i - 1))
    BY <1>1, <2>3, FS_Subset
  <2>5. Cardinality(Below(tb, i)) = Cardinality(Below(tb, i - 1)) + 1
    BY <2>1, <2>4, FS_AddElement
  <2>6. Cardinality(Below(tb, i - 1)) \in Nat
    BY <2>4, FS_CardinalityType
  <2>7. \A j \in Below(tb, i - 1) : tb.slot[j].k # tb.slot[i - 1].k
    BY <1>1, <1>4, <2>1, <2>3 DEF KeyedOnce
  <2>8. tb.slot[i - 1].k \notin KeysOf(HeldBelow(tb, i - 1))
    BY <2>7 DEF HeldBelow, KeysOf, Elem
  <2> QED
    BY <2>1, <2>2, <2>5, <2>6, <2>8
<1>5. HeldBelow(tb, tb.n) = Held(tb)
  BY <1>2 DEF HeldBelow, Held
<1> QED
  BY <1>2, <1>3, <1>4, <1>5

(* The main buckets of the elements of tb in a table of n buckets.         *)
Reserves(tb, n) == {KeyToBucket(EmptyTable(n), tb.slot[i].k) : i \in Occupied(tb)}

(* A new table with the elements before i of the old one: what is in a     *)
(* bucket that will be the first of a chain is the first of its chain.     *)
MovedBelow(x, tb, n, i) ==
  /\ x \in [tb : ChShape(n), scan : Nat]
  /\ Sound(x.tb) /\ x.tb.n = n /\ x.tb.filled = Cardinality(Below(tb, i))
  /\ Held(x.tb) = HeldBelow(tb, i)
  /\ \A j \in Occupied(x.tb) : j \in Reserves(tb, n) => MainBucket(x.tb, j) = j

(* There is a free bucket that is nobody's main one for the next element.  *)
LEMMA UnreservedFacts ==
  ASSUME ChainedAssumption, NEW tb, Good(tb), NEW n \in BucketCounts, tb.filled <= n, NEW i \in 0 .. tb.n - 1,
         i \in Occupied(tb), NEW x, MovedBelow(x, tb, n, i), ~ IsEmpty(x.tb, KeyToBucket(x.tb, tb.slot[i].k))
  PROVE  \E e \in 0 .. n - 1 : Vacant(x.tb, e, Reserves(tb, n))
<1> DEFINE u == x.tb
           O == Occupied(tb)
           R == Reserves(tb, n)
           b(j) == KeyToBucket(u, tb.slot[j].k)
           at(j) == CHOOSE p \in Occupied(u) : u.slot[p].k = tb.slot[j].k
           S == O \ {i}
           T == Occupied(u) \cup R
           g == [j \in S |-> IF j < i THEN at(j) ELSE b(j)]
<1>1. /\ tb.n \in Nat /\ O \subseteq 0 .. tb.n - 1 /\ KeyedOnce(tb) /\ IsFiniteSet(O)
      /\ tb.filled = Cardinality(O) /\ tb.filled \in Nat /\ \A j \in O : tb.slot[j].k \in Keys
  BY GoodFacts
<1>2. /\ Sound(u) /\ Chained(u) /\ Shaped(u) /\ u.n = n /\ Held(u) = HeldBelow(tb, i)
  BY DEF MovedBelow, Sound, Chained
<1>3. n \in Nat /\ Occupied(u) = {p \in 0 .. n - 1 : u.slot[p] # Free} /\ \A k \in Keys : KeyToBucket(u, k) \in 0 .. n - 1
  BY <1>2, ShapeFacts
<1>4. \A k : KeyToBucket(EmptyTable(n), k) = KeyToBucket(u, k)
  BY <1>2 DEF KeyToBucket, EmptyTable
<1>5. R = {b(j) : j \in O}
  BY <1>4 DEF Reserves
<1>6. b(i) \in Occupied(u)
  BY <1>1, <1>3 DEF IsEmpty
<1> HIDE DEF u
<1>7. \A p \in Occupied(u) : \E j \in S : j < i /\ u.slot[p].k = tb.slot[j].k
  <2> SUFFICES ASSUME NEW p \in Occupied(u) PROVE \E j \in S : j < i /\ u.slot[p].k = tb.slot[j].k
    OBVIOUS
  <2>1. Elem(u, p) \in HeldBelow(tb, i)
    BY <1>2 DEF Held
  <2>2. PICK j \in Below(tb, i) : Elem(u, p) = Elem(tb, j)
    BY <2>1 DEF HeldBelow
  <2>3. j \in O /\ j < i /\ j # i
    BY <1>1 DEF Below
  <2> QED
    BY <2>2, <2>3 DEF Elem
<1>8. \A j \in O : j < i => at(j) \in Occupied(u) /\ u.slot[at(j)].k = tb.slot[j].k
  <2> SUFFICES ASSUME NEW j \in O, j < i PROVE \E p \in Occupied(u) : u.slot[p].k = tb.slot[j].k
    OBVIOUS
  <2>1. Elem(tb, j) \in Held(u)
    BY <1>2 DEF HeldBelow, Below
  <2> QED
    BY <2>1 DEF Held, Elem
<1>9. KeyedOnce(u)
  BY <1>2 DEF Chained
<1> HIDE DEF at, b
<1>10. \A j \in S : g[j] \in T
  BY <1>5, <1>8
<1>11. \A p \in Occupied(u) : \E j \in S : g[j] = p
  <2> SUFFICES ASSUME NEW p \in Occupied(u) PROVE \E j \in S : g[j] = p
    OBVIOUS
  <2>1. PICK j \in S : j < i /\ u.slot[p].k = tb.slot[j].k
    BY <1>7
  <2>2. at(j) = p
    BY <1>8, <1>9, <2>1 DEF KeyedOnce
  <2> QED
    BY <2>1, <2>2
<1>12. \A p \in R : p \notin Occupied(u) => \E j \in S : g[j] = p
  <2> SUFFICES ASSUME NEW p \in R, p \notin Occupied(u) PROVE \E j \in S : g[j] = p
    OBVIOUS
  <2>1. PICK j \in O : p = b(j)
    BY <1>5
  <2>2. j # i
    BY <1>6, <2>1
  <2>3. ~ (j < i)
    <3> SUFFICES ASSUME j < i PROVE FALSE
      OBVIOUS
    <3>1. MainBucket(u, at(j)) = b(j)
      BY <1>8 DEF MainBucket, b
    <3>2. MainBucket(u, at(j)) \in Occupied(u)
      BY <1>2, <1>8, ChainFacts
    <3> QED
      BY <2>1, <3>1, <3>2
  <2>4. j \in S /\ g[j] = b(j)
    BY <2>2, <2>3
  <2> QED
    BY <2>1, <2>4
<1>13. g \in Surjection(S, T)
  <2>1. g \in [S -> T]
    BY <1>10
  <2>2. \A p \in T : \E j \in S : g[j] = p
    BY <1>11, <1>12
  <2> QED
    BY <2>1, <2>2 DEF Surjection
<1>14. IsFiniteSet(S) /\ Cardinality(S) = Cardinality(O) - 1
  BY <1>1, FS_RemoveElement
<1>15. IsFiniteSet(T) /\ Cardinality(T) <= Cardinality(S)
  <2> HIDE DEF g, S, T
  <2> QED
    BY <1>13, <1>14, FS_Surjection
<1>16. T \subseteq 0 .. n - 1
  BY <1>1, <1>3, <1>5 DEF b
<1>17. T # 0 .. n - 1
  <2> DEFINE m == n - 1
  <2>1. m \in Int /\ 0 \in Int /\ ~ (0 > m) /\ m - 0 + 1 = n
    BY <1>3, Capacities
  <2> HIDE DEF m
  <2>2. Cardinality(0 .. m) = n
    BY <2>1, FS_Interval
  <2>3. Cardinality(T) \in Nat
    BY <1>15, FS_CardinalityType
  <2>4. Cardinality(T) # n
    <3>1. Cardinality(O) \in Nat /\ Cardinality(O) <= n
      BY <1>1
    <3> HIDE DEF T, S, O
    <3> QED
      BY <1>3, <1>14, <1>15, <2>3, <3>1
  <2>5. T # 0 .. m
    BY <2>2, <2>4
  <2> QED
    BY <2>5 DEF m
<1>18. PICK e \in 0 .. n - 1 : e \notin T
  BY <1>16, <1>17
<1>19. Vacant(u, e, R)
  BY <1>2, <1>3, <1>18 DEF Vacant, IsEmpty
<1> QED
  BY <1>19 DEF u

LEMMA RehashFindFacts ==
  ASSUME ChainedAssumption, NEW tb, Shaped(tb), NEW barred, NEW scan \in Nat, NEW hint \in Nat,
         \E e \in 0 .. tb.n - 1 : Vacant(tb, e, barred)
  PROVE  /\ Vacant(tb, RehashFindEmpty(tb, barred, scan, hint).pos, barred)
         /\ RehashFindEmpty(tb, barred, scan, hint).scan \in Nat
<1> DEFINE n == tb.n
           c == NearCandidates(hint, hint + 2)
           w == [j \in 1 .. tb.n |-> scan + j - 1]
           near == FirstEmpty(tb, c, barred)
           walked == FirstEmpty(tb, w, barred)
           res == RehashFindEmpty(tb, barred, scan, hint)
<1>1. n \in Nat /\ n >= 8
  BY ShapeFacts
<1>2. res = IF near # Free THEN [pos |-> near, scan |-> scan] ELSE [pos |-> walked, scan |-> (walked + 1) % n]
  BY DEF RehashFindEmpty
<1>3. Candidates(c)
  <2>1. hint + 2 \in Nat
    OBVIOUS
  <2> QED
    BY <2>1, NearFacts
<1> HIDE DEF c
<1>4. near # Free => Vacant(tb, near, barred)
  BY <1>3, FirstEmptyFacts
<1>5. DOMAIN w = 1 .. n /\ \A j \in 1 .. n : w[j] = scan + j - 1
  OBVIOUS
<1>6. Candidates(w)
  BY <1>1, <1>5 DEF Candidates
<1> HIDE DEF w
<1>7. /\ walked # Free => Vacant(tb, walked, barred)
      /\ walked = Free => \A j \in DOMAIN w : ~ Vacant(tb, w[j] % tb.n, barred)
  BY <1>6, FirstEmptyFacts
<1>8. ASSUME NEW e \in 0 .. n - 1 PROVE \E j \in DOMAIN w : w[j] % n = e
  <2> DEFINE y == e - scan
             d == y % n
             q == y \div n
             j == d + 1
  <2>0. y \in Int
    BY <1>1
  <2>1. y \in Int /\ d \in 0 .. n - 1 /\ q \in Int /\ y = n * q + d
    <3> HIDE DEF n, y
    <3> QED
      BY <1>1, <2>0
  <2> HIDE DEF d, q
  <2>2. j \in 1 .. n /\ w[j] = scan + d
    BY <1>1, <1>5, <2>1
  <2>4. scan + d = e + n * (0 - q)
    <3> DEFINE z == n * q
    <3>1. z \in Int /\ n * (0 - q) = 0 - z
      BY <1>1, <2>1
    <3> HIDE DEF z
    <3> QED
      BY <1>1, <2>1, <3>1 DEF z
  <2>5. (e + n * (0 - q)) % n = e % n
    <3>1. 0 - q \in Int /\ n > 0 /\ e \in Int
      BY <1>1, <2>1
    <3> QED
      BY <1>1, <3>1, RoundsVanish
  <2>6. e % n = e
    BY <1>1
  <2> HIDE DEF j
  <2> QED
    BY <1>5, <2>2, <2>4, <2>5, <2>6
<1>9. walked # Free
  <2>1. PICK e \in 0 .. n - 1 : Vacant(tb, e, barred)
    OBVIOUS
  <2> QED
    BY <1>7, <1>8, <2>1
<1>10. Vacant(tb, walked, barred) /\ (walked + 1) % n \in Nat
  <2>1. walked \in 0 .. n - 1
    BY <1>7, <1>9 DEF Vacant
  <2>2. (walked + 1) % n \in 0 .. n - 1
    BY <1>1, <2>1
  <2> QED
    BY <1>7, <1>9, <2>2
<1> HIDE DEF near, walked, res
<1>11. Vacant(tb, res.pos, barred) /\ res.scan \in Nat
  BY <1>2, <1>4, <1>10
<1> QED
  BY <1>11 DEF res

(* One round of rehash_move_pass.                                          *)
LEMMA MoveOneFacts ==
  ASSUME ChainedAssumption, NEW tb, Good(tb), NEW n \in BucketCounts, tb.filled <= n, NEW i \in 1 .. tb.n,
         i - 1 \in Occupied(tb), NEW x, MovedBelow(x, tb, n, i - 1)
  PROVE  MovedBelow(MoveOne(x, Reserves(tb, n), tb.slot[i - 1]), tb, n, i)
<1> DEFINE e == tb.slot[i - 1]
           u == x.tb
           R == Reserves(tb, n)
           b0 == KeyToBucket(u, e.k)
           tail == TailOf(u, b0)
           free == RehashFindEmpty(u, R, x.scan, tail)
           y == MoveOne(x, R, e)
<1>0. e.k \in Keys /\ e.v \in Values /\ tb.n \in Nat
  BY GoodFacts
<1>1. /\ Sound(u) /\ Chained(u) /\ Shaped(u) /\ u.n = n /\ u.filled = Cardinality(Below(tb, i - 1))
      /\ Held(u) = HeldBelow(tb, i - 1) /\ x.scan \in Nat /\ x = [tb |-> u, scan |-> x.scan]
      /\ \A j \in Occupied(u) : j \in R => MainBucket(u, j) = j
  BY DEF MovedBelow, Sound, Chained
<1>2. /\ HeldBelow(tb, i) = HeldBelow(tb, i - 1) \cup {<<e.k, e.v>>}
      /\ Cardinality(Below(tb, i)) = Cardinality(Below(tb, i - 1)) + 1
      /\ e.k \notin KeysOf(HeldBelow(tb, i - 1))
  BY BelowFacts DEF Elem
<1>3. /\ b0 \in 0 .. n - 1 /\ n \in Nat /\ Occupied(u) = {p \in 0 .. n - 1 : u.slot[p] # Free}
  BY <1>0, <1>1, ShapeFacts
<1>4. ~ HasKey(u, e.k)
  BY <1>1, <1>2, HeldKeys
<1>5. b0 \in R
  BY <1>1 DEF Reserves, KeyToBucket, EmptyTable
<1>6. y = IF IsEmpty(u, b0) THEN [x EXCEPT !.tb = PlaceKvAt(u, b0, b0, e.k, e.v)]
          ELSE MoveBehind(u, free, tail, e)
  BY DEF MoveOne
<1> DEFINE p == IF IsEmpty(u, b0) THEN b0 ELSE free.pos
           from == IF IsEmpty(u, b0) THEN b0 ELSE tail
           scan == IF IsEmpty(u, b0) THEN x.scan ELSE free.scan
           w == PlaceKvAt(u, p, from, e.k, e.v)
           Placed == /\ y = [tb |-> w, scan |-> scan] /\ scan \in Nat /\ p \in 0 .. n - 1 /\ IsEmpty(u, p)
                     /\ p = b0 \/ p \notin R
                     /\ \/ from = p /\ b0 = p
                        \/ from \in Occupied(u) /\ IsTail(u, from) /\ MainBucket(u, from) = b0
<1>7. ASSUME IsEmpty(u, b0) PROVE Placed
  <2>1. y = [tb |-> w, scan |-> scan]
    <3>1. y = [x EXCEPT !.tb = w] /\ scan = x.scan
      BY <1>6, <1>7
    <3> HIDE DEF w, y, scan
    <3>2. [x EXCEPT !.tb = w] = [tb |-> w, scan |-> x.scan]
      BY <1>1
    <3> QED
      BY <3>1, <3>2
  <2>2. p = b0 /\ from = b0 /\ scan \in Nat
    BY <1>1, <1>7
  <2> HIDE DEF y, w, p, from, scan, u, b0, R
  <2> QED
    BY <1>3, <1>7, <2>1, <2>2
<1>8. ASSUME ~ IsEmpty(u, b0) PROVE Placed
  <2>0. b0 \in Occupied(u)
    BY <1>3, <1>8 DEF IsEmpty
  <2>1. MainBucket(u, b0) = b0
    BY <1>1, <1>5, <2>0
  <2>2. tail \in Occupied(u) /\ IsTail(u, tail) /\ MainBucket(u, tail) = b0
    BY <1>1, <2>0, <2>1, TailFacts
  <2>3. tail \in Nat
    BY <1>3, <2>2
  <2>4. \E f \in 0 .. u.n - 1 : Vacant(u, f, R)
    <3> DEFINE h == i - 1
    <3>1. h \in 0 .. tb.n - 1 /\ h \in Occupied(tb)
      BY <1>0
    <3>2. MovedBelow(x, tb, n, h) /\ ~ IsEmpty(x.tb, KeyToBucket(x.tb, tb.slot[h].k))
      BY <1>8
    <3> HIDE DEF h
    <3>3. \E f \in 0 .. n - 1 : Vacant(x.tb, f, Reserves(tb, n))
      BY <3>1, <3>2, UnreservedFacts
    <3> QED
      BY <1>1, <3>3
  <2> HIDE DEF tail, u, R
  <2>5. Vacant(u, free.pos, R) /\ free.scan \in Nat
    BY <1>1, <2>3, <2>4, RehashFindFacts
  <2>6. p = free.pos /\ from = tail /\ scan = free.scan /\ y = MoveBehind(u, free, tail, e)
    BY <1>6, <1>8
  <2>7. y = [tb |-> w, scan |-> scan]
    BY <2>6 DEF MoveBehind
  <2>8. p \in 0 .. n - 1 /\ IsEmpty(u, p) /\ p \notin R
    BY <1>1, <2>5, <2>6 DEF Vacant
  <2> HIDE DEF y, w, p, from, scan
  <2> QED
    BY <2>2, <2>5, <2>6, <2>7, <2>8
<1>9. /\ y = [tb |-> w, scan |-> scan] /\ scan \in Nat /\ p \in 0 .. n - 1 /\ IsEmpty(u, p)
      /\ p = b0 \/ p \notin R
      /\ \/ from = p /\ b0 = p
         \/ from \in Occupied(u) /\ IsTail(u, from) /\ MainBucket(u, from) = b0
  BY <1>7, <1>8
<1> HIDE DEF p, from, scan, y
<1>10. Gains(w, u, p, e.k, e.v)
  <2> DEFINE k == e.k
             v == e.v
  <2>1. k \in Keys /\ v \in Values /\ ~ HasKey(u, k) /\ b0 = KeyToBucket(u, k)
    BY <1>0, <1>4
  <2>2. p \in 0 .. u.n - 1
    BY <1>1, <1>9
  <2> HIDE DEF k, v, e, b0, u
  <2>3. Gains(PlaceKvAt(u, p, from, k, v), u, p, k, v)
    BY <1>1, <1>9, <2>1, <2>2, PlacedFacts
  <2> QED
    BY <2>3 DEF k, v
<1> HIDE DEF w, u, R, b0, e
<1>11. y.tb = w /\ y.scan = scan
  BY <1>9
<1>12. /\ Sound(w) /\ w.n = n /\ w.filled = u.filled + 1 /\ Held(w) = Held(u) \cup {<<e.k, e.v>>}
       /\ Occupied(w) = Occupied(u) \cup {p} /\ w.slot[p].k = e.k
       /\ \A j \in Occupied(u) : SameAt(w, j, u, j)
  BY <1>1, <1>10 DEF Gains
<1>13. w \in ChShape(n)
  BY <1>12 DEF Sound, Chained, Shaped
<1>14. \A j \in Occupied(u) : MainBucket(w, j) = MainBucket(u, j)
  BY <1>1, <1>12 DEF SameAt, MainBucket, KeyToBucket
<1>15. MainBucket(w, p) = b0
  BY <1>1, <1>12 DEF MainBucket, KeyToBucket, b0
<1>16. \A j \in Occupied(w) : j \in R => MainBucket(w, j) = j
  BY <1>1, <1>9, <1>12, <1>14, <1>15
<1>17. Held(w) = HeldBelow(tb, i) /\ w.filled = Cardinality(Below(tb, i))
  BY <1>1, <1>2, <1>12
<1>18. y \in [tb : ChShape(n), scan : Nat]
  BY <1>9, <1>13
<1>19. MovedBelow(y, tb, n, i)
  BY <1>11, <1>12, <1>16, <1>17, <1>18 DEF MovedBelow, R
<1> QED
  BY <1>19 DEF y, e, R

MoveStep(tb, n, x, i) == IF IsEmpty(tb, i - 1) THEN x ELSE MoveOne(x, Reserves(tb, n), tb.slot[i - 1])

LEMMA MoveStepFacts ==
  ASSUME ChainedAssumption, NEW tb, Good(tb), NEW n \in BucketCounts, tb.filled <= n, NEW i \in 1 .. tb.n,
         NEW x, MovedBelow(x, tb, n, i - 1)
  PROVE  MovedBelow(MoveStep(tb, n, x, i), tb, n, i)
<1>0. i - 1 \in 0 .. tb.n - 1 /\ (~ IsEmpty(tb, i - 1) <=> i - 1 \in Occupied(tb))
  <2>1. tb.n \in Nat /\ \A j \in 0 .. tb.n - 1 : ~ IsEmpty(tb, j) <=> j \in Occupied(tb)
    BY GoodFacts
  <2>2. i - 1 \in 0 .. tb.n - 1
    BY <2>1
  <2> QED
    BY <2>1, <2>2
<1>1. CASE i - 1 \in Occupied(tb)
  <2>1. MoveStep(tb, n, x, i) = MoveOne(x, Reserves(tb, n), tb.slot[i - 1])
    BY <1>0, <1>1 DEF MoveStep
  <2> QED
    BY <1>1, <2>1, MoveOneFacts
<1>2. CASE i - 1 \notin Occupied(tb)
  <2>1. MoveStep(tb, n, x, i) = x
    BY <1>0, <1>2 DEF MoveStep
  <2>2. Below(tb, i) = Below(tb, i - 1)
    BY <1>2, BelowFacts
  <2> QED
    BY <2>1, <2>2 DEF MovedBelow, HeldBelow
<1> QED
  BY <1>1, <1>2

LEMMA MovesFacts ==
  ASSUME ChainedAssumption, NEW tb, Good(tb), NEW n \in BucketCounts, tb.filled <= n
  PROVE  \A i \in 0 .. tb.n : MovedBelow(Moves(tb, n)[i], tb, n, i)
<1> DEFINE N == tb.n
           U == [tb : ChShape(n), scan : Nat]
           Inv == [i \in 0 .. N |-> {x \in U : MovedBelow(x, tb, n, i)}]
           step == [i \in 1 .. N |-> [x \in U |-> MoveStep(tb, n, x, i)]]
           f0 == [tb |-> EmptyTable(n), scan |-> 0]
           Is(f) == f = [i \in 0 .. N |-> IF i = 0 THEN f0 ELSE MoveStep(tb, n, f[i - 1], i)]
           m == Moves(tb, n)
<1>1. N \in Nat
  BY GoodFacts
<1>2. \A x, i : MovedBelow(x, tb, n, i) => x \in U
  BY DEF MovedBelow
<1>3. m = CHOOSE g : Is(g)
  BY DEF Moves, MoveStep, Reserves
<1>4. MovedBelow(f0, tb, n, 0)
  <2> DEFINE u == EmptyTable(n)
  <2>1. Sound(u) /\ Held(u) = {} /\ u.n = n /\ u.filled = 0 /\ Occupied(u) = {}
    BY EmptyTableFacts
  <2> HIDE DEF u
  <2>2. Below(tb, 0) = {} /\ Cardinality({}) = 0
    BY BelowFacts, FS_EmptySet
  <2>3. u \in ChShape(n)
    BY <2>1 DEF Sound, Chained, Shaped
  <2>4. f0.tb = u /\ f0 \in U
    BY <2>3 DEF u
  <2> HIDE DEF f0
  <2> QED
    BY <2>1, <2>2, <2>4 DEF MovedBelow, HeldBelow
<1> HIDE DEF U, f0, m
<1>5. Leads(step, Inv, N)
  <2> SUFFICES ASSUME NEW i \in 1 .. N, NEW x \in Inv[i - 1] PROVE step[i][x] \in Inv[i]
    BY DEF Leads
  <2>1. i - 1 \in 0 .. N /\ i \in 0 .. N
    BY <1>1
  <2>2. MovedBelow(x, tb, n, i - 1) /\ x \in U
    BY <2>1
  <2>4. MovedBelow(MoveStep(tb, n, x, i), tb, n, i)
    BY <2>2, MoveStepFacts
  <2> QED
    BY <1>2, <2>1, <2>2, <2>4
<1>6. f0 \in Inv[0]
  BY <1>1, <1>2, <1>4
<1>7. PICK f : Walks(f, f0, step, Inv, N)
  <2> HIDE DEF Inv, step, N
  <2> QED
    BY <1>1, <1>5, <1>6, WalkExists
<1>8. Is(f)
  <2>1. ASSUME NEW i \in 0 .. N PROVE f[i] = IF i = 0 THEN f0 ELSE MoveStep(tb, n, f[i - 1], i)
    <3>1. CASE i = 0
      BY <1>7, <3>1 DEF Walks
    <3>2. CASE i # 0
      <4>1. i \in 1 .. N /\ i - 1 \in 0 .. N
        BY <1>1, <3>2
      <4>2. f[i] = step[i][f[i - 1]] /\ f[i - 1] \in Inv[i - 1]
        BY <1>7, <4>1 DEF Walks
      <4>3. f[i - 1] \in U
        BY <4>1, <4>2
      <4> QED
        BY <3>2, <4>1, <4>2, <4>3
    <3> QED
      BY <3>1, <3>2
  <2> QED
    BY <1>7, <2>1 DEF Walks
<1>10. Is(m)
  <2> HIDE DEF Is
  <2> QED
    BY <1>3, <1>8
<1>11. m[0] = f0 /\ \A i \in 1 .. N : m[i] = MoveStep(tb, n, m[i - 1], i)
  BY <1>1, <1>10
<1> HIDE DEF Is
<1>12. \A i \in 0 .. N : m[i] \in Inv[i]
  <2>1. m[0] \in Inv[0]
    BY <1>6, <1>11
  <2>2. \A i \in 1 .. N : m[i - 1] \in Inv[i - 1] => m[i] \in Inv[i]
    <3> SUFFICES ASSUME NEW i \in 1 .. N, m[i - 1] \in Inv[i - 1] PROVE m[i] \in Inv[i]
      OBVIOUS
    <3>1. i - 1 \in 0 .. N /\ i \in 0 .. N
      BY <1>1
    <3>2. MovedBelow(m[i - 1], tb, n, i - 1)
      BY <3>1
    <3>3. MovedBelow(m[i], tb, n, i)
      BY <1>11, <3>2, MoveStepFacts
    <3> QED
      BY <1>2, <3>1, <3>3
  <2> HIDE DEF Inv
  <2> QED
    BY <1>1, <2>1, <2>2, StaysIn
<1> QED
  BY <1>12 DEF m

(* The same elements in another table.                                     *)
Resettled(u, tb) == Sound(u) /\ Held(u) = Held(tb) /\ u.filled = tb.filled

LEMMA RehashedFacts ==
  ASSUME ChainedAssumption, NEW tb, Good(tb), NEW required \in Nat, required <= MostBuckets
  PROVE  /\ Resettled(Rehashed(tb, required), tb)
         /\ Rehashed(tb, required).n >= required /\ Rehashed(tb, required).n >= tb.filled
         /\ Rehashed(tb, required).n >= 8
<1> DEFINE x == IF required < tb.filled THEN tb.filled ELSE required
           n == GrowthSizeAligned(x)
           u == Moves(tb, n)[tb.n].tb
<1>1. /\ tb.n \in Nat /\ tb.filled \in Nat /\ tb.filled <= tb.n /\ tb.n <= MostBuckets
      /\ tb.filled = Cardinality(Occupied(tb))
  BY GoodFacts
<1>2. x \in Nat /\ x <= MostBuckets /\ x >= required /\ x >= tb.filled
  BY <1>1, Capacities
<1>3. Rehashed(tb, required) = u
  BY DEF Rehashed, MoveAll
<1> HIDE DEF x
<1>4. n \in BucketCounts /\ n >= x
  BY <1>2, AlignedFacts
<1>5. n \in Nat /\ n >= required /\ n >= tb.filled /\ n >= 8
  BY <1>1, <1>2, <1>4, Capacities
<1> HIDE DEF n
<1>6. tb.n \in 0 .. tb.n
  BY <1>1
<1>7. MovedBelow(Moves(tb, n)[tb.n], tb, n, tb.n)
  BY <1>4, <1>5, <1>6, MovesFacts
<1>8. Below(tb, tb.n) = Occupied(tb) /\ HeldBelow(tb, tb.n) = Held(tb)
  BY BelowFacts
<1>9. Sound(u) /\ u.n = n /\ u.filled = tb.filled /\ Held(u) = Held(tb)
  BY <1>1, <1>7, <1>8 DEF MovedBelow
<1> HIDE DEF u
<1> QED
  BY <1>3, <1>5, <1>9 DEF Resettled

(* emplace() grows a table at its limit, and there is a free bucket then.  *)
LEMMA GrownFacts ==
  ASSUME ChainedAssumption, NEW tb, Good(tb), NEW more \in Nat, 8 * (tb.filled + more) <= MostBuckets
  PROVE  Resettled(GrownFor(tb, more), tb) /\ tb.filled < GrownFor(tb, more).n
<1> DEFINE full == Full(tb, tb.filled + more)
           c == GetNextCapacity(tb)
           n == tb.n
           f == tb.filled
<1>1. n \in Nat /\ f \in Nat /\ f <= n /\ n <= MostBuckets /\ (n # 0 => Sound(tb)) /\ MostBuckets \in Nat
  BY GoodFacts, Capacities
<1>2. full <=> (f + more) * 100 >= n * 75
  BY DEF Full, LoadFactor
<1>3. c = IF n < 256 THEN n * 4 ELSE n + 1
  BY DEF GetNextCapacity
<1>4. GrownFor(tb, more) = IF full THEN Rehashed(tb, c) ELSE tb
  BY DEF GrownFor
<1> HIDE DEF full, c, n, f
<1>5. CASE full
  <2>1. c \in Nat /\ c <= MostBuckets /\ (n > 0 => c > n)
    BY <1>1, <1>2, <1>3, <1>5 DEF f
  <2>2. /\ Resettled(Rehashed(tb, c), tb)
        /\ Rehashed(tb, c).n >= c /\ Rehashed(tb, c).n >= f /\ Rehashed(tb, c).n >= 8
    BY <2>1, RehashedFacts DEF f
  <2>3. Rehashed(tb, c).n \in Nat
    <3>1. Shaped(Rehashed(tb, c))
      BY <2>2 DEF Resettled, Sound, Chained
    <3> QED
      BY <3>1, ShapeFacts
  <2>4. f < Rehashed(tb, c).n
    <3> DEFINE h == Rehashed(tb, c).n
    <3>1. h \in Nat /\ h >= c /\ h >= 8
      BY <2>2, <2>3
    <3> HIDE DEF h
    <3>2. f < h
      BY <1>1, <2>1, <3>1
    <3> QED
      BY <3>2 DEF h
  <2> QED
    BY <1>4, <1>5, <2>2, <2>4 DEF f
<1>6. CASE ~ full
  <2>1. f < n
    BY <1>1, <1>2, <1>6
  <2>2. Sound(tb)
    BY <1>1, <2>1
  <2> QED
    BY <1>4, <1>6, <2>1, <2>2 DEF Resettled, f, n
<1> QED
  BY <1>5, <1>6

(* reserve().                                                              *)
LEMMA ReservedFacts ==
  ASSUME ChainedAssumption, NEW tb, Good(tb), NEW n \in Nat, n <= MostBuckets
  PROVE  Reserved(tb, n) = tb \/ Resettled(Reserved(tb, n), tb)
<1>1. Resettled(Rehashed(tb, n), tb)
  BY RehashedFacts
<1> QED
  BY <1>1 DEF Reserved

LEMMA EmplacedFacts ==
  ASSUME ChainedAssumption, NEW tb, Good(tb), 8 * (tb.filled + 1) <= MostBuckets, NEW k \in Keys, NEW v \in Values
  PROVE  Inserts(Emplaced(tb, k, v), tb, k, v)
<1> DEFINE g == GrownFor(tb, 1)
           res == InsertKv(g, k, v)
<1>1. Sound(g) /\ Held(g) = Held(tb) /\ g.filled = tb.filled /\ g.filled < g.n
  BY GrownFacts DEF Resettled
<1>2. res = Emplaced(tb, k, v)
  BY DEF Emplaced
<1> HIDE DEF g
<1>3. Inserts(res, g, k, v)
  BY <1>1, InsertKvFacts
<1> HIDE DEF res
<1>4. Inserts(res, tb, k, v)
  BY <1>1, <1>3 DEF Inserts
<1> QED
  BY <1>2, <1>4

(* insert_or_assign() puts its value where the key is.                     *)
Others(tb, k) == {x \in Held(tb) : x[1] # k}

LEMMA RevaluedFacts ==
  ASSUME ChainedAssumption, NEW tb, Sound(tb), NEW i \in Occupied(tb), NEW v \in Values
  PROVE  /\ Sound([tb EXCEPT !.slot[i].v = v]) /\ [tb EXCEPT !.slot[i].v = v].filled = tb.filled
         /\ Held([tb EXCEPT !.slot[i].v = v]) = Others(tb, tb.slot[i].k) \cup {<<tb.slot[i].k, v>>}
<1> DEFINE e == Node(tb.slot[i].k, v, NextBucket(tb, i))
           u == [tb EXCEPT !.slot[i] = e]
           O == Occupied(tb)
<1>1. Chained(tb) /\ Shaped(tb) /\ KeyedOnce(tb) /\ Linked(Occupied(tb), Mains(tb), Nexts(tb))
  BY DEF Sound, Chained
<1>2. /\ i \in 0 .. tb.n - 1 /\ tb.slot[i] \in ChNodes(tb.n) /\ tb.n \in Nat
      /\ O = {j \in 0 .. tb.n - 1 : tb.slot[j] # Free} /\ NextBucket(tb, i) \in 0 .. tb.n - 1
      /\ e \in ChNodes(tb.n) /\ e # Free
  BY <1>1, ShapeFacts
<1>3. [tb EXCEPT !.slot[i].v = v] = u
  <2>1. [tb.slot[i] EXCEPT !.v = v] = e
    BY <1>2 DEF ChNodes, Node, NextBucket
  <2>2. tb \in ChShape(tb.n)
    BY <1>1 DEF Shaped
  <2>3. [tb EXCEPT !.slot[i].v = v] = [tb EXCEPT !.slot[i] = [tb.slot[i] EXCEPT !.v = v]]
    BY <2>2 DEF ChShape
  <2> QED
    BY <2>1, <2>3
<1>4. e.k = tb.slot[i].k /\ e.v = v /\ e.nx = NextBucket(tb, i)
  BY DEF Node
<1> HIDE DEF e
<1>5. Alters(u, tb, tb.filled, tb.last) /\ \A j \in 0 .. tb.n - 1 : u.slot[j] = IF j = i THEN e ELSE tb.slot[j]
  BY <1>1, <1>2, SlotFacts
<1> HIDE DEF u
<1>6. Shaped(u) /\ u.n = tb.n /\ u.filled = tb.filled
  BY <1>5 DEF Alters
<1>7. Occupied(u) = O
  <2>1. Occupied(u) = {j \in 0 .. tb.n - 1 : u.slot[j] # Free}
    BY <1>6, ShapeFacts
  <2> QED
    BY <1>2, <1>5, <2>1
<1>8. /\ \A j \in O : u.slot[j].k = tb.slot[j].k /\ NextBucket(u, j) = NextBucket(tb, j)
      /\ \A j \in O : Elem(u, j) = IF j = i THEN <<tb.slot[i].k, v>> ELSE Elem(tb, j)
  BY <1>2, <1>4, <1>5 DEF NextBucket, Elem
<1>9. KeyedOnce(u)
  BY <1>1, <1>7, <1>8 DEF KeyedOnce
<1>10. Mains(u) = Mains(tb) /\ Nexts(u) = Nexts(tb)
  BY <1>6, <1>7, <1>8 DEF Mains, Nexts, MainBucket, KeyToBucket
<1>11. Sound(u)
  BY <1>1, <1>6, <1>7, <1>9, <1>10 DEF Sound, Chained
<1>12. Held(u) = Others(tb, tb.slot[i].k) \cup {<<tb.slot[i].k, v>>}
  <2>1. \A j \in O : tb.slot[j].k = tb.slot[i].k <=> j = i
    BY <1>1 DEF KeyedOnce
  <2>2. \A j \in O : Elem(tb, j)[1] = tb.slot[j].k
    BY DEF Elem
  <2>3. \A x : x \in Others(tb, tb.slot[i].k) <=> \E j \in O : j # i /\ x = Elem(tb, j)
    BY <2>1, <2>2 DEF Others, Held
  <2>4. \A x : x \in Held(u) <=> \E j \in O : x = Elem(u, j)
    BY <1>7 DEF Held
  <2> QED
    BY <1>8, <2>3, <2>4
<1> QED
  BY <1>3, <1>6, <1>11, <1>12

Assigns(res, tb, k, v) ==
  /\ Sound(res.tb) /\ res.tb.filled \in {tb.filled, tb.filled + 1}
  /\ Held(res.tb) = Others(tb, k) \cup {<<k, v>>}

LEMMA AssignedFacts ==
  ASSUME ChainedAssumption, NEW tb, Good(tb), 8 * (tb.filled + 1) <= MostBuckets, NEW k \in Keys, NEW v \in Values
  PROVE  Assigns(Assigned(tb, k, v), tb, k, v)
<1> DEFINE res == Emplaced(tb, k, v)
           u == res.tb
           w == [u EXCEPT !.slot[res.pos].v = v]
           a == Assigned(tb, k, v)
<1>1. a = WithValue(res, v)
  BY DEF Assigned
<1>0. res = [tb |-> u, pos |-> res.pos, inserted |-> res.inserted]
  BY DEF Emplaced, InsertKv, FoundOrPlaced
<1>2. Inserts(res, tb, k, v)
  BY EmplacedFacts
<1> HIDE DEF res
<1>3. Sound(u) /\ res.pos \in Occupied(u) /\ u.slot[res.pos].k = k
  BY <1>2 DEF Inserts
<1>4. CASE res.inserted
  <2>1. a.tb = u
    BY <1>1, <1>4 DEF WithValue
  <2>2. /\ k \notin KeysOf(Held(tb)) /\ u.filled = tb.filled + 1 /\ Held(u) = Held(tb) \cup {<<k, v>>}
    BY <1>2, <1>4 DEF Inserts
  <2>3. Others(tb, k) = Held(tb)
    BY <2>2 DEF Others, KeysOf
  <2> HIDE DEF a, u
  <2>4. Assigns(a, tb, k, v)
    BY <1>3, <2>1, <2>2, <2>3 DEF Assigns
  <2> QED
    BY <2>4 DEF a
<1>5. CASE ~ res.inserted
  <2>1. a = [res EXCEPT !.tb = w]
    <3>1. a = [res EXCEPT !.tb.slot[res.pos].v = v]
      BY <1>1, <1>5 DEF WithValue
    <3> HIDE DEF a
    <3> QED
      BY <1>0, <3>1
  <2>2. a.tb = w
    BY <1>0, <2>1
  <2>3. u.filled = tb.filled /\ Held(u) = Held(tb)
    BY <1>2, <1>5 DEF Inserts
  <2> DEFINE i == res.pos
  <2> HIDE DEF u, i
  <2>4. /\ Sound(w) /\ w.filled = u.filled
        /\ Held(w) = Others(u, u.slot[i].k) \cup {<<u.slot[i].k, v>>}
    BY <1>3, RevaluedFacts DEF i
  <2>5. Held(w) = Others(tb, k) \cup {<<k, v>>}
    BY <1>3, <2>3, <2>4 DEF Others, i
  <2> HIDE DEF a, w
  <2>6. Assigns(a, tb, k, v)
    BY <2>2, <2>3, <2>4, <2>5 DEF Assigns
  <2> QED
    BY <2>6 DEF a
<1> QED
  BY <1>4, <1>5

-----------------------------------------------------------------------------
(* Calls with several elements.                                            *)

LEMMA HeldType ==
  ASSUME ChainedAssumption, NEW tb, Good(tb)
  PROVE  Held(tb) \subseteq Elements /\ Keyed(Held(tb))
<1>1. KeyedOnce(tb) /\ \A i \in Occupied(tb) : tb.slot[i].k \in Keys /\ tb.slot[i].v \in Values
  BY GoodFacts
<1>2. \A i \in Occupied(tb) : Elem(tb, i) \in Elements /\ Elem(tb, i)[1] = tb.slot[i].k
  BY <1>1 DEF Elem, Elements
<1>3. Keyed(Held(tb))
  BY <1>1, <1>2 DEF Held, Keyed, KeyedOnce
<1> QED
  BY <1>2, <1>3 DEF Held

(* insert() of a list: the table after its first i elements.               *)
Ranged(u, tb, n, i) ==
  u \in ChShape(n) /\ Sound(u) /\ u.n = n /\ u.filled <= tb.filled + i /\ Held(tb) \subseteq Held(u)

LEMMA RangeStepFacts ==
  ASSUME ChainedAssumption, NEW tb, Good(tb), NEW n \in Nat, NEW l \in Nat, tb.filled + l <= n, NEW i \in 1 .. l,
         NEW u, Ranged(u, tb, n, i - 1), NEW k \in Keys, NEW v \in Values
  PROVE  Ranged(InsertKv(u, k, v).tb, tb, n, i)
<1> DEFINE res == InsertKv(u, k, v)
           w == res.tb
<1>1. Sound(u) /\ Shaped(u) /\ u.n = n /\ u.filled <= tb.filled + (i - 1) /\ Held(tb) \subseteq Held(u)
  BY DEF Ranged, Sound, Chained
<1>2. u.filled \in Nat /\ tb.filled \in Nat
  BY <1>1, ShapeFacts, GoodFacts
<1>3. u.filled < u.n
  BY <1>1, <1>2
<1>4. Inserts(res, u, k, v) /\ res.tb.n = u.n
  BY <1>1, <1>3, InsertKvFacts
<1> HIDE DEF res
<1>5. Sound(w) /\ w.n = n /\ w.filled \in {u.filled, u.filled + 1} /\ Held(u) \subseteq Held(w)
  BY <1>1, <1>4 DEF Inserts
<1>6. w \in ChShape(n)
  BY <1>5 DEF Sound, Chained, Shaped
<1> HIDE DEF w
<1>7. w.filled <= tb.filled + i
  BY <1>1, <1>2, <1>5
<1>8. Ranged(w, tb, n, i)
  BY <1>1, <1>5, <1>6, <1>7 DEF Ranged
<1> QED
  BY <1>8 DEF w, res

LEMMA InsertedRangeFacts ==
  ASSUME ChainedAssumption, NEW tb, Good(tb), NEW s \in Seq(Elements), 8 * (tb.filled + Len(s)) <= MostBuckets,
         tb.filled + Len(s) <= GrownFor(tb, Len(s)).n
  PROVE  Sound(InsertedRange(tb, s)) /\ Held(tb) \subseteq Held(InsertedRange(tb, s))
<1> DEFINE N == Len(s)
           u0 == GrownFor(tb, Len(s))
           n == u0.n
           U == ChShape(n)
           Inv == [i \in 0 .. N |-> {u \in U : Ranged(u, tb, n, i)}]
           step == [i \in 1 .. N |-> [u \in U |-> InsertKv(u, s[i][1], s[i][2]).tb]]
           Is(f) == f = [i \in 0 .. N |-> IF i = 0 THEN u0 ELSE InsertKv(f[i - 1], s[i][1], s[i][2]).tb]
           m == RangeInserts(tb, s)
<1>1. N \in Nat
  OBVIOUS
<1>2. \A u, i : Ranged(u, tb, n, i) => u \in U
  BY DEF Ranged
<1>3. m = CHOOSE g : Is(g)
  BY DEF RangeInserts
<1>4. Ranged(u0, tb, n, 0) /\ n \in Nat /\ tb.filled + N <= n
  <2>1. Resettled(u0, tb)
    BY GrownFacts
  <2> HIDE DEF u0
  <2>2. Sound(u0) /\ Shaped(u0) /\ Held(u0) = Held(tb) /\ u0.filled = tb.filled
    BY <2>1 DEF Resettled, Sound, Chained
  <2>3. n \in Nat /\ u0.filled <= tb.filled + 0
    BY <2>2, ShapeFacts
  <2> QED
    BY <2>2, <2>3 DEF Ranged, Shaped, u0
<1>5. \A i \in 1 .. N : s[i][1] \in Keys /\ s[i][2] \in Values
  BY DEF Elements
<1> HIDE DEF U, u0, n, m
<1>6. ASSUME NEW i \in 1 .. N, NEW u, Ranged(u, tb, n, i - 1)
      PROVE  Ranged(InsertKv(u, s[i][1], s[i][2]).tb, tb, n, i)
  <2> DEFINE k == s[i][1]
             v == s[i][2]
  <2>1. k \in Keys /\ v \in Values
    BY <1>5
  <2> HIDE DEF k, v
  <2>2. Ranged(InsertKv(u, k, v).tb, tb, n, i)
    BY <1>1, <1>4, <1>6, <2>1, RangeStepFacts
  <2> QED
    BY <2>2 DEF k, v
<1>7. Leads(step, Inv, N)
  <2> SUFFICES ASSUME NEW i \in 1 .. N, NEW u \in Inv[i - 1] PROVE step[i][u] \in Inv[i]
    BY DEF Leads
  <2>1. i - 1 \in 0 .. N /\ i \in 0 .. N
    BY <1>1
  <2>2. Ranged(u, tb, n, i - 1) /\ u \in U
    BY <2>1
  <2>4. Ranged(InsertKv(u, s[i][1], s[i][2]).tb, tb, n, i)
    BY <1>6, <2>2
  <2> QED
    BY <1>2, <2>1, <2>2, <2>4
<1>8. u0 \in Inv[0]
  BY <1>1, <1>2, <1>4
<1>9. PICK f : Walks(f, u0, step, Inv, N)
  <2> HIDE DEF Inv, step, N
  <2> QED
    BY <1>1, <1>7, <1>8, WalkExists
<1>10. Is(f)
  <2>1. ASSUME NEW i \in 0 .. N PROVE f[i] = IF i = 0 THEN u0 ELSE InsertKv(f[i - 1], s[i][1], s[i][2]).tb
    <3>1. CASE i = 0
      BY <1>9, <3>1 DEF Walks
    <3>2. CASE i # 0
      <4>1. i \in 1 .. N /\ i - 1 \in 0 .. N
        BY <1>1, <3>2
      <4>2. f[i] = step[i][f[i - 1]] /\ f[i - 1] \in Inv[i - 1]
        BY <1>9, <4>1 DEF Walks
      <4>3. f[i - 1] \in U
        BY <4>1, <4>2
      <4> QED
        BY <3>2, <4>1, <4>2, <4>3
    <3> QED
      BY <3>1, <3>2
  <2> QED
    BY <1>9, <2>1 DEF Walks
<1>11. Is(m)
  <2> HIDE DEF Is
  <2> QED
    BY <1>3, <1>10
<1>12. m[0] = u0 /\ \A i \in 1 .. N : m[i] = InsertKv(m[i - 1], s[i][1], s[i][2]).tb
  BY <1>1, <1>11
<1> HIDE DEF Is
<1>13. \A i \in 0 .. N : m[i] \in Inv[i]
  <2>1. m[0] \in Inv[0]
    BY <1>8, <1>12
  <2>2. \A i \in 1 .. N : m[i - 1] \in Inv[i - 1] => m[i] \in Inv[i]
    <3> SUFFICES ASSUME NEW i \in 1 .. N, m[i - 1] \in Inv[i - 1] PROVE m[i] \in Inv[i]
      OBVIOUS
    <3>1. i - 1 \in 0 .. N /\ i \in 0 .. N
      BY <1>1
    <3>2. Ranged(m[i - 1], tb, n, i - 1)
      BY <3>1
    <3>3. Ranged(m[i], tb, n, i)
      BY <1>6, <1>12, <3>2
    <3> QED
      BY <1>2, <3>1, <3>3
  <2> HIDE DEF Inv
  <2> QED
    BY <1>1, <2>1, <2>2, StaysIn
<1>14. Ranged(m[N], tb, n, N)
  BY <1>1, <1>13
<1> QED
  BY <1>14 DEF Ranged, InsertedRange, m

(* The constructors: the table after the first i elements of the list.     *)
Tables == {NoTable} \cup UNION {ChShape(n) : n \in BucketCounts}

LEMMA GoodTable ==
  ASSUME NEW tb, Good(tb)
  PROVE  tb \in Tables
  BY DEF Good, Tables, Sound, Chained, Shaped

Built(u, i) == u \in Tables /\ Sound(u) /\ u.filled <= i

LEMMA BuildStepFacts ==
  ASSUME ChainedAssumption, NEW i \in Nat, i > 0, 8 * i <= MostBuckets, NEW u, Built(u, i - 1),
         NEW k \in Keys, NEW v \in Values
  PROVE  Built(Emplaced(u, k, v).tb, i)
<1> DEFINE res == Emplaced(u, k, v)
           w == res.tb
<1>1. Good(u) /\ u.filled <= i - 1
  BY DEF Built, Good
<1>2. u.filled \in Nat /\ MostBuckets \in Nat
  BY <1>1, GoodFacts, Capacities
<1>3. 8 * (u.filled + 1) <= MostBuckets
  BY <1>1, <1>2
<1>4. Inserts(res, u, k, v)
  BY <1>1, <1>3, EmplacedFacts
<1> HIDE DEF res
<1>5. Sound(w) /\ w.filled \in {u.filled, u.filled + 1}
  BY <1>4 DEF Inserts
<1> HIDE DEF w
<1>6. w.filled <= i /\ w \in Tables
  BY <1>1, <1>2, <1>5, GoodTable DEF Good
<1>7. Built(w, i)
  BY <1>5, <1>6 DEF Built
<1> QED
  BY <1>7 DEF w, res

LEMMA ConstructedFacts ==
  ASSUME ChainedAssumption, NEW s \in Seq(Elements), 16 * (Len(s) + 1) <= MostBuckets
  PROVE  Sound(Constructed(s)) /\ Constructed(s).filled <= Len(s)
<1> DEFINE N == Len(s)
           x0 == IF Len(s) > 8 THEN Len(s) ELSE 8
           u0 == Reserved(NoTable, IF Len(s) > 8 THEN Len(s) ELSE 8)
           Inv == [i \in 0 .. N |-> {u \in Tables : Built(u, i)}]
           step == [i \in 1 .. N |-> [u \in Tables |-> Emplaced(u, s[i][1], s[i][2]).tb]]
           Is(f) == f = [i \in 0 .. N |-> IF i = 0 THEN u0 ELSE Emplaced(f[i - 1], s[i][1], s[i][2]).tb]
           m == Emplacements(s)
<1>1. N \in Nat /\ MostBuckets \in Nat
  BY Capacities
<1>2. \A u, i : Built(u, i) => u \in Tables
  BY DEF Built
<1>3. m = CHOOSE g : Is(g)
  BY DEF Emplacements
<1>4. Built(u0, 0)
  <2>1. Good(NoTable) /\ NoTable.n = 0 /\ NoTable.filled = 0
    BY NoTableFacts DEF Good
  <2>2. x0 \in Nat /\ x0 >= 8 /\ x0 <= MostBuckets
    BY <1>1
  <2>3. u0 = Reserved(NoTable, x0)
    OBVIOUS
  <2> HIDE DEF x0, u0
  <2>4. u0 = Rehashed(NoTable, x0)
    BY <2>1, <2>2, <2>3 DEF Reserved, LoadFactor
  <2>5. Resettled(u0, NoTable)
    BY <2>1, <2>2, <2>4, RehashedFacts
  <2>6. Sound(u0) /\ u0.filled <= 0
    BY <2>1, <2>5 DEF Resettled
  <2> QED
    BY <2>6, GoodTable DEF Built, Good
<1>5. \A i \in 1 .. N : s[i][1] \in Keys /\ s[i][2] \in Values
  BY DEF Elements
<1> HIDE DEF u0, m
<1>6. ASSUME NEW i \in 1 .. N, NEW u, Built(u, i - 1)
      PROVE  Built(Emplaced(u, s[i][1], s[i][2]).tb, i)
  <2> DEFINE k == s[i][1]
             v == s[i][2]
  <2>1. k \in Keys /\ v \in Values /\ i \in Nat /\ i > 0 /\ 8 * i <= MostBuckets
    BY <1>1, <1>5
  <2> HIDE DEF k, v
  <2>2. Built(Emplaced(u, k, v).tb, i)
    BY <1>6, <2>1, BuildStepFacts
  <2> QED
    BY <2>2 DEF k, v
<1>7. Leads(step, Inv, N)
  <2> SUFFICES ASSUME NEW i \in 1 .. N, NEW u \in Inv[i - 1] PROVE step[i][u] \in Inv[i]
    BY DEF Leads
  <2>1. i - 1 \in 0 .. N /\ i \in 0 .. N
    BY <1>1
  <2>2. Built(u, i - 1) /\ u \in Tables
    BY <2>1
  <2>4. Built(Emplaced(u, s[i][1], s[i][2]).tb, i)
    BY <1>6, <2>2
  <2> QED
    BY <1>2, <2>1, <2>2, <2>4
<1>8. u0 \in Inv[0]
  BY <1>1, <1>2, <1>4
<1>9. PICK f : Walks(f, u0, step, Inv, N)
  <2> HIDE DEF Inv, step, N
  <2> QED
    BY <1>1, <1>7, <1>8, WalkExists
<1>10. Is(f)
  <2>1. ASSUME NEW i \in 0 .. N PROVE f[i] = IF i = 0 THEN u0 ELSE Emplaced(f[i - 1], s[i][1], s[i][2]).tb
    <3>1. CASE i = 0
      BY <1>9, <3>1 DEF Walks
    <3>2. CASE i # 0
      <4>1. i \in 1 .. N /\ i - 1 \in 0 .. N
        BY <1>1, <3>2
      <4>2. f[i] = step[i][f[i - 1]] /\ f[i - 1] \in Inv[i - 1]
        BY <1>9, <4>1 DEF Walks
      <4>3. f[i - 1] \in Tables
        BY <4>1, <4>2
      <4> QED
        BY <3>2, <4>1, <4>2, <4>3
    <3> QED
      BY <3>1, <3>2
  <2> QED
    BY <1>9, <2>1 DEF Walks
<1>11. Is(m)
  <2> HIDE DEF Is
  <2> QED
    BY <1>3, <1>10
<1>12. m[0] = u0 /\ \A i \in 1 .. N : m[i] = Emplaced(m[i - 1], s[i][1], s[i][2]).tb
  BY <1>1, <1>11
<1> HIDE DEF Is
<1>13. \A i \in 0 .. N : m[i] \in Inv[i]
  <2>1. m[0] \in Inv[0]
    BY <1>8, <1>12
  <2>2. \A i \in 1 .. N : m[i - 1] \in Inv[i - 1] => m[i] \in Inv[i]
    <3> SUFFICES ASSUME NEW i \in 1 .. N, m[i - 1] \in Inv[i - 1] PROVE m[i] \in Inv[i]
      OBVIOUS
    <3>1. i - 1 \in 0 .. N /\ i \in 0 .. N
      BY <1>1
    <3>2. Built(m[i - 1], i - 1)
      BY <3>1
    <3>3. Built(m[i], i)
      BY <1>6, <1>12, <3>2
    <3> QED
      BY <1>2, <3>1, <3>3
  <2> HIDE DEF Inv
  <2> QED
    BY <1>1, <2>1, <2>2, StaysIn
<1>14. Built(m[N], N)
  BY <1>1, <1>13
<1> QED
  BY <1>14 DEF Built, Constructed, m

-----------------------------------------------------------------------------
(* merge().                                                                *)

(* The two tables, t and f at the start, after r rounds: what the second   *)
(* has lost is in the first, and what it keeps in front of the iterator    *)
(* has a key of t.                                                         *)
Merging(x, t, f, r) ==
  /\ x \in [to : Tables, from : Tables, at : 0 .. f.n]
  /\ Good(x.to) /\ Good(x.from) /\ x.from.n = f.n
  /\ x.to.filled + x.from.filled <= t.filled + f.filled /\ x.from.filled <= f.filled
  /\ Held(x.from) \subseteq Held(f)
  /\ Held(x.to) = Held(t) \cup (Held(f) \ Held(x.from))
  /\ \A y \in Held(f) \ Held(x.from) : y[1] \notin KeysOf(Held(t))
  /\ \A j \in Occupied(x.from) : j < x.at => x.from.slot[j].k \in KeysOf(Held(t))
  /\ x.at # f.n => x.at \in Occupied(x.from) /\ (f.n - x.at) + x.from.filled + r <= f.n + f.filled

(* A key that is already there: the round goes on to the next element.     *)
LEMMA MergeSkips ==
  ASSUME ChainedAssumption, NEW t, NEW f, Good(t), Good(f), NEW r \in Nat, r > 0, NEW x, Merging(x, t, f, r - 1),
         x.at # f.n, NEW to, Good(to), to.filled = x.to.filled, Held(to) = Held(x.to),
         x.from.slot[x.at].k \in KeysOf(Held(x.to)),
         NEW y, y = [to |-> to, from |-> x.from, at |-> FindNextBucket(x.from, x.at)]
  PROVE  Merging(y, t, f, r)
<1> DEFINE u == x.from
           i == x.at
           c == FindNextBucket(u, i)
<1>1. /\ Good(u) /\ u.n = f.n /\ x.to.filled + u.filled <= t.filled + f.filled /\ u.filled <= f.filled
      /\ Held(u) \subseteq Held(f) /\ Held(x.to) = Held(t) \cup (Held(f) \ Held(u))
      /\ \A z \in Held(f) \ Held(u) : z[1] \notin KeysOf(Held(t))
      /\ \A j \in Occupied(u) : j < i => u.slot[j].k \in KeysOf(Held(t))
      /\ i \in Occupied(u) /\ (f.n - i) + u.filled + (r - 1) <= f.n + f.filled
  BY DEF Merging
<1>2. f.n \in Nat /\ f.filled \in Nat /\ u.filled \in Nat /\ Sound(u) /\ i \in 0 .. f.n - 1
  <2>1. f.n \in Nat /\ f.filled \in Nat /\ u.filled \in Nat
    BY <1>1, GoodFacts
  <2>2. i \in 0 .. u.n - 1 /\ (u.n # 0 => Sound(u))
    BY <1>1, GoodFacts
  <2>3. u.n # 0
    BY <1>1, <2>1, <2>2
  <2> QED
    BY <1>1, <2>1, <2>2, <2>3
<1>3. Comes(u, i, c)
  <2>1. Shaped(u)
    BY <1>2 DEF Sound, Chained
  <2>2. i \in -1 .. u.n - 1
    BY <1>1, <1>2
  <2> HIDE DEF u, i
  <2> QED
    BY <2>1, <2>2, NextFacts
<1>4. y.to = to /\ y.from = u /\ y.at = c
  OBVIOUS
<1>5. u.slot[i].k \in KeysOf(Held(t))
  <2>1. PICK z \in Held(x.to) : z[1] = u.slot[i].k
    BY DEF KeysOf
  <2>2. Elem(u, i) \in Held(u) /\ Elem(u, i)[1] = u.slot[i].k
    BY <1>1 DEF Held, Elem
  <2>3. Keyed(Held(f))
    BY HeldType
  <2>4. z \in Held(t)
    <3> SUFFICES ASSUME z \in Held(f) \ Held(u) PROVE FALSE
      BY <1>1, <2>1
    <3>1. z = Elem(u, i)
      BY <1>1, <2>1, <2>2, <2>3 DEF Keyed
    <3> QED
      BY <2>2, <3>1
  <2> QED
    BY <2>1, <2>4 DEF KeysOf
<1> HIDE DEF c
<1>6. c \in i + 1 .. f.n /\ (c # f.n => c \in Occupied(u)) /\ \A j \in Occupied(u) : j > i => j >= c
  BY <1>1, <1>3 DEF Comes
<1>7. \A j \in Occupied(u) : j \in 0 .. f.n - 1
  BY <1>1, GoodFacts
<1> HIDE DEF u, i
<1>8. \A j \in Occupied(u) : j < c => u.slot[j].k \in KeysOf(Held(t))
  <2> SUFFICES ASSUME NEW j \in Occupied(u), j < c PROVE u.slot[j].k \in KeysOf(Held(t))
    OBVIOUS
  <2>1. j < i \/ j = i
    BY <1>2, <1>6, <1>7
  <2> QED
    BY <1>1, <1>5, <2>1
<1>9. c \in 0 .. f.n /\ (f.n - c) + u.filled + r <= f.n + f.filled
  BY <1>1, <1>2, <1>6
<1>10. y \in [to : Tables, from : Tables, at : 0 .. f.n]
  BY <1>1, <1>4, <1>9, GoodTable DEF c, u, i
<1> QED
  BY <1>1, <1>4, <1>6, <1>8, <1>9, <1>10 DEF Merging

(* A new one: the other table loses it.                                    *)
LEMMA MergeTakes ==
  ASSUME ChainedAssumption, NEW t, NEW f, Good(t), Good(f), NEW r \in Nat, r > 0, NEW x, Merging(x, t, f, r - 1),
         x.at # f.n, NEW to, Good(to), to.filled = x.to.filled + 1, Held(to) = Held(x.to) \cup {Elem(x.from, x.at)},
         x.from.slot[x.at].k \notin KeysOf(Held(x.to)),
         NEW y, y = [to |-> to, from |-> ErasedAt(x.from, x.at).tb, at |-> ErasedAt(x.from, x.at).at]
  PROVE  Merging(y, t, f, r)
<1> DEFINE u == x.from
           i == x.at
           w == ErasedAt(u, i).tb
           c == ErasedAt(u, i).at
<1>1. /\ Good(u) /\ u.n = f.n /\ x.to.filled + u.filled <= t.filled + f.filled /\ u.filled <= f.filled
      /\ Held(u) \subseteq Held(f) /\ Held(x.to) = Held(t) \cup (Held(f) \ Held(u))
      /\ \A z \in Held(f) \ Held(u) : z[1] \notin KeysOf(Held(t))
      /\ \A j \in Occupied(u) : j < i => u.slot[j].k \in KeysOf(Held(t))
      /\ i \in Occupied(u) /\ (f.n - i) + u.filled + (r - 1) <= f.n + f.filled
  BY DEF Merging
<1>2. f.n \in Nat /\ f.filled \in Nat /\ u.filled \in Nat /\ Sound(u) /\ i \in 0 .. f.n - 1
  <2>1. f.n \in Nat /\ f.filled \in Nat /\ u.filled \in Nat
    BY <1>1, GoodFacts
  <2>2. i \in 0 .. u.n - 1 /\ (u.n # 0 => Sound(u))
    BY <1>1, GoodFacts
  <2>3. u.n # 0
    BY <1>1, <2>1, <2>2
  <2> QED
    BY <1>1, <2>1, <2>2, <2>3
<1>3. y.to = to /\ y.from = w /\ y.at = c
  OBVIOUS
<1>4. /\ Drops(w, u, i) /\ c \in i .. u.n /\ (c # u.n => c \in Occupied(w))
      /\ \A j \in Occupied(w) : j >= i => j >= c
  <2> HIDE DEF u, i
  <2> QED
    BY <1>1, <1>2, ErasedAtFacts
<1>5. t.filled \in Nat /\ x.to.filled \in Nat /\ w.filled \in Nat /\ Good(w) /\ \A j \in Occupied(w) : j \in 0 .. f.n - 1
  <2>1. Good(x.to)
    BY DEF Merging
  <2>2. Good(w) /\ w.n = f.n
    BY <1>1, <1>4 DEF Drops, Good
  <2> HIDE DEF w
  <2> QED
    BY <2>1, <2>2, GoodFacts
<1> HIDE DEF u, i, w, c
<1>6. /\ w.n = f.n /\ w.filled = u.filled - 1 /\ Held(w) = Held(u) \ {Elem(u, i)}
      /\ Occupied(w) \subseteq Occupied(u) /\ \A j \in Occupied(w) : j # i => w.slot[j].k = u.slot[j].k
  BY <1>1, <1>4 DEF Drops, SameAt
<1>7. Elem(u, i) \in Held(u) /\ Elem(u, i)[1] = u.slot[i].k
  BY <1>1 DEF Held, Elem
<1>8. Held(to) = Held(t) \cup (Held(f) \ Held(w))
  BY <1>1, <1>6, <1>7 DEF u, i
<1>9. \A z \in Held(f) \ Held(w) : z[1] \notin KeysOf(Held(t))
  <2>1. u.slot[i].k \notin KeysOf(Held(t))
    BY <1>1 DEF KeysOf, u, i
  <2> QED
    BY <1>1, <1>6, <1>7, <2>1
<1>10. \A j \in Occupied(w) : j < c => w.slot[j].k \in KeysOf(Held(t))
  <2> SUFFICES ASSUME NEW j \in Occupied(w), j < c PROVE w.slot[j].k \in KeysOf(Held(t))
    OBVIOUS
  <2>1. j < i
    <3>0. c \in Int /\ j \in Int
      <4>1. c \in i .. f.n /\ i \in Int /\ f.n \in Int
        BY <1>1, <1>2, <1>4
      <4> QED
        BY <1>2, <1>5, <4>1
    <3>1. ~ (j >= c)
      BY <3>0
    <3>2. ~ (j >= i)
      BY <1>4, <3>1
    <3> QED
      BY <1>2, <1>5, <3>2
  <2>2. j # i /\ j \in Occupied(u)
    BY <1>2, <1>5, <1>6, <2>1
  <2> QED
    BY <1>1, <1>6, <2>1, <2>2
<1>11. c \in 0 .. f.n /\ (f.n - c) + w.filled + r <= f.n + f.filled
  BY <1>1, <1>2, <1>4, <1>6
<1>12. to.filled + w.filled <= t.filled + f.filled /\ w.filled <= f.filled /\ Held(w) \subseteq Held(f)
  BY <1>1, <1>2, <1>5, <1>6
<1>13. y \in [to : Tables, from : Tables, at : 0 .. f.n]
  BY <1>3, <1>5, <1>11, GoodTable DEF w, c, u, i
<1>14. y.at # f.n => y.at \in Occupied(y.from)
  BY <1>1, <1>3, <1>4
<1> QED
  BY <1>3, <1>5, <1>6, <1>8, <1>9, <1>10, <1>11, <1>12, <1>13, <1>14 DEF Merging

LEMMA MergeOneFacts ==
  ASSUME ChainedAssumption, NEW t, NEW f, Good(t), Good(f), 8 * (t.filled + f.filled) <= MostBuckets,
         NEW r \in Nat, r > 0, NEW x, Merging(x, t, f, r - 1)
  PROVE  Merging(MergeOne(x), t, f, r)
<1> DEFINE u == x.from
           i == x.at
           e == u.slot[i]
           res == Emplaced(x.to, e.k, e.v)
           gone == ErasedAt(u, i)
           next == [tb |-> u, at |-> FindNextBucket(u, i)]
           rest == IF res.inserted THEN gone ELSE next
           y == MergeOne(x)
<1>1. y = IF i >= u.n THEN x ELSE [to |-> res.tb, from |-> rest.tb, at |-> rest.at]
  BY DEF MergeOne
<1>2. /\ Good(x.to) /\ Good(u) /\ u.n = f.n /\ i \in 0 .. f.n
      /\ x.to.filled + u.filled <= t.filled + f.filled
      /\ i # f.n => i \in Occupied(u)
  BY DEF Merging
<1>3. /\ f.n \in Nat /\ t.filled \in Nat /\ f.filled \in Nat /\ u.filled \in Nat /\ x.to.filled \in Nat
      /\ u.filled = Cardinality(Occupied(u)) /\ IsFiniteSet(Occupied(u)) /\ MostBuckets \in Nat
      /\ \A j \in Occupied(u) : u.slot[j].k \in Keys /\ u.slot[j].v \in Values
  BY <1>2, GoodFacts, Capacities
<1>4. CASE i = f.n
  <2>1. y = x
    BY <1>1, <1>2, <1>3, <1>4
  <2>2. Merging(x, t, f, r)
    BY <1>4 DEF Merging
  <2> QED
    BY <2>1, <2>2
<1>5. CASE i # f.n
  <2>1. i \in Occupied(u) /\ ~ (i >= u.n)
    BY <1>2, <1>3, <1>5
  <2>2. y = [to |-> res.tb, from |-> rest.tb, at |-> rest.at]
    BY <1>1, <2>1
  <2>3. e.k \in Keys /\ e.v \in Values
    BY <1>3, <2>1
  <2>4. 8 * (x.to.filled + 1) <= MostBuckets
    <3>1. u.filled # 0
      BY <1>3, <2>1, FS_EmptySet
    <3> QED
      BY <1>2, <1>3, <3>1
  <2>5. Inserts(res, x.to, e.k, e.v)
    <3> DEFINE k == e.k
               v == e.v
    <3>1. k \in Keys /\ v \in Values
      BY <2>3
    <3> HIDE DEF k, v
    <3>2. Inserts(Emplaced(x.to, k, v), x.to, k, v)
      BY <1>2, <2>4, <3>1, EmplacedFacts
    <3> QED
      BY <3>2 DEF k, v
  <2>6. CASE res.inserted
    <3>1. rest = gone
      BY <2>6
    <3>2. y = [to |-> res.tb, from |-> gone.tb, at |-> gone.at]
      BY <2>2, <3>1
    <3> HIDE DEF y, res, rest
    <3>3. /\ Good(res.tb) /\ res.tb.filled = x.to.filled + 1 /\ e.k \notin KeysOf(Held(x.to))
          /\ Held(res.tb) = Held(x.to) \cup {Elem(u, i)}
      BY <2>5, <2>6 DEF Inserts, Good, Elem
    <3>4. Merging(y, t, f, r)
      BY <1>5, <3>2, <3>3, MergeTakes
    <3> QED
      BY <3>4 DEF y
  <2>7. CASE ~ res.inserted
    <3>1. rest = next
      BY <2>7
    <3>2. y = [to |-> res.tb, from |-> u, at |-> FindNextBucket(u, i)]
      BY <2>2, <3>1
    <3> HIDE DEF y, res, rest
    <3>3. /\ Good(res.tb) /\ res.tb.filled = x.to.filled /\ e.k \in KeysOf(Held(x.to))
          /\ Held(res.tb) = Held(x.to)
      BY <2>5, <2>7 DEF Inserts, Good
    <3>4. Merging(y, t, f, r)
      BY <1>5, <3>2, <3>3, MergeSkips
    <3> QED
      BY <3>4 DEF y
  <2> QED
    BY <2>6, <2>7
<1> QED
  BY <1>4, <1>5

LEMMA MergeStartFacts ==
  ASSUME ChainedAssumption, NEW t, NEW f, Good(t), Good(f), 8 * (t.filled + f.filled) <= MostBuckets
  PROVE  Merging([to |-> Reserved(t, t.filled + f.filled), from |-> f, at |-> FindFirstBucket(f)], t, f, 0)
<1> DEFINE x == [to |-> Reserved(t, t.filled + f.filled), from |-> f, at |-> FindFirstBucket(f)]
           to == Reserved(t, t.filled + f.filled)
           c == FindFirstBucket(f)
<1>1. /\ t.filled \in Nat /\ f.filled \in Nat /\ f.n \in Nat /\ MostBuckets \in Nat
      /\ \A j \in Occupied(f) : j \in 0 .. f.n - 1
  BY GoodFacts, Capacities
<1>2. Good(to) /\ to.filled = t.filled /\ Held(to) = Held(t)
  <2> DEFINE n == t.filled + f.filled
  <2>1. n \in Nat /\ n <= MostBuckets
    BY <1>1
  <2> HIDE DEF n
  <2>2. Reserved(t, n) = t \/ Resettled(Reserved(t, n), t)
    BY <2>1, ReservedFacts
  <2> QED
    BY <2>2 DEF Resettled, Good, n
<1>3. c \in 0 .. f.n /\ (c # f.n => c \in Occupied(f)) /\ \A j \in Occupied(f) : j >= c
  <2>1. CASE f = NoTable
    <3>1. f.n = 0 /\ Occupied(f) = {}
      BY <2>1, NoTableFacts
    <3> DEFINE S == {j \in -1 + 1 .. f.n : j = f.n \/ ~ IsEmpty(f, j)}
    <3>2. S = {0}
      BY <3>1
    <3>3. c = FirstOf(S)
      BY DEF FindFirstBucket, FindNextBucket
    <3> HIDE DEF S
    <3>4. c \in S
      BY <3>2, <3>3, FirstOne
    <3> QED
      BY <3>1, <3>2, <3>4
  <2>2. CASE Sound(f)
    <3>1. -1 \in -1 .. f.n - 1 /\ Shaped(f)
      BY <1>1, <2>2 DEF Sound, Chained
    <3>2. Comes(f, -1, c)
      BY <3>1, NextFacts DEF FindFirstBucket
    <3> HIDE DEF c
    <3> QED
      BY <1>1, <3>2 DEF Comes
  <2> QED
    BY <2>1, <2>2 DEF Good
<1>4. x.to = to /\ x.from = f /\ x.at = c
  OBVIOUS
<1>5. x \in [to : Tables, from : Tables, at : 0 .. f.n]
  BY <1>2, <1>3, GoodTable
<1> HIDE DEF x, to, c
<1>6. \A j \in Occupied(f) : ~ (j < c)
  BY <1>1, <1>3
<1>7. (f.n - c) + f.filled + 0 <= f.n + f.filled /\ to.filled + f.filled <= t.filled + f.filled
  BY <1>1, <1>2, <1>3
<1>8. Merging(x, t, f, 0)
  BY <1>1, <1>2, <1>3, <1>4, <1>5, <1>6, <1>7 DEF Merging
<1> QED
  BY <1>8 DEF x

LEMMA MergeRoundsFacts ==
  ASSUME ChainedAssumption, NEW t, NEW f, Good(t), Good(f), 8 * (t.filled + f.filled) <= MostBuckets
  PROVE  \A r \in 0 .. f.n + f.filled : Merging(MergeRounds(t, f)[r], t, f, r)
<1> DEFINE N == f.n + f.filled
           U == [to : Tables, from : Tables, at : 0 .. f.n]
           f0 == [to |-> Reserved(t, t.filled + f.filled), from |-> f, at |-> FindFirstBucket(f)]
           Inv == [r \in 0 .. N |-> {x \in U : Merging(x, t, f, r)}]
           step == [r \in 1 .. N |-> [x \in U |-> MergeOne(x)]]
           Is(g) == g = [r \in 0 .. N |-> IF r = 0 THEN f0 ELSE MergeOne(g[r - 1])]
           m == MergeRounds(t, f)
<1>1. N \in Nat
  BY GoodFacts
<1>2. \A x, r : Merging(x, t, f, r) => x \in U
  BY DEF Merging
<1>3. m = CHOOSE g : Is(g)
  BY DEF MergeRounds
<1>4. Merging(f0, t, f, 0)
  BY MergeStartFacts
<1> HIDE DEF U, f0, m, N
<1>6. ASSUME NEW r \in 1 .. N, NEW x, Merging(x, t, f, r - 1)
      PROVE  Merging(MergeOne(x), t, f, r)
  <2>1. r \in Nat /\ r > 0
    BY <1>1
  <2> QED
    BY <1>6, <2>1, MergeOneFacts
<1>7. Leads(step, Inv, N)
  <2> SUFFICES ASSUME NEW r \in 1 .. N, NEW x \in Inv[r - 1] PROVE step[r][x] \in Inv[r]
    BY DEF Leads
  <2>1. r - 1 \in 0 .. N /\ r \in 0 .. N
    BY <1>1
  <2>2. Merging(x, t, f, r - 1) /\ x \in U
    BY <2>1
  <2>4. Merging(MergeOne(x), t, f, r)
    BY <1>6, <2>2
  <2> QED
    BY <1>2, <2>1, <2>2, <2>4
<1>8. f0 \in Inv[0]
  BY <1>1, <1>2, <1>4
<1>9. PICK g : Walks(g, f0, step, Inv, N)
  <2> HIDE DEF Inv, step
  <2> QED
    BY <1>1, <1>7, <1>8, WalkExists
<1>10. Is(g)
  <2>1. ASSUME NEW r \in 0 .. N PROVE g[r] = IF r = 0 THEN f0 ELSE MergeOne(g[r - 1])
    <3>1. CASE r = 0
      BY <1>9, <3>1 DEF Walks
    <3>2. CASE r # 0
      <4>1. r \in 1 .. N /\ r - 1 \in 0 .. N
        BY <1>1, <3>2
      <4>2. g[r] = step[r][g[r - 1]] /\ g[r - 1] \in Inv[r - 1]
        BY <1>9, <4>1 DEF Walks
      <4>3. g[r - 1] \in U
        BY <4>1, <4>2
      <4> QED
        BY <3>2, <4>1, <4>2, <4>3
    <3> QED
      BY <3>1, <3>2
  <2> QED
    BY <1>9, <2>1 DEF Walks
<1>11. Is(m)
  <2> HIDE DEF Is
  <2>1. m = CHOOSE x : Is(x)
    BY <1>3
  <2> QED
    BY <1>10, <2>1
<1>12. m[0] = f0 /\ \A r \in 1 .. N : m[r] = MergeOne(m[r - 1])
  BY <1>1, <1>11
<1> HIDE DEF Is
<1>13. \A r \in 0 .. N : m[r] \in Inv[r]
  <2>1. m[0] \in Inv[0]
    BY <1>8, <1>12
  <2>2. \A r \in 1 .. N : m[r - 1] \in Inv[r - 1] => m[r] \in Inv[r]
    <3> SUFFICES ASSUME NEW r \in 1 .. N, m[r - 1] \in Inv[r - 1] PROVE m[r] \in Inv[r]
      OBVIOUS
    <3>1. r - 1 \in 0 .. N /\ r \in 0 .. N
      BY <1>1
    <3>2. Merging(m[r - 1], t, f, r - 1)
      BY <3>1
    <3>3. Merging(m[r], t, f, r)
      BY <1>6, <1>12, <3>2
    <3> QED
      BY <1>2, <3>1, <3>3
  <2> HIDE DEF Inv
  <2> QED
    BY <1>1, <2>1, <2>2, StaysIn
<1> QED
  BY <1>13 DEF m, N

(* What merge() leaves in the other table are the elements whose keys are  *)
(* in this one.                                                            *)
Shared(t, f) == {y \in Held(f) : y[1] \in KeysOf(Held(t))}

LEMMA MergedFacts ==
  ASSUME ChainedAssumption, NEW t, NEW f, Good(t), Good(f), 8 * (t.filled + f.filled) <= MostBuckets
  PROVE  /\ Good(Merged(t, f).to) /\ Good(Merged(t, f).from) /\ Merged(t, f).from.filled <= f.filled
         /\ Held(Merged(t, f).from) = Shared(t, f)
         /\ Held(Merged(t, f).to) = Held(t) \cup (Held(f) \ Shared(t, f))
<1> DEFINE N == f.n + f.filled
           x == Merged(t, f)
<1>1. f.n \in Nat /\ f.filled \in Nat
  BY GoodFacts
<1>2. N \in 0 .. N
  BY <1>1
<1>3. Merging(MergeRounds(t, f)[N], t, f, N)
  BY <1>2, MergeRoundsFacts
<1>4. Merging(x, t, f, N)
  BY <1>3 DEF Merged
<1> HIDE DEF x
<1>5. /\ Good(x.to) /\ Good(x.from) /\ x.from.n = f.n /\ x.from.filled <= f.filled
      /\ Held(x.from) \subseteq Held(f)
      /\ Held(x.to) = Held(t) \cup (Held(f) \ Held(x.from))
      /\ \A y \in Held(f) \ Held(x.from) : y[1] \notin KeysOf(Held(t))
      /\ \A j \in Occupied(x.from) : j < x.at => x.from.slot[j].k \in KeysOf(Held(t))
      /\ x.at \in 0 .. f.n
      /\ x.at # f.n => x.at \in Occupied(x.from) /\ (f.n - x.at) + x.from.filled + N <= N
  BY <1>4 DEF Merging
<1>6. x.from.filled \in Nat /\ \A j \in Occupied(x.from) : j \in 0 .. f.n - 1
  BY <1>5, GoodFacts
<1>7. x.at = f.n
  BY <1>1, <1>5, <1>6
<1>8. \A j \in Occupied(x.from) : x.from.slot[j].k \in KeysOf(Held(t))
  BY <1>1, <1>5, <1>6, <1>7
<1>9. \A y \in Held(x.from) : y[1] \in KeysOf(Held(t))
  BY <1>8 DEF Held, Elem
<1>10. Held(x.from) = Shared(t, f)
  BY <1>5, <1>9 DEF Shared
<1> QED
  BY <1>5, <1>10 DEF x

-----------------------------------------------------------------------------
(* The client.                                                             *)

Growable(tb) == 16 * (tb.filled + 1) <= MostBuckets

(* The inductive invariant.                                                *)
ChInv == Good(tab) /\ Good(tab_other) /\ Growable(tab) /\ Growable(tab_other)

(* A table that can grow has room for one element more.                    *)
LEMMA GrowableFacts ==
  ASSUME ChainedAssumption, NEW tb, Good(tb), Growable(tb)
  PROVE  8 * (tb.filled + 1) <= MostBuckets
<1>1. tb.filled \in Nat /\ MostBuckets \in Nat
  BY GoodFacts, Capacities
<1> QED
  BY <1>1 DEF Growable

(* So can two of them together.                                            *)
LEMMA GrowableBoth ==
  ASSUME ChainedAssumption, NEW t, Good(t), Growable(t), NEW f, Good(f), Growable(f)
  PROVE  8 * (t.filled + f.filled) <= MostBuckets
<1>1. t.filled \in Nat /\ f.filled \in Nat /\ MostBuckets \in Nat
  BY GoodFacts, Capacities
<1> QED
  BY <1>1 DEF Growable

(* Every call leaves a table, with or without a loss: emplace, ...         *)
LEMMA EmplacedGood ==
  ASSUME ChainedAssumption, NEW tb, Good(tb), Growable(tb), NEW k \in Keys, NEW v \in Values
  PROVE  /\ Inserts(Emplaced(tb, k, v), tb, k, v) /\ Good(Emplaced(tb, k, v).tb)
         /\ Assigns(Assigned(tb, k, v), tb, k, v) /\ Good(Assigned(tb, k, v).tb)
<1>1. 8 * (tb.filled + 1) <= MostBuckets
  BY GrowableFacts
<1>2. Inserts(Emplaced(tb, k, v), tb, k, v)
  BY <1>1, EmplacedFacts
<1>3. Assigns(Assigned(tb, k, v), tb, k, v)
  BY <1>1, AssignedFacts
<1> QED
  BY <1>2, <1>3 DEF Inserts, Assigns, Good

(* ... insert() of a range, ...                                            *)
LEMMA InsertedRangeGood ==
  ASSUME ChainedAssumption, NEW tb, Good(tb), Growable(tb), NEW s \in Ranges,
         tb.filled + Len(s) <= GrownFor(tb, Len(s)).n
  PROVE  Good(InsertedRange(tb, s)) /\ Held(tb) \subseteq Held(InsertedRange(tb, s))
<1>1. s \in Seq(Elements) /\ 16 * (Len(s) + 1) <= MostBuckets /\ Len(s) \in Nat
  BY DEF ChainedAssumption
<1>2. tb.filled \in Nat /\ MostBuckets \in Nat
  BY GoodFacts, Capacities
<1>3. 8 * (tb.filled + Len(s)) <= MostBuckets
  BY <1>1, <1>2 DEF Growable
<1> QED
  BY <1>1, <1>3, InsertedRangeFacts DEF Good

(* ... erase() of a key ...                                                *)
LEMMA ErasedGood ==
  ASSUME ChainedAssumption, NEW tb, Good(tb), NEW k \in Keys
  PROVE  Good(Erased(tb, k)) /\ Held(Erased(tb, k)) = Others(tb, k)
<1>1. CASE tb = NoTable
  <2>1. tb.n = 0 /\ Held(tb) = {}
    BY <1>1, NoTableFacts
  <2>2. Erased(tb, k) = tb
    BY <2>1 DEF Erased
  <2>3. Others(tb, k) = {}
    BY <2>1 DEF Others
  <2> QED
    BY <2>1, <2>2, <2>3
<1>2. CASE Sound(tb)
  <2>1. CASE Erased(tb, k) = tb /\ ~ HasKey(tb, k)
    <3>1. k \notin KeysOf(Held(tb))
      BY <2>1, HeldKeys
    <3>2. Others(tb, k) = Held(tb)
      BY <3>1 DEF Others, KeysOf
    <3> QED
      BY <2>1, <3>2
  <2>2. ASSUME NEW i \in Occupied(tb), tb.slot[i].k = k, Drops(Erased(tb, k), tb, i)
        PROVE  Good(Erased(tb, k)) /\ Held(Erased(tb, k)) = Others(tb, k)
    <3>1. Held(Erased(tb, k)) = Held(tb) \ {Elem(tb, i)} /\ Good(Erased(tb, k))
      BY <2>2 DEF Drops, Good
    <3>2. Keyed(Held(tb)) /\ Elem(tb, i) \in Held(tb) /\ Elem(tb, i)[1] = k
      BY <2>2, HeldType DEF Held, Elem
    <3>3. \A x \in Held(tb) : x[1] = k <=> x = Elem(tb, i)
      BY <3>2 DEF Keyed
    <3>4. Held(tb) \ {Elem(tb, i)} = Others(tb, k)
      BY <3>3 DEF Others
    <3> QED
      BY <3>1, <3>4
  <2> QED
    BY <1>2, <2>1, <2>2, ErasedFacts
<1> QED
  BY <1>1, <1>2 DEF Good

(* ... and of an iterator, ...                                             *)
LEMMA ErasedAtGood ==
  ASSUME ChainedAssumption, NEW tb, Good(tb), NEW i \in Occupied(tb) \cup {tb.n}
  PROVE  /\ Good(ErasedAt(tb, i).tb) /\ Held(ErasedAt(tb, i).tb) \subseteq Held(tb)
         /\ i # tb.n => Drops(ErasedAt(tb, i).tb, tb, i)
<1>1. tb.n \in Nat /\ Occupied(tb) \subseteq 0 .. tb.n - 1 /\ (tb.n # 0 => Sound(tb))
  BY GoodFacts
<1>2. CASE i = tb.n
  <2>1. ErasedAt(tb, i).tb = tb
    BY <1>1, <1>2 DEF ErasedAt
  <2> QED
    BY <1>2, <2>1
<1>3. CASE i # tb.n
  <2>1. i \in Occupied(tb) /\ Sound(tb)
    BY <1>1, <1>3
  <2>2. Drops(ErasedAt(tb, i).tb, tb, i)
    BY <2>1, ErasedAtFacts
  <2> QED
    BY <2>2 DEF Drops, Good
<1> QED
  BY <1>2, <1>3

(* ... the loop to the end, ...                                            *)
LEMMA ErasedFromGood ==
  ASSUME ChainedAssumption, NEW tb, Good(tb)
  PROVE  /\ Good(ErasedFrom(tb, FindFirstBucket(tb)))
         /\ Held(ErasedFrom(tb, FindFirstBucket(tb))) \subseteq Held(tb)
<1> DEFINE i0 == FindFirstBucket(tb)
<1>1. CASE tb = NoTable
  <2>1. tb.filled = 0
    BY <1>1, NoTableFacts
  <2> DEFINE start == [tb |-> tb, at |-> i0]
             Is(f) == f = [r \in 0 .. tb.filled |-> IF r = 0 THEN start ELSE ErasedAt(f[r - 1].tb, f[r - 1].at)]
             g == [r \in 0 .. 0 |-> start]
  <2> HIDE DEF start, i0
  <2>2. Is(g)
    <3>1. \A r \in 0 .. 0 : r = 0
      OBVIOUS
    <3>2. 0 .. tb.filled = 0 .. 0
      BY <2>1
    <3> QED
      BY <3>1, <3>2
  <2> HIDE DEF g
  <2>3. EraseRounds(tb, i0) = CHOOSE f : Is(f)
    BY DEF EraseRounds, start
  <2>4. Is(EraseRounds(tb, i0))
    BY <2>2, <2>3
  <2>5. EraseRounds(tb, i0)[0] = start
    <3>1. 0 \in 0 .. tb.filled
      BY <2>1
    <3> QED
      BY <2>4, <3>1
  <2>6. ErasedFrom(tb, i0) = tb
    BY <2>1, <2>5 DEF ErasedFrom, start
  <2> QED
    BY <2>6 DEF i0
<1>2. CASE Sound(tb)
  BY <1>2, ErasedFromFacts DEF Good
<1> QED
  BY <1>1, <1>2 DEF Good

(* ... clear(), ...                                                        *)
LEMMA ClearedGood ==
  ASSUME ChainedAssumption, NEW tb, Good(tb)
  PROVE  Good(Cleared(tb)) /\ Held(Cleared(tb)) = {}
<1>1. CASE tb = NoTable
  <2>1. Cleared(tb) = NoTable
    BY <1>1, NoTableFacts DEF Cleared, NoTable
  <2> QED
    BY <2>1, NoTableFacts DEF Good
<1>2. CASE Sound(tb)
  <2>1. tb.n \in BucketCounts
    BY <1>2 DEF Sound, Chained, Shaped
  <2> QED
    BY <2>1, EmptyTableFacts DEF Cleared, Good
<1> QED
  BY <1>1, <1>2 DEF Good

(* ... rehash() and reserve(), ...                                         *)
LEMMA RehashedGood ==
  ASSUME ChainedAssumption, NEW tb, Good(tb), NEW n \in Sizes
  PROVE  /\ Good(Rehashed(tb, n)) /\ Held(Rehashed(tb, n)) = Held(tb)
         /\ Good(Reserved(tb, n)) /\ Held(Reserved(tb, n)) = Held(tb)
<1>1. n \in Nat /\ n <= MostBuckets
  <2>1. n \in Nat /\ 2 * n <= MostBuckets /\ MostBuckets \in Nat
    BY Capacities DEF ChainedAssumption
  <2> QED
    BY <2>1
<1>2. Resettled(Rehashed(tb, n), tb)
  BY <1>1, RehashedFacts
<1>3. Reserved(tb, n) = tb \/ Resettled(Reserved(tb, n), tb)
  BY <1>1, ReservedFacts
<1> QED
  BY <1>2, <1>3 DEF Resettled, Good

(* ... the constructors, ...                                               *)
LEMMA ConstructedGood ==
  ASSUME ChainedAssumption, NEW s \in Initials \cup Ranges
  PROVE  Good(Constructed(s)) /\ Growable(Constructed(s))
<1>1. s \in Seq(Elements) /\ 16 * (Len(s) + 1) <= MostBuckets /\ Len(s) \in Nat
  BY DEF ChainedAssumption
<1> DEFINE f == Constructed(s).filled
<1>2. Sound(Constructed(s)) /\ f <= Len(s)
  BY <1>1, ConstructedFacts
<1>3. Good(Constructed(s))
  BY <1>2 DEF Good
<1>4. f \in Nat /\ MostBuckets \in Nat
  BY <1>3, GoodFacts, Capacities
<1> HIDE DEF f
<1>5. 16 * (f + 1) <= MostBuckets
  BY <1>1, <1>2, <1>4
<1> QED
  BY <1>3, <1>5 DEF Growable, f

(* ... and a move.                                                         *)
LEMMA NoTableGood ==
  ASSUME ChainedAssumption
  PROVE  Good(NoTable) /\ Growable(NoTable)
<1>1. 16 <= MostBuckets
  <2>1. MaxBuckets \in Nat /\ 16 * (MaxBuckets + 1) <= MostBuckets /\ MostBuckets \in Nat
    BY Capacities DEF ChainedAssumption
  <2> QED
    BY <2>1
<1>2. 16 * (NoTable.filled + 1) <= MostBuckets
  BY <1>1, NoTableFacts
<1> QED
  BY <1>2 DEF Good, Growable

(* Both tables of a merge are tables, and the other one is no larger.      *)
LEMMA MergedGood ==
  ASSUME ChainedAssumption, NEW t, Good(t), Growable(t), NEW f, Good(f), Growable(f)
  PROVE  /\ Good(Merged(t, f).to) /\ Good(Merged(t, f).from) /\ Growable(Merged(t, f).from)
         /\ Held(Merged(t, f).from) = Shared(t, f)
         /\ Held(Merged(t, f).to) = Held(t) \cup (Held(f) \ Shared(t, f))
<1> DEFINE b == Merged(t, f)
<1>1. 8 * (t.filled + f.filled) <= MostBuckets
  BY GrowableBoth
<1>2. /\ Good(b.to) /\ Good(b.from) /\ b.from.filled <= f.filled
      /\ Held(b.from) = Shared(t, f) /\ Held(b.to) = Held(t) \cup (Held(f) \ Shared(t, f))
  BY <1>1, MergedFacts
<1> HIDE DEF b
<1>3. b.from.filled \in Nat /\ f.filled \in Nat /\ MostBuckets \in Nat
  BY <1>2, GoodFacts, Capacities
<1>4. Growable(b.from)
  BY <1>2, <1>3 DEF Growable
<1> QED
  BY <1>2, <1>4 DEF b

(* The client bounds the tables it works with.                             *)
LEMMA FitsGrowable ==
  ASSUME ChainedAssumption, NEW u, Good(u), Fits(u)
  PROVE  Growable(u)
<1>1. u.filled \in Nat /\ u.n \in Nat /\ u.filled <= u.n /\ MostBuckets \in Nat
  BY GoodFacts, Capacities
<1>2. u.n <= MaxBuckets /\ MaxBuckets \in Nat /\ 16 * (MaxBuckets + 1) <= MostBuckets
  BY DEF Fits, ChainedAssumption
<1> QED
  BY <1>1, <1>2 DEF Growable

LEMMA BecomesGood ==
  ASSUME ChainedAssumption, ChInv, NEW u, Good(u), Becomes(u)
  PROVE  ChInv'
<1>1. tab' = u /\ tab_other' = tab_other /\ Fits(u)
  BY DEF Becomes
<1>2. Growable(u)
  BY <1>1, FitsGrowable
<1> QED
  BY <1>1, <1>2 DEF ChInv

(* The tables a client starts with are good ones.                          *)
LEMMA ChInvInit ==
  ASSUME ChainedAssumption, Init
  PROVE  ChInv
<1>1. PICK s \in Initials : tab = Constructed(s)
  BY DEF Init
<1>2. tab_other = NoTable
  BY DEF Init
<1>3. Good(Constructed(s)) /\ Growable(Constructed(s))
  BY ConstructedGood
<1> QED
  BY <1>1, <1>2, <1>3, NoTableGood DEF ChInv

(* Every call keeps them so.                                               *)
LEMMA ChInvStep ==
  ASSUME ChainedAssumption, ChInv, [Next]_vars
  PROVE  ChInv'
<1>0. Good(tab) /\ Good(tab_other) /\ Growable(tab) /\ Growable(tab_other)
  BY DEF ChInv
<1>1. Good(NoTable) /\ Growable(NoTable)
  BY NoTableGood
<1>2. \A k \in Foreground : k \in Keys
  BY DEF Foreground
<1>3. ASSUME NEW k \in Foreground, NEW v \in Values, Emplace(k, v) PROVE ChInv'
  <2>1. Good(Emplaced(tab, k, v).tb)
    BY <1>0, <1>2, EmplacedGood
  <2> QED
    BY <1>3, <2>1, BecomesGood DEF Emplace
<1>4. ASSUME NEW k \in Foreground, NEW v \in Values, InsertOrAssign(k, v) PROVE ChInv'
  <2>1. Good(Assigned(tab, k, v).tb)
    BY <1>0, <1>2, EmplacedGood
  <2> QED
    BY <1>4, <2>1, BecomesGood DEF InsertOrAssign
<1>5. ASSUME NEW s \in Ranges, InsertRange(s) PROVE ChInv'
  <2>1. Good(InsertedRange(tab, s))
    BY <1>0, <1>5, InsertedRangeGood DEF InsertRange
  <2> QED
    BY <1>5, <2>1, BecomesGood DEF InsertRange
<1>6. ASSUME NEW k \in Foreground, EraseKey(k) PROVE ChInv'
  <2>1. Good(Erased(tab, k))
    BY <1>0, <1>2, ErasedGood
  <2> QED
    BY <1>6, <2>1, BecomesGood DEF EraseKey
<1>7. ASSUME NEW i \in Named(tab) \cup {tab.n}, EraseAt(i) PROVE ChInv'
  <2>1. i \in Occupied(tab) \cup {tab.n}
    BY DEF Named
  <2>2. Good(ErasedAt(tab, i).tb)
    BY <1>0, <2>1, ErasedAtGood
  <2> QED
    BY <1>7, <2>2, BecomesGood DEF EraseAt
<1>8. ASSUME EraseRange PROVE ChInv'
  <2>1. Good(ErasedFrom(tab, FindFirstBucket(tab)))
    BY <1>0, ErasedFromGood
  <2> QED
    BY <1>8, <2>1, BecomesGood DEF EraseRange
<1>9. ASSUME Clear PROVE ChInv'
  <2>1. Good(Cleared(tab))
    BY <1>0, ClearedGood
  <2> QED
    BY <1>9, <2>1, BecomesGood DEF Clear
<1>10. ASSUME NEW n \in Sizes, Rehash(n) PROVE ChInv'
  <2>1. Good(Rehashed(tab, n))
    BY <1>0, RehashedGood
  <2> QED
    BY <1>10, <2>1, BecomesGood DEF Rehash
<1>11. ASSUME NEW n \in Sizes, Reserve(n) PROVE ChInv'
  <2>1. Good(Reserved(tab, n))
    BY <1>0, RehashedGood
  <2> QED
    BY <1>11, <2>1, BecomesGood DEF Reserve
<1>12. ASSUME NEW s \in Ranges, Construct(s) PROVE ChInv'
  <2>1. Good(Constructed(s)) /\ Growable(Constructed(s))
    BY ConstructedGood
  <2> QED
    BY <1>0, <1>12, <2>1 DEF Construct, ChInv
<1>13. ASSUME CopyConstruct PROVE ChInv'
  BY <1>0, <1>13 DEF CopyConstruct, ChInv
<1>14. ASSUME MoveConstruct PROVE ChInv'
  BY <1>0, <1>1, <1>14 DEF MoveConstruct, ChInv
<1>15. ASSUME CopyAssign PROVE ChInv'
  BY <1>0, <1>15 DEF CopyAssign, ChInv
<1>16. ASSUME MoveAssign PROVE ChInv'
  BY <1>0, <1>1, <1>16 DEF MoveAssign, ChInv
<1>17. ASSUME Swap PROVE ChInv'
  BY <1>0, <1>17 DEF Swap, ChInv
<1>18. ASSUME Merge PROVE ChInv'
  <2> DEFINE b == Merged(tab, tab_other)
  <2>1. Fits(b.to) /\ tab' = b.to /\ tab_other' = b.from
    BY <1>18 DEF Merge
  <2>2. Good(b.to) /\ Good(b.from) /\ Growable(b.from)
    BY <1>0, MergedGood
  <2> HIDE DEF b
  <2>3. Growable(b.to)
    BY <2>1, <2>2, FitsGrowable
  <2> QED
    BY <2>1, <2>2, <2>3 DEF ChInv
<1>19. ASSUME Destroy PROVE ChInv'
  BY <1>0, <1>1, <1>19 DEF Destroy, ChInv
<1>20. ASSUME UNCHANGED vars PROVE ChInv'
  <2>1. tab' = tab /\ tab_other' = tab_other
    BY <1>20 DEF vars
  <2> QED
    BY <1>0, <2>1 DEF ChInv
<1> QED
  BY <1>3, <1>4, <1>5, <1>6, <1>7, <1>8, <1>9, <1>10, <1>11, <1>12, <1>13, <1>14, <1>15, <1>16, <1>17, <1>18, <1>19, <1>20
     DEF Next

(* The chains of the client's tables are well formed.                      *)
LEMMA ChInvWellFormed ==
  ASSUME ChainedAssumption, ChInv
  PROVE  ChainsWellFormed
  BY SoundWellFormed, NoTableFacts DEF ChInv, Good, ChainsWellFormed

-----------------------------------------------------------------------------
(* The maps that tables hold.                                              *)

(* A table holds the map of its elements.                                  *)
LEMMA ContentFacts ==
  ASSUME ChainedAssumption, NEW tb, Good(tb)
  PROVE  /\ Maps(Content(tb), Held(tb)) /\ Keyed(Held(tb)) /\ Held(tb) \subseteq Elements
         /\ DOMAIN Content(tb) = KeysOf(Held(tb))
<1>1. KeyedOnce(tb) /\ Keyed(Held(tb)) /\ Held(tb) \subseteq Elements
  BY GoodFacts, HeldType
<1>2. KeysOf(Held(tb)) = {tb.slot[i].k : i \in Occupied(tb)}
  <2>1. \A i : Elem(tb, i)[1] = tb.slot[i].k
    BY DEF Elem
  <2>2. ASSUME NEW k PROVE k \in KeysOf(Held(tb)) <=> \E i \in Occupied(tb) : k = tb.slot[i].k
    BY <2>1 DEF KeysOf, Held
  <2> QED
    BY <2>2
<1> DEFINE m == Content(tb)
           V(k) == tb.slot[CHOOSE i \in Occupied(tb) : tb.slot[i].k = k].v
<1>3. m = [k \in KeysOf(Held(tb)) |-> V(k)]
  BY <1>2 DEF Content
<1>4. ASSUME NEW i \in Occupied(tb) PROVE V(tb.slot[i].k) = tb.slot[i].v
  <2> DEFINE j == CHOOSE j \in Occupied(tb) : tb.slot[j].k = tb.slot[i].k
  <2>1. j \in Occupied(tb) /\ tb.slot[j].k = tb.slot[i].k
    OBVIOUS
  <2> HIDE DEF j
  <2>2. j = i
    BY <1>1, <2>1 DEF KeyedOnce
  <2> QED
    BY <2>2 DEF j
<1> HIDE DEF V, m
<1>5. Maps(m, Held(tb))
  <2>1. ASSUME NEW x \in Held(tb) PROVE m[x[1]] = x[2]
    <3>1. PICK i \in Occupied(tb) : x = <<tb.slot[i].k, tb.slot[i].v>>
      BY DEF Held, Elem
    <3>2. x[1] \in KeysOf(Held(tb))
      BY DEF KeysOf
    <3> QED
      BY <1>3, <1>4, <3>1, <3>2
  <2>2. m = [k \in KeysOf(Held(tb)) |-> m[k]]
    BY <1>3
  <2> QED
    BY <2>1, <2>2 DEF Maps
<1>6. DOMAIN m = KeysOf(Held(tb))
  BY <1>3
<1> QED
  BY <1>1, <1>5, <1>6 DEF m

(* A map that holds just the elements of a table is its content.           *)
LEMMA ContentIs ==
  ASSUME ChainedAssumption, NEW u, Good(u), NEW w, Maps(w, Held(u))
  PROVE  Content(u) = w
<1>1. Maps(Content(u), Held(u))
  BY ContentFacts
<1> QED
  BY <1>1, MapsUnique

(* A table of the same elements holds the same map, ...                    *)
LEMMA SameContent ==
  ASSUME ChainedAssumption, NEW tb, Good(tb), NEW u, Good(u), Held(u) = Held(tb)
  PROVE  Content(u) = Content(tb)
<1>1. Maps(Content(tb), Held(u))
  BY ContentFacts
<1> QED
  BY <1>1, ContentIs

(* ... one without the element of a key the map without that key, ...      *)
LEMMA LostContent ==
  ASSUME ChainedAssumption, NEW tb, Good(tb), NEW k, NEW u, Good(u), Held(u) = Others(tb, k)
  PROVE  Content(u) = Without(Content(tb), {k})
<1> DEFINE H == Held(tb)
           G == Held(u)
           m == Content(tb)
<1>1. Maps(m, H) /\ Keyed(H) /\ DOMAIN m = KeysOf(H)
  BY ContentFacts
<1>2. G = {x \in H : x[1] # k}
  BY DEF Others
<1> HIDE DEF H, G, m
<1>3. KeysOf(G) = KeysOf(H) \ {k}
  BY <1>2 DEF KeysOf
<1>4. Maps(Restrict(m, KeysOf(G)), G)
  BY <1>1, <1>2, MapsSome
<1>5. Content(u) = Restrict(m, KeysOf(G))
  BY <1>4, ContentIs DEF G
<1> QED
  BY <1>1, <1>3, <1>5 DEF Without, m

(* ... and one in which a key has a value the map with that value there.   *)
LEMMA PutContent ==
  ASSUME ChainedAssumption, NEW tb, Good(tb), NEW k, NEW v, NEW u, Good(u), Held(u) = Others(tb, k) \cup {<<k, v>>}
  PROVE  Content(u) = Put(Content(tb), k, v)
<1> DEFINE H == Held(tb)
           G == Held(u)
           m == Content(tb)
<1>1. Maps(m, H) /\ Keyed(H) /\ DOMAIN m = KeysOf(H)
  BY ContentFacts
<1>2. G = {x \in H : x[1] # k} \cup {<<k, v>>}
  BY DEF Others
<1> HIDE DEF H, G, m
<1>3. Maps(Put(m, k, v), G)
  <2>1. CASE k \notin KeysOf(H)
    <3>1. G = H \cup {<<k, v>>}
      BY <1>2, <2>1 DEF KeysOf
    <3> QED
      BY <1>1, <2>1, <3>1, MapsAdded
  <2>2. CASE k \in KeysOf(H)
    <3>1. PICK x \in H : x[1] = k
      BY <2>2 DEF KeysOf
    <3>2. {y \in H : y[1] # k} = H \ {x}
      BY <1>1, <3>1 DEF Keyed
    <3>3. G = (H \ {x}) \cup {<<x[1], v>>}
      BY <1>2, <3>1, <3>2
    <3>4. Maps(Put(m, x[1], v), G)
      BY <1>1, <3>3, MapsReplaced
    <3> QED
      BY <3>1, <3>4
  <2> QED
    BY <2>1, <2>2
<1> QED
  BY <1>3, ContentIs DEF G, m

(* emplace() changes the map as it should, ...                             *)
LEMMA EmplacedContent ==
  ASSUME ChainedAssumption, NEW tb, Good(tb), Growable(tb), NEW k \in Keys, NEW v \in Values
  PROVE  /\ Content(Emplaced(tb, k, v).tb) = PutIfAbsent(Content(tb), k, v)
         /\ Emplaced(tb, k, v).inserted <=> k \notin DOMAIN Content(tb)
         /\ Emplaced(tb, k, v).tb.slot[Emplaced(tb, k, v).pos].k = k
<1> DEFINE p == Emplaced(tb, k, v)
           u == p.tb
           H == Held(tb)
           m == Content(tb)
<1>1. Inserts(p, tb, k, v) /\ Good(u)
  BY EmplacedGood
<1>2. Maps(m, H) /\ DOMAIN m = KeysOf(H)
  BY ContentFacts
<1> HIDE DEF p
<1>3. CASE k \in DOMAIN m
  <2>1. Held(u) = H /\ p.inserted = FALSE /\ u.slot[p.pos].k = k
    BY <1>1, <1>2, <1>3 DEF Inserts
  <2>2. Content(u) = m
    BY <1>1, <2>1, SameContent
  <2> QED
    BY <1>3, <2>1, <2>2 DEF PutIfAbsent, p
<1>4. CASE k \notin DOMAIN m
  <2>1. Held(u) = H \cup {<<k, v>>} /\ p.inserted = TRUE /\ u.slot[p.pos].k = k
    BY <1>1, <1>2, <1>4 DEF Inserts
  <2>2. Others(tb, k) = H
    BY <1>2, <1>4 DEF Others, KeysOf
  <2>3. Content(u) = Put(m, k, v)
    BY <1>1, <2>1, <2>2, PutContent
  <2>4. Put(m, k, v) = PutIfAbsent(m, k, v)
    BY <1>4 DEF Put, PutIfAbsent
  <2> QED
    BY <1>4, <2>1, <2>3, <2>4 DEF p
<1> QED
  BY <1>3, <1>4

(* ... insert_or_assign() does, ...                                        *)
LEMMA AssignedContent ==
  ASSUME ChainedAssumption, NEW tb, Good(tb), Growable(tb), NEW k \in Keys, NEW v \in Values
  PROVE  Content(Assigned(tb, k, v).tb) = Put(Content(tb), k, v)
<1> DEFINE u == Assigned(tb, k, v).tb
<1>1. Good(u) /\ Held(u) = Others(tb, k) \cup {<<k, v>>}
  BY EmplacedGood DEF Assigns
<1> HIDE DEF u
<1>2. Content(u) = Put(Content(tb), k, v)
  BY <1>1, PutContent
<1> QED
  BY <1>2 DEF u

(* ... erase() of a key ...                                                *)
LEMMA ErasedContent ==
  ASSUME ChainedAssumption, NEW tb, Good(tb), NEW k \in Keys
  PROVE  Content(Erased(tb, k)) = Without(Content(tb), {k})
  BY ErasedGood, LostContent

(* ... and of an iterator.                                                 *)
LEMMA ErasedAtContent ==
  ASSUME ChainedAssumption, NEW tb, Good(tb), NEW i \in Occupied(tb)
  PROVE  /\ Content(ErasedAt(tb, i).tb) = Without(Content(tb), {tb.slot[i].k})
         /\ ErasedAt(tb, i).at \in Occupied(ErasedAt(tb, i).tb) \cup {tb.n}
<1> DEFINE g == ErasedAt(tb, i)
           k == tb.slot[i].k
<1>1. tb.n \in Nat /\ i \in 0 .. tb.n - 1 /\ (tb.n # 0 => Sound(tb)) /\ k \in Keys
  BY GoodFacts
<1>2. Sound(tb)
  BY <1>1
<1>3. Drops(g.tb, tb, i) /\ (g.at # tb.n => g.at \in Occupied(g.tb))
  BY <1>2, ErasedAtFacts
<1>4. Keyed(Held(tb)) /\ Elem(tb, i) \in Held(tb) /\ Elem(tb, i)[1] = k
  BY HeldType DEF Held, Elem
<1>5. \A x \in Held(tb) : x[1] = k <=> x = Elem(tb, i)
  BY <1>4 DEF Keyed
<1> HIDE DEF g, k
<1>6. Good(g.tb) /\ Held(g.tb) = Others(tb, k)
  BY <1>3, <1>5 DEF Drops, Good, Others
<1>7. Content(g.tb) = Without(Content(tb), {k})
  BY <1>6, LostContent
<1> QED
  BY <1>3, <1>7 DEF g, k

(* The calls on the client's table agree with those on its map.            *)
LEMMA ChInvAgree ==
  ASSUME ChainedAssumption, ChInv
  PROVE  ChainedCallsAgree
<1> DEFINE m == Content(tab)
<1>0. Good(tab) /\ Growable(tab)
  BY DEF ChInv
<1>1. tab.n \in Nat /\ Occupied(tab) \subseteq 0 .. tab.n - 1 /\ (tab.n # 0 => Sound(tab))
  BY <1>0, GoodFacts
<1>2. ASSUME tab.n > 0, NEW k \in Keys PROVE Bucket(tab, k) # tab.n <=> k \in DOMAIN m
  <2>1. Chained(tab)
    BY <1>1, <1>2 DEF Sound
  <2>2. DOMAIN m = KeysOf(Held(tab)) /\ (HasKey(tab, k) <=> k \in KeysOf(Held(tab)))
    BY <1>0, ContentFacts, HeldKeys
  <2>3. CASE Bucket(tab, k) = tab.n /\ ~ HasKey(tab, k)
    BY <2>2, <2>3
  <2>4. CASE Bucket(tab, k) \in Occupied(tab) /\ tab.slot[Bucket(tab, k)].k = k
    <3>1. HasKey(tab, k)
      BY <2>4 DEF HasKey
    <3>2. Bucket(tab, k) # tab.n
      BY <1>1, <2>4
    <3> QED
      BY <2>2, <3>1, <3>2
  <2> QED
    BY <2>1, <2>3, <2>4, BucketFacts
<1>3. ASSUME NEW k \in Foreground PROVE k \in Keys
  BY DEF Foreground
<1>4. ASSUME NEW k \in Foreground PROVE Content(Erased(tab, k)) = Without(m, {k})
  BY <1>0, <1>3, ErasedContent
<1>5. ASSUME NEW k \in Foreground, NEW v \in Values PROVE Content(Assigned(tab, k, v).tb) = Put(m, k, v)
  BY <1>0, <1>3, AssignedContent
<1>6. ASSUME NEW k \in Foreground, NEW v \in Values
      PROVE  \E put \in {Emplaced(tab, k, v)} :
               /\ Content(put.tb) = PutIfAbsent(m, k, v)
               /\ put.inserted <=> k \notin DOMAIN m
               /\ put.tb.slot[put.pos].k = k
  <2> DEFINE put == Emplaced(tab, k, v)
  <2>1. /\ Content(put.tb) = PutIfAbsent(m, k, v)
        /\ put.inserted <=> k \notin DOMAIN m
        /\ put.tb.slot[put.pos].k = k
    BY <1>0, <1>3, EmplacedContent
  <2> HIDE DEF put, m
  <2> QED
    BY <2>1 DEF put
<1>7. ASSUME NEW i \in Named(tab)
      PROVE  \E gone \in {ErasedAt(tab, i)} :
               /\ Content(gone.tb) = Without(m, {tab.slot[i].k})
               /\ gone.at \in Occupied(gone.tb) \cup {tab.n}
  <2> DEFINE gone == ErasedAt(tab, i)
  <2>1. i \in Occupied(tab)
    BY DEF Named
  <2>2. /\ Content(gone.tb) = Without(m, {tab.slot[i].k})
        /\ gone.at \in Occupied(gone.tb) \cup {tab.n}
    BY <1>0, <2>1, ErasedAtContent
  <2> HIDE DEF gone, m
  <2> QED
    BY <2>2 DEF gone
<1>8. ASSUME NEW n \in Sizes PROVE Content(Rehashed(tab, n)) = m
  BY <1>0, RehashedGood, SameContent
<1> HIDE DEF m
<1> QED
  BY <1>2, <1>4, <1>5, <1>6, <1>7, <1>8 DEF ChainedCallsAgree, m

(* The contents of two merged tables.                                      *)
LEMMA MergedContent ==
  ASSUME ChainedAssumption, NEW t, Good(t), Growable(t), NEW f, Good(f), Growable(f)
  PROVE  /\ MergedMaps(Content(t), Content(f), Content(Merged(t, f).to), Content(Merged(t, f).from))
         /\ DOMAIN Content(Merged(t, f).from) = DOMAIN Content(f) \cap DOMAIN Content(t)
<1> DEFINE b == Merged(t, f)
           H == Held(t)
           G == Held(f)
           F == Held(b.from)
<1>1. /\ Good(b.to) /\ Good(b.from) /\ F = Shared(t, f) /\ Held(b.to) = H \cup (G \ Shared(t, f))
  BY MergedGood
<1> HIDE DEF b
<1>2. Maps(Content(t), H) /\ Maps(Content(f), G) /\ Keyed(G)
  BY ContentFacts
<1>3. Maps(Content(b.to), Held(b.to)) /\ Maps(Content(b.from), F)
  BY <1>1, ContentFacts
<1>4. F = {y \in G : y[1] \in KeysOf(H)} /\ Held(b.to) = H \cup (G \ F)
  BY <1>1 DEF Shared
<1>5. Maps(Content(b.to), H \cup (G \ F))
  BY <1>3, <1>4
<1>6. DOMAIN Content(b.from) = KeysOf(F) /\ DOMAIN Content(f) = KeysOf(G) /\ DOMAIN Content(t) = KeysOf(H)
  BY <1>1, ContentFacts
<1> HIDE DEF H, G, F
<1>7. F \subseteq G /\ \A x \in G \ F : x[1] \notin KeysOf(H)
  BY <1>4
<1>8. MergedMaps(Content(t), Content(f), Content(b.to), Content(b.from))
  BY <1>2, <1>3, <1>5, <1>7, MapsOfMerged
<1>9. KeysOf(F) = KeysOf(G) \cap KeysOf(H)
  BY <1>4 DEF KeysOf
<1> QED
  BY <1>6, <1>8, <1>9 DEF b

(* A merge empties the other table, but for the keys of this one.          *)
LEMMA ChInvMerge ==
  ASSUME ChainedAssumption, ChInv
  PROVE  MergeMovesAll
<1> DEFINE b == Merged(tab, tab_other)
           m == Content(tab)
           o == Content(tab_other)
           to == Content(b.to)
           from == Content(b.from)
<1>1. MergedMaps(m, o, to, from) /\ DOMAIN from = DOMAIN o \cap DOMAIN m
  BY MergedContent DEF ChInv
<1> HIDE DEF b, m, o
<1>2. from = LeftBehind(m, o)
  BY <1>1 DEF MergedMaps, LeftBehind
<1>3. Without(o, DOMAIN from) = [k \in DOMAIN o \ DOMAIN m |-> o[k]]
  <2>1. DOMAIN o \cap (DOMAIN o \ DOMAIN from) = DOMAIN o \ DOMAIN m
    BY <1>1
  <2> QED
    BY <1>1, <2>1 DEF Without, Restrict
<1> DEFINE rest == Without(o, DOMAIN from)
<1>4. to = MergedInto(m, rest) /\ DOMAIN rest = DOMAIN o \ DOMAIN m /\ \A k \in DOMAIN rest : rest[k] = o[k]
  BY <1>1, <1>3 DEF MergedMaps
<1> HIDE DEF to, from, rest
<1>5. to = MergedInto(m, o)
  <2>1. DOMAIN m \cup DOMAIN rest = DOMAIN m \cup DOMAIN o
    BY <1>4
  <2>2. \A k \in DOMAIN m \cup DOMAIN o :
          (IF k \in DOMAIN m THEN m[k] ELSE rest[k]) = IF k \in DOMAIN m THEN m[k] ELSE o[k]
    BY <1>4
  <2> QED
    BY <1>4, <2>1, <2>2 DEF MergedInto
<1> QED
  BY <1>2, <1>5 DEF MergeMovesAll, b, m, o, to, from

-----------------------------------------------------------------------------
(* The tables implement maps.                                              *)

(* A table with fewer elements holds what is left of the map, ...          *)
LEMMA RemovedMaps ==
  ASSUME ChainedAssumption, NEW tb, Good(tb), NEW u, Good(u), Held(u) \subseteq Held(tb)
  PROVE  RemoveStep(Content(tb), Content(u))
  BY ContentFacts, MapsRemoved

(* ... and one with more the map and what has come to it.                  *)
LEMMA FilledMaps ==
  ASSUME ChainedAssumption, NEW tb, Good(tb), NEW u, Good(u), Held(tb) \subseteq Held(u)
  PROVE  FillStep(Content(tb), Content(u), Keys, Values)
<1>1. Maps(Content(tb), Held(tb)) /\ Maps(Content(u), Held(u)) /\ Held(u) \subseteq Keys \X Values
  BY ContentFacts DEF Elements
<1> QED
  BY <1>1, MapsFilled

(* Where there is no table there are no keys.                              *)
LEMMA NoneContent ==
  ASSUME ChainedAssumption
  PROVE  Content(NoTable) = NoKeys
<1>1. Good(NoTable) /\ Held(NoTable) = {}
  BY NoTableFacts DEF Good
<1>2. KeysOf({}) = {}
  BY DEF KeysOf
<1>3. Maps(NoKeys, {})
  BY <1>2 DEF Maps, NoKeys
<1> QED
  BY <1>1, <1>3, ContentIs

(* Both maps are maps.                                                     *)
LEMMA ChInvMaps ==
  ASSUME ChainedAssumption, ChInv
  PROVE  MapsIn(Content(tab), Keys, Values) /\ MapsIn(Content(tab_other), Keys, Values)
  BY FilledMaps DEF ChInv, FillStep

(* Every step of the client is one of a map's client, or leaves the maps   *)
(* as they are.                                                            *)
LEMMA ChStepMaps ==
  ASSUME ChainedAssumption, ChInv, ChInv', Next
  PROVE  \/ MapStep(Content(tab), Content(tab_other), Content(tab)', Content(tab_other)', Keys, Values)
         \/ Content(tab)' = Content(tab) /\ Content(tab_other)' = Content(tab_other)
<1> DEFINE a == Content(tab)
           b == Content(tab_other)
           Same == a' = a /\ b' = b
           Done == MapStep(a, b, a', b', Keys, Values) \/ Same
<1>0. Good(tab) /\ Good(tab_other) /\ Growable(tab) /\ Growable(tab_other)
  BY DEF ChInv
<1>1. Good(tab') /\ Good(tab_other')
  BY DEF ChInv
<1>2. a' = Content(tab') /\ b' = Content(tab_other')
  OBVIOUS
<1>3. Content(NoTable) = NoKeys /\ Held(NoTable) = {}
  BY NoneContent, NoTableFacts
<1>4. \A k \in Foreground : k \in Keys
  BY DEF Foreground
<1> HIDE DEF a, b
<1>5. ASSUME NEW u, tab' = u, tab_other' = tab_other PROVE a' = Content(u) /\ b' = b
  BY <1>2, <1>5 DEF b
<1>6. ASSUME NEW k \in Foreground, NEW v \in Values, Emplace(k, v) PROVE Done
  <2> DEFINE u == Emplaced(tab, k, v).tb
  <2>1. Content(u) = PutIfAbsent(a, k, v)
    BY <1>0, <1>4, EmplacedContent DEF a
  <2>2. tab' = u /\ tab_other' = tab_other
    BY <1>6 DEF Emplace, Becomes
  <2> HIDE DEF u
  <2>3. a' = PutIfAbsent(a, k, v) /\ b' = b
    BY <1>5, <2>1, <2>2
  <2>4. PutIfAbsent(a, k, v) = a \/ PutIfAbsent(a, k, v) = Put(a, k, v)
    BY DEF PutIfAbsent, Put
  <2> QED
    BY <1>4, <2>3, <2>4 DEF MapStep, OneStep, PutStep
<1>7. ASSUME NEW k \in Foreground, NEW v \in Values, InsertOrAssign(k, v) PROVE Done
  <2> DEFINE u == Assigned(tab, k, v).tb
  <2>1. Content(u) = Put(a, k, v)
    BY <1>0, <1>4, AssignedContent DEF a
  <2>2. tab' = u /\ tab_other' = tab_other
    BY <1>7 DEF InsertOrAssign, Becomes
  <2> HIDE DEF u
  <2>3. a' = Put(a, k, v) /\ b' = b
    BY <1>5, <2>1, <2>2
  <2> QED
    BY <1>4, <2>3 DEF MapStep, OneStep, PutStep
<1>8. ASSUME Held(tab) \subseteq Held(tab'), tab_other' = tab_other PROVE Done
  <2>1. FillStep(a, Content(tab'), Keys, Values)
    BY <1>0, <1>1, <1>8, FilledMaps DEF a
  <2>2. b' = b
    BY <1>2, <1>8 DEF b
  <2>3. FillStep(a, a', Keys, Values)
    BY <1>2, <2>1
  <2> QED
    BY <2>2, <2>3 DEF MapStep, OneStep
<1>9. ASSUME Held(tab') \subseteq Held(tab), tab_other' = tab_other PROVE Done
  <2>1. RemoveStep(a, Content(tab'))
    BY <1>0, <1>1, <1>9, RemovedMaps DEF a
  <2>2. b' = b
    BY <1>2, <1>9 DEF b
  <2>3. RemoveStep(a, a')
    BY <1>2, <2>1
  <2> QED
    BY <2>2, <2>3 DEF MapStep, OneStep
<1>10. ASSUME NEW s \in Ranges, InsertRange(s) PROVE Done
  <2>1. Held(tab) \subseteq Held(InsertedRange(tab, s))
    BY <1>0, <1>10, InsertedRangeGood DEF InsertRange
  <2> QED
    BY <1>8, <1>10, <2>1 DEF InsertRange, Becomes
<1>11. ASSUME NEW k \in Foreground, EraseKey(k) PROVE Done
  <2>1. Held(Erased(tab, k)) \subseteq Held(tab)
    BY <1>0, <1>4, ErasedGood DEF Others
  <2> QED
    BY <1>9, <1>11, <2>1 DEF EraseKey, Becomes
<1>12. ASSUME NEW i \in Named(tab) \cup {tab.n}, EraseAt(i) PROVE Done
  <2>1. i \in Occupied(tab) \cup {tab.n}
    BY DEF Named
  <2>2. Held(ErasedAt(tab, i).tb) \subseteq Held(tab)
    BY <1>0, <2>1, ErasedAtGood
  <2> QED
    BY <1>9, <1>12, <2>2 DEF EraseAt, Becomes
<1>13. ASSUME EraseRange PROVE Done
  <2>1. Held(ErasedFrom(tab, FindFirstBucket(tab))) \subseteq Held(tab)
    BY <1>0, ErasedFromGood
  <2> QED
    BY <1>9, <1>13, <2>1 DEF EraseRange, Becomes
<1>14. ASSUME Clear PROVE Done
  <2>1. Held(Cleared(tab)) = {}
    BY <1>0, ClearedGood
  <2> QED
    BY <1>9, <1>14, <2>1 DEF Clear, Becomes
<1>15. ASSUME NEW n \in Sizes, Rehash(n) PROVE Done
  <2>1. Held(Rehashed(tab, n)) = Held(tab)
    BY <1>0, RehashedGood
  <2> QED
    BY <1>9, <1>15, <2>1 DEF Rehash, Becomes
<1>16. ASSUME NEW n \in Sizes, Reserve(n) PROVE Done
  <2>1. Held(Reserved(tab, n)) = Held(tab)
    BY <1>0, RehashedGood
  <2> QED
    BY <1>9, <1>16, <2>1 DEF Reserve, Becomes
<1>17. ASSUME NEW s \in Ranges, Construct(s) PROVE Done
  <2>1. tab_other = NoTable /\ tab' = tab
    BY <1>17 DEF Construct
  <2>2. Held(tab_other) = {}
    BY <1>3, <2>1
  <2>3. FillStep(b, Content(tab_other'), Keys, Values)
    BY <1>0, <1>1, <2>2, FilledMaps DEF b
  <2>4. FillStep(b, b', Keys, Values) /\ a' = a
    BY <1>2, <2>1, <2>3 DEF a
  <2> QED
    BY <2>4 DEF MapStep, OneStep
<1>18. ASSUME CopyConstruct PROVE Done
  <2>1. tab_other' = tab /\ tab' = tab
    BY <1>18 DEF CopyConstruct
  <2>2. b' = a /\ a' = a
    BY <1>2, <2>1 DEF a
  <2> QED
    BY <2>2 DEF MapStep
<1>19. ASSUME MoveConstruct PROVE Done
  <2>1. tab_other' = tab /\ tab' = NoTable
    BY <1>19 DEF MoveConstruct
  <2>2. b' = a /\ a' = NoKeys
    BY <1>2, <1>3, <2>1 DEF a
  <2> QED
    BY <2>2 DEF MapStep
<1>20. ASSUME CopyAssign PROVE Done
  <2>1. tab' = tab_other /\ tab_other' = tab_other
    BY <1>20 DEF CopyAssign
  <2>2. a' = b /\ b' = b
    BY <1>2, <2>1 DEF b
  <2> QED
    BY <2>2 DEF MapStep
<1>21. ASSUME MoveAssign PROVE Done
  <2>1. tab' = tab_other /\ tab_other' = NoTable
    BY <1>21 DEF MoveAssign
  <2>2. a' = b /\ b' = NoKeys
    BY <1>2, <1>3, <2>1 DEF b
  <2> QED
    BY <2>2 DEF MapStep
<1>22. ASSUME Swap PROVE Done
  <2>1. tab' = tab_other /\ tab_other' = tab
    BY <1>22 DEF Swap
  <2>2. a' = b /\ b' = a
    BY <1>2, <2>1 DEF a, b
  <2> QED
    BY <2>2 DEF MapStep
<1>23. ASSUME Merge PROVE Done
  <2> DEFINE c == Merged(tab, tab_other)
  <2>1. tab' = c.to /\ tab_other' = c.from
    BY <1>23 DEF Merge
  <2>2. MergedMaps(a, b, Content(c.to), Content(c.from))
    BY <1>0, MergedContent DEF a, b
  <2> HIDE DEF c
  <2>3. MergedMaps(a, b, a', b')
    BY <1>2, <2>1, <2>2
  <2> QED
    BY <2>3 DEF MapStep
<1>24. ASSUME Destroy PROVE Done
  <2>1. tab_other' = NoTable /\ tab' = tab
    BY <1>24 DEF Destroy
  <2>2. Held(tab_other') = {}
    BY <1>3, <2>1
  <2>3. RemoveStep(b, Content(tab_other'))
    BY <1>0, <1>1, <2>2, RemovedMaps DEF b
  <2>4. RemoveStep(b, b') /\ a' = a
    BY <1>2, <2>1, <2>3 DEF a
  <2> QED
    BY <2>4 DEF MapStep, OneStep
<1>25. Done
  <2> HIDE DEF Done
  <2> QED
    BY <1>6, <1>7, <1>10, <1>11, <1>12, <1>13, <1>14, <1>15, <1>16, <1>17, <1>18, <1>19, <1>20, <1>21, <1>22, <1>23, <1>24
       DEF Next
<1> QED
  BY <1>25 DEF a, b
==============================================================================
