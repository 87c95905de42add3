---------------------------- MODULE HlTableProofs ----------------------------
(***************************************************************************)
(* Theorems about HlTable, for every set of keys and values, any homes and *)
(* tags, any group size and scan block that are powers of two.             *)
(*                                                                         *)
(* The argument: the elements of a table are the set HlHeld(tb) of what    *)
(* its occupied buckets hold, each key once, and from the home of every    *)
(* element to the element no bucket is free, except the one hole that a    *)
(* removal leaves while it shifts (Reachable).  The bytes a probe reads,   *)
(* group by group, are those of the buckets from the home bucket on, once  *)
(* round the table, told apart by their distance (ByteTells, GroupOf); so  *)
(* a probe finds a key that is there and, when it is not, a free bucket    *)
(* that keeps the table sound.  Each call is said as what becomes of the   *)
(* elements (Gains, Loses, Replaces, KeepsElements, Includes, Merging):    *)
(* that the table stays sound (HlInv) and that the map it holds changes as *)
(* KeyMap says both follow.                                                *)
(***************************************************************************)
EXTENDS HlTable, SeqsProofs, FiniteSetTheorems

-----------------------------------------------------------------------------
(* Places in a ring of buckets.                                            *)

(* The bucket so many places ahead of one, and how far one is ahead.       *)
Onward(n, i, d) == IF i + d < n THEN i + d ELSE i + d - n

Behind(n, i, j) == IF j <= i THEN i - j ELSE i - j + n

(* They are what the remainders are.                                       *)
LEMMA Wraps ==
  ASSUME NEW n \in Nat, n > 0, NEW i \in 0 .. n - 1
  PROVE  /\ i % n = i
         /\ \A d \in 0 .. n : (i + d) % n = Onward(n, i, d) /\ Onward(n, i, d) \in 0 .. n - 1
         /\ \A j \in 0 .. n - 1 : (i - j) % n = Behind(n, i, j) /\ Behind(n, i, j) \in 0 .. n - 1
<1>1. i % n = i
  OBVIOUS
<1>2. ASSUME NEW d \in 0 .. n PROVE (i + d) % n = Onward(n, i, d) /\ Onward(n, i, d) \in 0 .. n - 1
  <2>1. CASE i + d < n
    BY <2>1 DEF Onward
  <2>2. CASE i + d >= n
    <3>1. i + d - n \in 0 .. n - 1 /\ i + d = n * 1 + (i + d - n) /\ i + d \in Int
      BY <2>2
    <3>2. (i + d) % n = i + d - n
      BY <3>1, DivisionUnique
    <3> QED
      BY <2>2, <3>1, <3>2 DEF Onward
  <2> QED
    BY <2>1, <2>2
<1>3. ASSUME NEW j \in 0 .. n - 1 PROVE (i - j) % n = Behind(n, i, j) /\ Behind(n, i, j) \in 0 .. n - 1
  <2>1. CASE j <= i
    BY <2>1 DEF Behind
  <2>2. CASE j > i
    <3>1. i - j + n \in 0 .. n - 1 /\ i - j = n * (-1) + (i - j + n) /\ i - j \in Int
      BY <2>2
    <3>2. (i - j) % n = i - j + n
      BY <3>1, DivisionUnique
    <3> QED
      BY <2>2, <3>1, <3>2 DEF Behind
  <2> QED
    BY <2>1, <2>2
<1> QED
  BY <1>1, <1>2, <1>3

-----------------------------------------------------------------------------
(* Where the groups of a probe begin.                                      *)

HlGroups == {Powers[e] : e \in 0 .. 30}

GroupStart(n, g, h, j) == (((h - (h % g)) + 2 * g * (j \div 2)) % n) + ((j % 2) * g)

(* The groups follow one another round the table.  One may begin where the *)
(* table ends, but not behind it, unless the table is no larger than one.  *)
LEMMA GroupStarts ==
  ASSUME NEW n \in BucketCounts, NEW g \in HlGroups, NEW h \in 0 .. n - 1, NEW j \in Nat
  PROVE  /\ GroupStart(n, g, h, j) \in Nat
         /\ \E q \in Nat : (h - (h % g)) + j * g = GroupStart(n, g, h, j) + n * q
         /\ n > g => GroupStart(n, g, h, j) <= n
         /\ n <= g => GroupStart(n, g, h, j) \in {0, g}
<1>1. n \in Nat /\ n >= 8
  BY Capacities
<1>2. g \in Nat /\ g > 0
  BY PowersFacts DEF HlGroups
<1> DEFINE p == h \div g
           i == j \div 2
           o == j % 2
           x == (h - (h % g)) + 2 * g * i
           y == x % n
<1>3. p \in Nat /\ h - (h % g) = g * p
  <2>1. h \in Int /\ h >= 0
    BY <1>1
  <2>2. h \div g \in Int /\ h % g \in 0 .. g - 1 /\ h = g * (h \div g) + (h % g)
    BY <1>2, <2>1
  <2> DEFINE r == h % g
             z == g * p
  <2>3. h = z + r /\ r \in 0 .. g - 1 /\ p \in Int /\ z \in Int
    BY <1>2, <2>2
  <2>4. p <= -1 => z <= -g
    BY <1>2, <2>3
  <2>5. p >= 0
    <3> HIDE DEF r, p, z
    <3> QED
      BY <1>2, <2>1, <2>3, <2>4
  <2>6. h - r = z
    <3> HIDE DEF r, p, z
    <3> QED
      BY <1>2, <2>1, <2>3
  <2> QED
    BY <2>3, <2>5, <2>6
<1>4. i \in Nat /\ o \in {0, 1} /\ j = 2 * i + o
  OBVIOUS
<1>5. GroupStart(n, g, h, j) = y + (o * g)
  BY DEF GroupStart
<1> HIDE DEF p, i, o
<1>6. x = g * (p + 2 * i) /\ x \in Nat
  <2>1. 2 * g * i = g * (2 * i) /\ g * p + g * (2 * i) = g * (p + 2 * i)
    BY <1>2, <1>3, <1>4
  <2>2. g * (p + 2 * i) \in Nat
    BY <1>2, <1>3, <1>4
  <2> QED
    BY <1>3, <2>1, <2>2
<1>7. (h - (h % g)) + j * g = x + (o * g)
  <2>1. j * g = 2 * g * i + (o * g)
    BY <1>2, <1>4
  <2>2. 2 * g * i \in Int /\ o * g \in Int /\ h - (h % g) \in Int
    BY <1>2, <1>3, <1>4
  <2> QED
    BY <2>1, <2>2
<1>8. PICK q \in Nat : x = n * q + y /\ y \in 0 .. n - 1
  <2>1. x \div n \in Int /\ y \in 0 .. n - 1 /\ x = n * (x \div n) + y
    <3> HIDE DEF x
    <3> QED
      BY <1>1, <1>6
  <2>2. x \div n >= 0
    <3>1. CASE x \div n <= -1
      <4>1. n * (x \div n) <= -n
        BY <1>1, <2>1, <3>1
      <4> QED
        BY <1>1, <1>6, <2>1, <4>1
    <3> QED
      BY <2>1, <3>1
  <2> HIDE DEF x, y
  <2> QED
    BY <2>1, <2>2
<1> HIDE DEF x, y
<1>9. o * g \in {0, g}
  BY <1>2, <1>4
<1>10. y + (o * g) \in Nat
  BY <1>1, <1>2, <1>8, <1>9
<1>11. (h - (h % g)) + j * g = y + (o * g) + n * q
  <2>1. n * q \in Int
    BY <1>1
  <2> QED
    BY <1>1, <1>2, <1>7, <1>8, <1>9, <2>1
<1>12. PICK e \in 3 .. 30 : n = Powers[e]
  BY DEF BucketCounts
<1>13. PICK f \in 0 .. 30 : g = Powers[f]
  BY DEF HlGroups
<1>14. ASSUME n > g PROVE y + (o * g) <= n
  <2>1. f <= e
    <3>1. CASE e < f
      <4>1. Powers[e] <= Powers[f]
        BY <3>1, PowersOrdered
      <4> QED
        BY <1>1, <1>2, <1>12, <1>13, <1>14, <4>1
    <3> QED
      BY <3>1
  <2>2. PICK m \in Nat \ {0} : n = g * m
    BY <1>12, <1>13, <2>1, PowersMultiple
  <2>3. y = g * ((p + 2 * i) - m * q)
    <3>1. y = x - n * q
      <4>1. n * q \in Int
        BY <1>1
      <4> QED
        BY <1>1, <1>8, <4>1
    <3>2. n * q = g * (m * q)
      BY <1>2, <2>2
    <3>3. m * q \in Int /\ p + 2 * i \in Int
      BY <1>3, <1>4, <2>2
    <3>4. g * (p + 2 * i) - g * (m * q) = g * ((p + 2 * i) - m * q)
      BY <1>2, <3>3
    <3> QED
      BY <1>6, <3>1, <3>2, <3>4
  <2> DEFINE t == (p + 2 * i) - m * q
  <2>4. t \in Int
    <3>1. m * q \in Int
      BY <2>2
    <3> QED
      BY <1>3, <1>4, <3>1
  <2>5. y = g * t
    BY <2>3
  <2> HIDE DEF t
  <2>6. t <= m - 1
    <3>1. CASE t >= m
      <4>1. g * t >= g * m
        BY <1>2, <2>2, <2>4, <3>1
      <4> QED
        BY <1>1, <1>8, <2>2, <2>5, <4>1
    <3> QED
      BY <2>2, <2>4, <3>1
  <2>7. g * t <= g * (m - 1)
    BY <1>2, <2>2, <2>4, <2>6
  <2>8. g * (m - 1) = n - g
    BY <1>2, <2>2
  <2> QED
    BY <1>1, <1>2, <1>8, <1>9, <2>5, <2>7, <2>8
<1>15. ASSUME n <= g PROVE y = 0
  <2>1. e <= f
    <3>1. CASE f < e
      <4>1. 2 * g <= n
        <5>1. PICK m \in Nat \ {0} : n = 2 * (g * m)
          BY <1>12, <1>13, <3>1, PowersTwice
        <5>2. g * m >= g
          BY <1>2
        <5> QED
          BY <1>2, <5>1, <5>2
      <4> QED
        BY <1>1, <1>2, <1>15, <4>1
    <3> QED
      BY <3>1
  <2>2. PICK m \in Nat \ {0} : g = n * m
    BY <1>12, <1>13, <2>1, PowersMultiple
  <2>3. x = n * (m * (p + 2 * i)) + 0
    <3>1. p + 2 * i \in Nat
      BY <1>3, <1>4
    <3> HIDE DEF p, i
    <3>2. g * (p + 2 * i) = n * (m * (p + 2 * i))
      BY <1>1, <2>2, <3>1
    <3> QED
      BY <1>1, <1>6, <2>2, <3>1, <3>2
  <2>4. m * (p + 2 * i) \in Int
    BY <1>3, <1>4, <2>2
  <2>5. 0 \in 0 .. n - 1
    BY <1>1
  <2>6. x % n = 0
    <3> DEFINE u == m * (p + 2 * i)
    <3>1. u \in Int /\ x = n * u + 0 /\ x \in Int /\ n > 0
      BY <1>1, <1>6, <2>3, <2>4
    <3> HIDE DEF u
    <3> QED
      BY <1>1, <2>5, <3>1, DivisionUnique
  <2> QED
    BY <2>6 DEF y
<1>16. ASSUME n <= g PROVE y + (o * g) \in {0, g}
  BY <1>2, <1>9, <1>15, <1>16
<1> QED
  BY <1>5, <1>10, <1>11, <1>14, <1>16

(* How many groups a probe reads, at most.                                 *)
LEMMA LastGroups ==
  ASSUME NEW n \in BucketCounts, NEW g \in HlGroups
  PROVE  /\ n > g /\ n <= 2 * g => n = 2 * g
         /\ n > 2 * g => n \div g - 1 \in Nat /\ ((n \div g - 1) + 1) * g = n
         /\ 2 * (n \div (2 * g)) + 3 \in Nat
         /\ ((2 * (n \div (2 * g)) + 3) + 1) * g >= n + g
<1>1. n \in Nat /\ n >= 8
  BY Capacities
<1>2. g \in Nat /\ g > 0
  BY PowersFacts DEF HlGroups
<1>3. PICK e \in 3 .. 30 : n = Powers[e]
  BY DEF BucketCounts
<1>4. PICK f \in 0 .. 30 : g = Powers[f]
  BY DEF HlGroups
<1>5. ASSUME n > g, n <= 2 * g PROVE n = 2 * g
  <2>1. ASSUME Powers[f] < Powers[e] PROVE 2 * Powers[f] <= Powers[e]
    <3>1. e \in 0 .. 30
      OBVIOUS
    <3> QED
      BY <2>1, <3>1, PowersDoubled
  <2> QED
    BY <1>1, <1>2, <1>3, <1>4, <1>5, <2>1
<1>6. ASSUME n > 2 * g PROVE n \div g - 1 \in Nat /\ ((n \div g - 1) + 1) * g = n
  <2>1. f <= e
    <3>1. CASE e < f
      <4>1. Powers[e] <= Powers[f]
        BY <3>1, PowersOrdered
      <4> QED
        BY <1>1, <1>2, <1>3, <1>4, <1>6, <4>1
    <3> QED
      BY <3>1
  <2>2. PICK m \in Nat \ {0} : n = g * m
    BY <1>3, <1>4, <2>1, PowersMultiple
  <2>3. n = g * m + 0 /\ 0 \in 0 .. g - 1 /\ n \in Int
    BY <1>1, <1>2, <2>2
  <2>4. n \div g = m
    BY <1>2, <2>2, <2>3, DivisionUnique
  <2> QED
    BY <1>2, <2>2, <2>4
<1>7. 2 * (n \div (2 * g)) + 3 \in Nat /\ ((2 * (n \div (2 * g)) + 3) + 1) * g >= n + g
  <2> DEFINE d == 2 * g
             p == n \div d
             r == n % d
  <2>1. d \in Nat /\ d > 0
    BY <1>2
  <2>2. p \in Int /\ r \in 0 .. d - 1 /\ n = d * p + r
    <3> HIDE DEF d
    <3> QED
      BY <1>1, <2>1
  <2>3. p >= 0
    <3>1. CASE p <= -1
      <4>1. d * p <= -d
        <5> HIDE DEF d, p
        <5> QED
          BY <2>1, <2>2, <3>1
      <4> HIDE DEF d, p, r
      <4> QED
        BY <1>1, <2>1, <2>2, <4>1
    <3> QED
      BY <2>2, <3>1
  <2>4. ((2 * p + 3) + 1) * g = d * p + 4 * g
    <3> HIDE DEF p
    <3> QED
      BY <1>2, <2>2
  <2>5. ((2 * p + 3) + 1) * g >= n + g
    <3>1. d = 2 * g
      OBVIOUS
    <3> HIDE DEF d, p, r
    <3>2. d * p = n - r /\ d * p \in Int
      BY <1>1, <2>1, <2>2
    <3> QED
      BY <1>1, <1>2, <2>1, <2>2, <2>4, <3>1, <3>2
  <2> HIDE DEF p
  <2>6. 2 * p + 3 \in Nat
    BY <2>2, <2>3
  <2> QED
    BY <2>5, <2>6 DEF p
<1> QED
  BY <1>5, <1>6, <1>7

-----------------------------------------------------------------------------
(* Tables.                                                                 *)

HlElements == Keys \X Mapped

ControlBytes == {"EMPTY", "low", "high"}

HlShape(n, g) ==
  [vals : [0 .. n - 1 -> HlElements \cup {FreeBucket}], ctrl : [0 .. n + g - 1 -> ControlBytes],
   n : {n}, g : {g}, filled : Nat]

(* The control bytes say which buckets hold an element, ...                *)
Tagged(tb) ==
  \A i \in 0 .. tb.n - 1 :
    tb.ctrl[i] = IF tb.vals[i] = FreeBucket THEN Empty ELSE Tag(tb.vals[i][1])

(* ... and those of the first group are there twice.                       *)
Mirrored(tb) ==
  \A i \in 0 .. tb.g - 1 : tb.ctrl[tb.n + i] = IF i < tb.n THEN tb.ctrl[i] ELSE Empty

Tidy(tb) ==
  /\ tb.n \in BucketCounts /\ tb.g \in HlGroups /\ tb \in HlShape(tb.n, tb.g)
  /\ Tagged(tb) /\ Mirrored(tb)

KeyedOnce(tb) == \A i, j \in HlOccupied(tb) : tb.vals[i][1] = tb.vals[j][1] => i = j

Counted(tb) == tb.filled = Cardinality(HlOccupied(tb))

(* The buckets from h on to i.                                             *)
OnPath(h, b, i) == IF h <= i THEN h <= b /\ b <= i ELSE h <= b \/ b <= i

(* No bucket between an element and its home is EMPTY, but for one.        *)
Reachable(tb, hole) ==
  \A i \in HlOccupied(tb), b \in 0 .. tb.n - 1 :
    OnPath(HomeOf(tb, tb.vals[i][1]), b, i) => tb.ctrl[b] # Empty \/ b = hole

HlSound(tb) == Tidy(tb) /\ KeyedOnce(tb) /\ Counted(tb) /\ Reachable(tb, tb.n)

(* What the proofs need of the constants.                                  *)
HlAssumption ==
  /\ Home \in [Keys -> Nat]
  /\ FreeBucket \notin HlElements
  /\ GroupSizes \subseteq HlGroups /\ ScanBlock \in HlGroups
  /\ MaxElements \in Nat /\ 16 * (MaxElements + 1) <= MostBuckets
  /\ \A s \in FirstLists \cup HlLists : s \in Seq(HlElements) /\ 16 * (Len(s) + 1) <= MostBuckets
  /\ \A n \in Counts : n \in Nat /\ 2 * n <= MostBuckets

(* The sizes of a table, and what is in its buckets.                       *)
LEMMA TidyFacts ==
  ASSUME HlAssumption, NEW tb, Tidy(tb)
  PROVE  /\ tb.n \in Nat /\ tb.n >= 8 /\ tb.n <= MostBuckets /\ tb.g \in Nat /\ tb.g > 0
         /\ tb.filled \in Nat
         /\ DOMAIN tb.vals = 0 .. tb.n - 1 /\ DOMAIN tb.ctrl = 0 .. tb.n + tb.g - 1
         /\ tb.vals \in [0 .. tb.n - 1 -> HlElements \cup {FreeBucket}]
         /\ tb.ctrl \in [0 .. tb.n + tb.g - 1 -> ControlBytes]
         /\ HlOccupied(tb) = {i \in 0 .. tb.n - 1 : tb.vals[i] # FreeBucket}
         /\ \A i \in 0 .. tb.n - 1 : /\ tb.ctrl[i] = Empty <=> tb.vals[i] = FreeBucket
                                     /\ tb.ctrl[i] # Empty => tb.ctrl[i] = Tag(tb.vals[i][1])
         /\ \A i \in HlOccupied(tb) :
              /\ i \in 0 .. tb.n - 1 /\ tb.vals[i] \in HlElements
              /\ tb.vals[i][1] \in Keys /\ tb.vals[i][2] \in Mapped
              /\ HomeOf(tb, tb.vals[i][1]) \in 0 .. tb.n - 1
         /\ \A k \in Keys : HomeOf(tb, k) \in 0 .. tb.n - 1
<1>1. tb.n \in Nat /\ tb.n >= 8 /\ tb.n <= MostBuckets /\ tb.g \in Nat /\ tb.g > 0
  BY Capacities, PowersFacts, SMTT(30) DEF Tidy, HlGroups
<1>2. tb \in HlShape(tb.n, tb.g)
  BY DEF Tidy
<1>3. /\ tb.filled \in Nat
      /\ DOMAIN tb.vals = 0 .. tb.n - 1 /\ DOMAIN tb.ctrl = 0 .. tb.n + tb.g - 1
      /\ tb.vals \in [0 .. tb.n - 1 -> HlElements \cup {FreeBucket}]
      /\ tb.ctrl \in [0 .. tb.n + tb.g - 1 -> ControlBytes]
  BY <1>2 DEF HlShape
<1>4. \A k : Tag(k) # Empty
  BY DEF Tag, Empty
<1>5. ASSUME NEW i \in 0 .. tb.n - 1
      PROVE  /\ tb.ctrl[i] = Empty <=> tb.vals[i] = FreeBucket
             /\ tb.ctrl[i] # Empty => tb.ctrl[i] = Tag(tb.vals[i][1])
  BY <1>4 DEF Tidy, Tagged
<1>6. HlOccupied(tb) = {i \in 0 .. tb.n - 1 : tb.vals[i] # FreeBucket}
  BY <1>3, <1>5 DEF HlOccupied
<1>7. \A k \in Keys : HomeOf(tb, k) \in 0 .. tb.n - 1
  BY <1>1 DEF HomeOf, HlAssumption
<1>8. ASSUME NEW i \in HlOccupied(tb)
      PROVE  /\ i \in 0 .. tb.n - 1 /\ tb.vals[i] \in HlElements
             /\ tb.vals[i][1] \in Keys /\ tb.vals[i][2] \in Mapped
             /\ HomeOf(tb, tb.vals[i][1]) \in 0 .. tb.n - 1
  <2>1. i \in 0 .. tb.n - 1 /\ tb.vals[i] # FreeBucket
    BY <1>6
  <2>2. tb.vals[i] \in HlElements
    BY <1>3, <2>1
  <2>3. tb.vals[i][1] \in Keys /\ tb.vals[i][2] \in Mapped
    BY <2>2 DEF HlElements
  <2> QED
    BY <1>7, <2>1, <2>2, <2>3
<1> QED
  BY <1>1, <1>3, <1>5, <1>6, <1>7, <1>8

(* One control byte is written, and its copy if it has one.                *)
LEMMA SetCtrlFacts ==
  ASSUME NEW n \in Nat, NEW g \in Nat, NEW tb \in HlShape(n, g), NEW i \in 0 .. n - 1, NEW tag \in ControlBytes
  PROVE  /\ SetCtrl(tb, i, tag) \in HlShape(n, g)
         /\ SetCtrl(tb, i, tag).vals = tb.vals /\ SetCtrl(tb, i, tag).filled = tb.filled
         /\ SetCtrl(tb, i, tag).n = n /\ SetCtrl(tb, i, tag).g = g
         /\ \A j \in 0 .. n + g - 1 :
              SetCtrl(tb, i, tag).ctrl[j] = IF j = i \/ (i < g /\ j = n + i) THEN tag ELSE tb.ctrl[j]
<1>1. tb.n = n /\ tb.g = g /\ tb.ctrl \in [0 .. n + g - 1 -> ControlBytes]
  BY DEF HlShape
<1>2. CASE i < g
  <2>1. SetCtrl(tb, i, tag) = [tb EXCEPT !.ctrl = [[tb.ctrl EXCEPT ![i] = tag] EXCEPT ![n + i] = tag]]
    BY <1>1, <1>2 DEF SetCtrl, HlShape
  <2> DEFINE c == [[tb.ctrl EXCEPT ![i] = tag] EXCEPT ![n + i] = tag]
  <2>2. c \in [0 .. n + g - 1 -> ControlBytes]
    BY <1>1
  <2>3. \A j \in 0 .. n + g - 1 : c[j] = IF j = i \/ j = n + i THEN tag ELSE tb.ctrl[j]
    BY <1>1
  <2> HIDE DEF c
  <2> QED
    BY <1>2, <2>1, <2>2, <2>3 DEF HlShape, c
<1>3. CASE ~ (i < g)
  <2>1. SetCtrl(tb, i, tag) = [tb EXCEPT !.ctrl = [tb.ctrl EXCEPT ![i] = tag]]
    BY <1>1, <1>3 DEF SetCtrl, HlShape
  <2> DEFINE c == [tb.ctrl EXCEPT ![i] = tag]
  <2>2. c \in [0 .. n + g - 1 -> ControlBytes]
    BY <1>1
  <2>3. \A j \in 0 .. n + g - 1 : c[j] = IF j = i THEN tag ELSE tb.ctrl[j]
    BY <1>1
  <2> HIDE DEF c
  <2> QED
    BY <1>3, <2>1, <2>2, <2>3 DEF HlShape, c
<1> QED
  BY <1>2, <1>3

(* A bucket with its control byte: x is an element or FreeBucket.          *)
WithBucket(tb, i, x) ==
  SetCtrl([tb EXCEPT !.vals[i] = x], i, IF x = FreeBucket THEN Empty ELSE Tag(x[1]))

(* A bucket gets another content, and the table stays tidy.                *)
LEMMA WithBucketFacts ==
  ASSUME HlAssumption, NEW tb, Tidy(tb), NEW i \in 0 .. tb.n - 1, NEW x \in HlElements \cup {FreeBucket}
  PROVE  /\ Tidy(WithBucket(tb, i, x))
         /\ WithBucket(tb, i, x).vals = [tb.vals EXCEPT ![i] = x]
         /\ WithBucket(tb, i, x).n = tb.n /\ WithBucket(tb, i, x).g = tb.g
         /\ WithBucket(tb, i, x).filled = tb.filled
         /\ \A j \in 0 .. tb.n - 1 : j # i => WithBucket(tb, i, x).ctrl[j] = tb.ctrl[j]
<1> DEFINE tag == IF x = FreeBucket THEN Empty ELSE Tag(x[1])
           t == [tb EXCEPT !.vals[i] = x]
           u == SetCtrl(t, i, tag)
<1>1. /\ tb.n \in Nat /\ tb.n >= 8 /\ tb.g \in Nat /\ tb.g > 0
      /\ tb.vals \in [0 .. tb.n - 1 -> HlElements \cup {FreeBucket}]
  BY TidyFacts
<1>2. /\ tb.n \in BucketCounts /\ tb.g \in HlGroups /\ tb \in HlShape(tb.n, tb.g)
      /\ Tagged(tb) /\ Mirrored(tb)
  BY DEF Tidy
<1>3. tag \in ControlBytes
  BY DEF Tag, Empty, ControlBytes
<1>4. /\ t \in HlShape(tb.n, tb.g) /\ t.vals = [tb.vals EXCEPT ![i] = x]
      /\ t.ctrl = tb.ctrl /\ t.filled = tb.filled
  <2>1. [tb.vals EXCEPT ![i] = x] \in [0 .. tb.n - 1 -> HlElements \cup {FreeBucket}]
    BY <1>1
  <2> QED
    BY <1>2, <2>1 DEF HlShape
<1> HIDE DEF t, tag
<1>5. /\ u \in HlShape(tb.n, tb.g) /\ u.vals = t.vals /\ u.filled = t.filled /\ u.n = tb.n /\ u.g = tb.g
      /\ \A j \in 0 .. tb.n + tb.g - 1 :
              u.ctrl[j] = IF j = i \/ (i < tb.g /\ j = tb.n + i) THEN tag ELSE t.ctrl[j]
  <2>1. tb.n \in Nat /\ tb.g \in Nat /\ t \in HlShape(tb.n, tb.g) /\ i \in 0 .. tb.n - 1 /\ tag \in ControlBytes
    BY <1>1, <1>3, <1>4
  <2> DEFINE n == tb.n
             g == tb.g
  <2> HIDE DEF n, g
  <2>2. n \in Nat /\ g \in Nat /\ t \in HlShape(n, g) /\ i \in 0 .. n - 1 /\ tag \in ControlBytes
    BY <2>1 DEF n, g
  <2>3. /\ u \in HlShape(n, g)
        /\ u.vals = t.vals /\ u.filled = t.filled
        /\ u.n = n /\ u.g = g
    BY <2>2, SetCtrlFacts
  <2>4. \A j \in 0 .. n + g - 1 : u.ctrl[j] = IF j = i \/ (i < g /\ j = n + i) THEN tag ELSE t.ctrl[j]
    BY <2>2, SetCtrlFacts
  <2> QED
    BY <2>3, <2>4 DEF n, g
<1>6. u = WithBucket(tb, i, x)
  BY DEF WithBucket, t, tag
<1> HIDE DEF u
<1>7. Tagged(u)
  <2> SUFFICES ASSUME NEW j \in 0 .. tb.n - 1
               PROVE  u.ctrl[j] = IF u.vals[j] = FreeBucket THEN Empty ELSE Tag(u.vals[j][1])
    BY <1>5 DEF Tagged
  <2>1. j \in 0 .. tb.n + tb.g - 1 /\ j # tb.n + i
    BY <1>1
  <2>2. CASE j = i
    <3>1. u.vals[j] = x /\ u.ctrl[j] = tag
      BY <1>1, <1>4, <1>5, <2>1, <2>2
    <3> QED
      BY <3>1 DEF tag
  <2>3. CASE j # i
    <3>1. u.vals[j] = tb.vals[j] /\ u.ctrl[j] = tb.ctrl[j]
      BY <1>1, <1>4, <1>5, <2>1, <2>3
    <3> QED
      BY <1>2, <3>1 DEF Tagged
  <2> QED
    BY <2>2, <2>3
<1>8. Mirrored(u)
  <2> SUFFICES ASSUME NEW j \in 0 .. tb.g - 1
               PROVE  u.ctrl[tb.n + j] = IF j < tb.n THEN u.ctrl[j] ELSE Empty
    BY <1>5 DEF Mirrored
  <2>1. /\ tb.n + j \in 0 .. tb.n + tb.g - 1 /\ j \in 0 .. tb.n + tb.g - 1 /\ tb.n + j # i
        /\ (tb.n + j = tb.n + i <=> j = i)
    BY <1>1, SMTT(30)
  <2>2. tb.ctrl[tb.n + j] = IF j < tb.n THEN tb.ctrl[j] ELSE Empty
    BY <1>2 DEF Mirrored
  <2>3. i < tb.n /\ (j = i => i < tb.g) /\ (j < tb.n => j # tb.n + i)
    BY <1>1
  <2>4. u.ctrl[tb.n + j] = IF j = i THEN tag ELSE tb.ctrl[tb.n + j]
    BY <1>4, <1>5, <2>1, <2>3
  <2>5. ASSUME j < tb.n PROVE u.ctrl[j] = IF j = i THEN tag ELSE tb.ctrl[j]
    BY <1>4, <1>5, <2>1, <2>3, <2>5
  <2> QED
    BY <2>2, <2>3, <2>4, <2>5
<1>9. Tidy(u)
  BY <1>2, <1>5, <1>7, <1>8 DEF Tidy
<1>10. \A j \in 0 .. tb.n - 1 : j # i => u.ctrl[j] = tb.ctrl[j]
  <2> TAKE j \in 0 .. tb.n - 1
  <2>1. j \in 0 .. tb.n + tb.g - 1 /\ j # tb.n + i
    BY <1>1
  <2> QED
    BY <1>4, <1>5, <2>1
<1> QED
  BY <1>4, <1>5, <1>6, <1>9, <1>10

(* An element comes into a bucket, or goes.                                *)
LEMMA PutAndClear ==
  ASSUME HlAssumption, NEW tb, Tidy(tb), NEW i \in 0 .. tb.n - 1
  PROVE  /\ \A k \in Keys, v \in Mapped : PutAt(tb, i, k, v) = WithBucket(tb, i, <<k, v>>)
         /\ ClearAt(tb, i) = WithBucket(tb, i, FreeBucket)
<1>1. ASSUME NEW k \in Keys, NEW v \in Mapped PROVE PutAt(tb, i, k, v) = WithBucket(tb, i, <<k, v>>)
  <2>1. <<k, v>> \in HlElements
    BY DEF HlElements
  <2>2. <<k, v>> # FreeBucket
    BY <2>1 DEF HlAssumption
  <2>3. <<k, v>>[1] = k
    OBVIOUS
  <2> QED
    BY <2>2, <2>3 DEF PutAt, WithBucket
<1>2. ClearAt(tb, i) = WithBucket(tb, i, FreeBucket)
  BY DEF ClearAt, WithBucket
<1> QED
  BY <1>1, <1>2

(* The elements of a table.                                                *)
HlHeld(tb) == {tb.vals[i] : i \in HlOccupied(tb)}

HasKey(tb, k) == \E x \in HlHeld(tb) : x[1] = k

(* The table u is the table tb but for what is in one bucket, and counts   *)
(* so many elements.                                                       *)
DiffersAt(u, tb, i, x, c) ==
  /\ Tidy(u) /\ u.n = tb.n /\ u.g = tb.g /\ u.filled = c
  /\ \A j \in 0 .. tb.n - 1 : j # i => u.ctrl[j] = tb.ctrl[j] /\ u.vals[j] = tb.vals[j]
  /\ u.vals[i] = x /\ (u.ctrl[i] = Empty <=> x = FreeBucket)
  /\ HlOccupied(u) = IF x = FreeBucket THEN HlOccupied(tb) \ {i} ELSE HlOccupied(tb) \cup {i}
  /\ \A k : HomeOf(u, k) = HomeOf(tb, k)

Counting(tb, c) == [tb EXCEPT !.filled = c]

(* A change of one bucket, and of how many elements are counted.           *)
LEMMA BucketChanged ==
  ASSUME HlAssumption, NEW tb, Tidy(tb), NEW i \in 0 .. tb.n - 1, NEW x \in HlElements \cup {FreeBucket},
         NEW c \in Nat
  PROVE  DiffersAt(Counting(WithBucket(tb, i, x), c), tb, i, x, c)
<1> DEFINE w == WithBucket(tb, i, x)
           u == Counting(w, c)
<1>1. /\ Tidy(w) /\ w.vals = [tb.vals EXCEPT ![i] = x] /\ w.n = tb.n /\ w.g = tb.g
      /\ \A j \in 0 .. tb.n - 1 : j # i => w.ctrl[j] = tb.ctrl[j]
  BY WithBucketFacts
<1> HIDE DEF w
<1>2. u = [w EXCEPT !.filled = c]
  BY DEF Counting
<1> HIDE DEF u
<1>3. w \in HlShape(tb.n, tb.g)
  BY <1>1 DEF Tidy
<1>4. /\ u \in HlShape(tb.n, tb.g)
      /\ u.vals = w.vals /\ u.ctrl = w.ctrl /\ u.n = w.n /\ u.g = w.g /\ u.filled = c
  BY <1>2, <1>3 DEF HlShape
<1>5. Tidy(u)
  <2>1. Tagged(w) /\ Mirrored(w) /\ w.n \in BucketCounts /\ w.g \in HlGroups
    BY <1>1 DEF Tidy
  <2>2. Tagged(u)
    BY <1>4, <2>1 DEF Tagged
  <2>3. Mirrored(u)
    BY <1>4, <2>1 DEF Mirrored
  <2> QED
    BY <1>1, <1>4, <2>1, <2>2, <2>3 DEF Tidy
<1>6. DOMAIN tb.vals = 0 .. tb.n - 1
  BY TidyFacts
<1>7. u.vals[i] = x /\ \A j \in 0 .. tb.n - 1 : j # i => u.ctrl[j] = tb.ctrl[j] /\ u.vals[j] = tb.vals[j]
  BY <1>1, <1>4, <1>6
<1>8. /\ HlOccupied(u) = {j \in 0 .. u.n - 1 : u.vals[j] # FreeBucket}
      /\ \A j \in 0 .. u.n - 1 : u.ctrl[j] = Empty <=> u.vals[j] = FreeBucket
  BY <1>5, TidyFacts
<1>9. HlOccupied(tb) = {j \in 0 .. tb.n - 1 : tb.vals[j] # FreeBucket}
  BY TidyFacts
<1>10. HlOccupied(u) = IF x = FreeBucket THEN HlOccupied(tb) \ {i} ELSE HlOccupied(tb) \cup {i}
  <2>1. CASE x = FreeBucket
    BY <1>1, <1>4, <1>7, <1>8, <1>9, <2>1
  <2>2. CASE x # FreeBucket
    BY <1>1, <1>4, <1>7, <1>8, <1>9, <2>2
  <2> QED
    BY <2>1, <2>2
<1>11. \A k : HomeOf(u, k) = HomeOf(tb, k)
  BY <1>1, <1>4 DEF HomeOf
<1> QED
  BY <1>1, <1>4, <1>5, <1>7, <1>8, <1>10, <1>11 DEF DiffersAt, u, w

(* There are only so many elements in a table.                             *)
LEMMA OccupiedFinite ==
  ASSUME HlAssumption, NEW tb, Tidy(tb)
  PROVE  /\ IsFiniteSet(HlOccupied(tb)) /\ Cardinality(HlOccupied(tb)) \in Nat
         /\ Cardinality(HlOccupied(tb)) <= tb.n
         /\ (\A i \in 0 .. tb.n - 1 : tb.ctrl[i] # Empty) <=> Cardinality(HlOccupied(tb)) = tb.n
<1>1. tb.n \in Nat /\ HlOccupied(tb) = {i \in 0 .. tb.n - 1 : tb.vals[i] # FreeBucket}
  BY TidyFacts
<1>2. \A i \in 0 .. tb.n - 1 : tb.ctrl[i] = Empty <=> tb.vals[i] = FreeBucket
  BY TidyFacts
<1>3. IsFiniteSet(0 .. tb.n - 1) /\ Cardinality(0 .. tb.n - 1) = tb.n
  <2> DEFINE m == tb.n - 1
  <2>1. m \in Int /\ 0 \in Int /\ ~ (0 > m) /\ m - 0 + 1 = tb.n
    <3>1. tb.n >= 8
      BY TidyFacts
    <3> QED
      BY <1>1, <3>1
  <2> HIDE DEF m
  <2>2. IsFiniteSet(0 .. m) /\ Cardinality(0 .. m) = tb.n
    BY <2>1, FS_Interval
  <2> QED
    BY <2>2 DEF m
<1>4. HlOccupied(tb) \subseteq 0 .. tb.n - 1
  BY <1>1
<1>5. IsFiniteSet(HlOccupied(tb)) /\ Cardinality(HlOccupied(tb)) <= tb.n
  BY <1>3, <1>4, FS_Subset
<1>6. Cardinality(HlOccupied(tb)) \in Nat
  BY <1>5, FS_CardinalityType
<1>7. Cardinality(HlOccupied(tb)) = tb.n <=> HlOccupied(tb) = 0 .. tb.n - 1
  BY <1>3, <1>4, FS_Subset
<1>8. HlOccupied(tb) = 0 .. tb.n - 1 <=> \A i \in 0 .. tb.n - 1 : tb.ctrl[i] # Empty
  BY <1>1, <1>2
<1> QED
  BY <1>5, <1>6, <1>7, <1>8

(* An EMPTY bucket that no EMPTY one parts from another.                   *)
FreeAhead(tb, h, i) ==
  /\ i \in 0 .. tb.n - 1 /\ tb.ctrl[i] = Empty
  /\ \A b \in 0 .. tb.n - 1 : OnPath(h, b, i) /\ b # i => tb.ctrl[b] # Empty

(* What a table is that has one element more than another.                 *)
Gains(u, tb, x) ==
  /\ HlSound(u) /\ u.n = tb.n /\ u.g = tb.g /\ u.filled = tb.filled + 1
  /\ HlHeld(u) = HlHeld(tb) \cup {x}

PutInto(tb, i, k, v) == [PutAt(tb, i, k, v) EXCEPT !.filled = @ + 1]

(* A new element in such a bucket.                                         *)
LEMMA PutFacts ==
  ASSUME HlAssumption, NEW tb, HlSound(tb), NEW k \in Keys, NEW v \in Mapped, ~ HasKey(tb, k),
         NEW i, FreeAhead(tb, HomeOf(tb, k), i)
  PROVE  Gains(PutInto(tb, i, k, v), tb, <<k, v>>) /\ PutInto(tb, i, k, v).vals[i] = <<k, v>>
<1> DEFINE x == <<k, v>>
           u == PutInto(tb, i, k, v)
<1>a. u = [PutAt(tb, i, k, v) EXCEPT !.filled = @ + 1]
  BY DEF PutInto
<1> HIDE DEF u
<1>b. /\ i \in 0 .. tb.n - 1 /\ tb.ctrl[i] = Empty
      /\ \A b \in 0 .. tb.n - 1 : OnPath(HomeOf(tb, k), b, i) /\ b # i => tb.ctrl[b] # Empty
  BY DEF FreeAhead
<1>0. Tidy(tb) /\ KeyedOnce(tb) /\ Counted(tb) /\ Reachable(tb, tb.n)
  BY DEF HlSound
<1>1. x \in HlElements /\ x # FreeBucket
  BY DEF HlElements, HlAssumption
<1>2. PutAt(tb, i, k, v) = WithBucket(tb, i, x) /\ tb.filled \in Nat /\ tb.filled + 1 \in Nat
  BY <1>0, <1>b, PutAndClear, TidyFacts
<1>3. u = [WithBucket(tb, i, x) EXCEPT !.filled = tb.filled + 1]
  <2>1. WithBucket(tb, i, x).filled = tb.filled /\ Tidy(WithBucket(tb, i, x))
    BY <1>0, <1>1, <1>b, WithBucketFacts, ZenonT(30)
  <2>2. WithBucket(tb, i, x) \in HlShape(WithBucket(tb, i, x).n, WithBucket(tb, i, x).g)
    BY <2>1 DEF Tidy
  <2> QED
    BY <1>2, <1>a, <2>1, <2>2 DEF HlShape
<1>4. x[1] = k /\ x[2] = v
  OBVIOUS
<1> HIDE DEF x
<1>5. /\ Tidy(u) /\ u.n = tb.n /\ u.g = tb.g /\ u.filled = tb.filled + 1
      /\ \A j \in 0 .. tb.n - 1 : j # i => u.ctrl[j] = tb.ctrl[j] /\ u.vals[j] = tb.vals[j]
      /\ u.vals[i] = x /\ (u.ctrl[i] = Empty <=> x = FreeBucket)
      /\ HlOccupied(u) = IF x = FreeBucket THEN HlOccupied(tb) \ {i} ELSE HlOccupied(tb) \cup {i}
      /\ \A a : HomeOf(u, a) = HomeOf(tb, a)
  <2> DEFINE c == tb.filled + 1
  <2>1. c \in Nat /\ x \in HlElements \cup {FreeBucket} /\ u = Counting(WithBucket(tb, i, x), c)
    BY <1>1, <1>2, <1>3 DEF Counting
  <2> HIDE DEF c
  <2>2. DiffersAt(u, tb, i, x, c)
    BY <1>0, <1>b, <2>1, BucketChanged
  <2> QED
    BY <2>2 DEF c, DiffersAt
<1>6. /\ HlOccupied(tb) = {j \in 0 .. tb.n - 1 : tb.vals[j] # FreeBucket} /\ tb.vals[i] = FreeBucket
      /\ i \notin HlOccupied(tb) /\ HlOccupied(u) = HlOccupied(tb) \cup {i}
  <2>1. HlOccupied(tb) = {j \in 0 .. tb.n - 1 : tb.vals[j] # FreeBucket}
    BY <1>0, TidyFacts
  <2>2. tb.vals[i] = FreeBucket
    BY <1>0, <1>b, TidyFacts
  <2> QED
    BY <1>1, <1>5, <2>1, <2>2
<1>7. \A j \in HlOccupied(tb) : /\ j \in 0 .. tb.n - 1 /\ j # i /\ u.vals[j] = tb.vals[j] /\ tb.vals[j][1] # k
                                /\ tb.vals[j] \in HlHeld(tb)
  BY <1>5, <1>6 DEF HasKey, HlHeld
<1>8. KeyedOnce(u)
  BY <1>0, <1>4, <1>5, <1>6, <1>7 DEF KeyedOnce
<1>9. Counted(u)
  <2>1. IsFiniteSet(HlOccupied(tb))
    BY <1>0, OccupiedFinite
  <2>2. Cardinality(HlOccupied(u)) = Cardinality(HlOccupied(tb)) + 1
    BY <1>6, <2>1, FS_AddElement
  <2> QED
    BY <1>0, <1>5, <2>2 DEF Counted
<1>10. Reachable(u, u.n)
  <2> SUFFICES ASSUME NEW j \in HlOccupied(u), NEW b \in 0 .. u.n - 1, OnPath(HomeOf(u, u.vals[j][1]), b, j)
               PROVE  u.ctrl[b] # Empty
    BY DEF Reachable
  <2>1. CASE b = i
    BY <1>1, <1>5, <2>1
  <2>2. CASE b # i /\ j = i
    <3>1. OnPath(HomeOf(tb, k), b, i)
      BY <1>4, <1>5, <2>2
    <3> QED
      BY <1>5, <1>b, <2>2, <3>1
  <2>3. CASE b # i /\ j # i
    <3>1. j \in HlOccupied(tb) /\ OnPath(HomeOf(tb, tb.vals[j][1]), b, j) /\ b \in 0 .. tb.n - 1
      BY <1>5, <1>6, <1>7, <2>3
    <3>2. tb.ctrl[b] # Empty \/ b = tb.n
      BY <1>0, <3>1 DEF Reachable
    <3>3. tb.n \in Nat
      BY <1>0, TidyFacts
    <3> QED
      BY <1>5, <2>3, <3>1, <3>2, <3>3
  <2> QED
    BY <2>1, <2>2, <2>3
<1>11. HlHeld(u) = HlHeld(tb) \cup {x}
  BY <1>5, <1>6, <1>7 DEF HlHeld
<1> QED
  BY <1>5, <1>8, <1>9, <1>10, <1>11 DEF HlSound, Gains, x, u

(* A bucket so many places ahead is on the path to whatever is behind it.  *)
LEMMA PathsAhead ==
  ASSUME NEW n \in Nat, n > 0, NEW h \in 0 .. n - 1, NEW i \in 0 .. n - 1
  PROVE  /\ (i - h) % n = Behind(n, i, h) /\ Behind(n, i, h) \in 0 .. n - 1
         /\ \A d \in 0 .. Behind(n, i, h) : (h + d) % n \in 0 .. n - 1 /\ OnPath(h, (h + d) % n, i)
         /\ \A b \in 0 .. n - 1 : OnPath(h, b, i) =>
              /\ Behind(n, b, h) \in 0 .. Behind(n, i, h) /\ (h + Behind(n, b, h)) % n = b
              /\ b # i => Behind(n, b, h) < Behind(n, i, h)
<1>1. (i - h) % n = Behind(n, i, h) /\ Behind(n, i, h) \in 0 .. n - 1
  BY Wraps
<1>2. \A d \in 0 .. n : (h + d) % n = Onward(n, h, d) /\ Onward(n, h, d) \in 0 .. n - 1
  BY Wraps
<1>3. ASSUME NEW d \in 0 .. Behind(n, i, h) PROVE (h + d) % n \in 0 .. n - 1 /\ OnPath(h, (h + d) % n, i)
  <2>1. d \in 0 .. n
    BY <1>1
  <2>2. (h + d) % n = Onward(n, h, d)
    BY <1>2, <2>1
  <2>3. OnPath(h, Onward(n, h, d), i)
    BY <1>1 DEF OnPath, Onward, Behind
  <2> QED
    BY <1>2, <2>1, <2>2, <2>3
<1>4. ASSUME NEW b \in 0 .. n - 1, OnPath(h, b, i)
      PROVE  /\ Behind(n, b, h) \in 0 .. Behind(n, i, h) /\ (h + Behind(n, b, h)) % n = b
             /\ b # i => Behind(n, b, h) < Behind(n, i, h)
  <2>1. Behind(n, b, h) \in 0 .. Behind(n, i, h) /\ (b # i => Behind(n, b, h) < Behind(n, i, h))
    BY <1>4 DEF OnPath, Behind
  <2>2. Behind(n, b, h) \in 0 .. n
    BY <1>1, <2>1
  <2>3. Onward(n, h, Behind(n, b, h)) = b
    BY DEF Onward, Behind
  <2> QED
    BY <1>2, <2>1, <2>2, <2>3
<1> QED
  BY <1>1, <1>3, <1>4

(* What the proofs keep of a table is what every probe relies on.          *)
LEMMA SoundUnbroken ==
  ASSUME HlAssumption, NEW tb, HlSound(tb)
  PROVE  ProbesUnbroken(tb)
<1>0. Tidy(tb) /\ KeyedOnce(tb) /\ Counted(tb) /\ Reachable(tb, tb.n) /\ Tagged(tb) /\ Mirrored(tb)
  BY DEF HlSound, Tidy
<1>1. /\ tb.n \in Nat /\ tb.n >= 8 /\ tb.g \in Nat
      /\ DOMAIN tb.vals = 0 .. tb.n - 1 /\ DOMAIN tb.ctrl = 0 .. tb.n + tb.g - 1
      /\ \A i \in HlOccupied(tb) : i \in 0 .. tb.n - 1 /\ HomeOf(tb, tb.vals[i][1]) \in 0 .. tb.n - 1
  BY <1>0, TidyFacts
<1>2. \A i \in DOMAIN tb.vals : tb.ctrl[i] = IF tb.vals[i] = FreeBucket THEN Empty ELSE Tag(tb.vals[i][1])
  BY <1>0, <1>1 DEF Tagged
<1>3. ASSUME NEW i \in DOMAIN tb.ctrl, i >= tb.n
      PROVE  tb.ctrl[i] = IF i - tb.n < tb.n THEN tb.ctrl[i - tb.n] ELSE Empty
  <2>1. i - tb.n \in 0 .. tb.g - 1 /\ tb.n + (i - tb.n) = i
    BY <1>1, <1>3
  <2> QED
    BY <1>0, <2>1 DEF Mirrored
<1>4. ASSUME NEW i \in HlOccupied(tb)
      PROVE  LET home == HomeOf(tb, tb.vals[i][1])
             IN \A d \in 0 .. (i - home) % tb.n : tb.ctrl[(home + d) % tb.n] # Empty
  <2> DEFINE home == HomeOf(tb, tb.vals[i][1])
             n == tb.n
  <2>1. home \in 0 .. n - 1 /\ i \in 0 .. n - 1 /\ n \in Nat /\ n > 0
    BY <1>1
  <2> HIDE DEF n, home
  <2>2. (i - home) % n = Behind(n, i, home)
    BY <2>1, PathsAhead
  <2>3. \A d \in 0 .. Behind(n, i, home) : (home + d) % n \in 0 .. n - 1 /\ OnPath(home, (home + d) % n, i)
    BY <2>1, PathsAhead
  <2>4. ASSUME NEW d \in 0 .. (i - home) % n PROVE tb.ctrl[(home + d) % n] # Empty
    <3> DEFINE b == (home + d) % n
    <3>1. b \in 0 .. n - 1 /\ OnPath(home, b, i)
      BY <2>2, <2>3
    <3> HIDE DEF b
    <3>2. tb.ctrl[b] # Empty
      BY <1>0, <2>1, <3>1 DEF Reachable, n, home
    <3> QED
      BY <3>2 DEF b
  <2> QED
    BY <2>4 DEF n, home
<1>5. \A i \in HlOccupied(tb) :
         LET home == HomeOf(tb, tb.vals[i][1])
         IN \A d \in 0 .. (i - home) % tb.n : tb.ctrl[(home + d) % tb.n] # Empty
  BY <1>4
<1> QED
  BY <1>0, <1>2, <1>3, <1>5 DEF ProbesUnbroken, KeyedOnce, Counted

(* So is it when there is no table.                                        *)
LEMMA NoneUnbroken ==
  ASSUME NEW g
  PROVE  ProbesUnbroken(HlNoTable(g)) /\ HlOccupied(HlNoTable(g)) = {} /\ HlHeld(HlNoTable(g)) = {}
<1> DEFINE tb == HlNoTable(g)
<1>1. tb.vals = <<>> /\ tb.ctrl = <<>> /\ tb.filled = 0 /\ DOMAIN tb.vals = {} /\ DOMAIN tb.ctrl = {}
  BY DEF HlNoTable
<1> HIDE DEF tb
<1>2. HlOccupied(tb) = {}
  BY <1>1 DEF HlOccupied
<1>3. HlHeld(tb) = {}
  BY <1>2 DEF HlHeld
<1>4. Cardinality({}) = 0
  BY FS_EmptySet
<1>5. ProbesUnbroken(tb)
  BY <1>1, <1>2, <1>4 DEF ProbesUnbroken
<1> QED
  BY <1>2, <1>3, <1>5 DEF tb

(* Two elements of a table have two keys.                                  *)
LEMMA HeldFacts ==
  ASSUME HlAssumption, NEW tb, Tidy(tb), KeyedOnce(tb)
  PROVE  /\ HlHeld(tb) \subseteq HlElements
         /\ \A x, y \in HlHeld(tb) : x[1] = y[1] => x = y
         /\ \A i \in HlOccupied(tb) : tb.vals[i] \in HlHeld(tb)
<1>1. \A i \in HlOccupied(tb) : tb.vals[i] \in HlElements
  BY TidyFacts
<1> QED
  BY <1>1 DEF HlHeld, KeyedOnce

(* An empty table.                                                         *)
LEMMA EmptyTableFacts ==
  ASSUME HlAssumption, NEW n \in BucketCounts, NEW g \in HlGroups
  PROVE  /\ HlSound(HlEmptyTable(n, g)) /\ HlHeld(HlEmptyTable(n, g)) = {}
         /\ HlEmptyTable(n, g).n = n /\ HlEmptyTable(n, g).g = g /\ HlEmptyTable(n, g).filled = 0
<1> DEFINE tb == HlEmptyTable(n, g)
<1>0. n \in Nat /\ g \in Nat
  BY Capacities, PowersFacts DEF HlGroups
<1>1. /\ tb.n = n /\ tb.g = g /\ tb.filled = 0
      /\ tb.vals = [i \in 0 .. n - 1 |-> FreeBucket] /\ tb.ctrl = [i \in 0 .. n + g - 1 |-> Empty]
      /\ tb = [vals |-> [i \in 0 .. n - 1 |-> FreeBucket], ctrl |-> [i \in 0 .. n + g - 1 |-> Empty],
               n |-> n, g |-> g, filled |-> 0]
  BY DEF HlEmptyTable
<1> HIDE DEF tb
<1>2. tb \in HlShape(n, g)
  <2>1. [i \in 0 .. n - 1 |-> FreeBucket] \in [0 .. n - 1 -> HlElements \cup {FreeBucket}]
    OBVIOUS
  <2>2. [i \in 0 .. n + g - 1 |-> Empty] \in [0 .. n + g - 1 -> ControlBytes]
    BY DEF Empty, ControlBytes
  <2> QED
    BY <1>1, <2>1, <2>2 DEF HlShape
<1>3. Tagged(tb)
  BY <1>0, <1>1 DEF Tagged
<1>4. Mirrored(tb)
  <2>1. \A i \in 0 .. g - 1 : n + i \in 0 .. n + g - 1 /\ i \in 0 .. n + g - 1
    BY <1>0
  <2> QED
    BY <1>1, <2>1 DEF Mirrored
<1>5. Tidy(tb)
  BY <1>1, <1>2, <1>3, <1>4 DEF Tidy
<1>6. HlOccupied(tb) = {}
  BY <1>1, <1>5, TidyFacts
<1>7. Cardinality({}) = 0
  BY FS_EmptySet
<1> QED
  BY <1>1, <1>5, <1>6, <1>7 DEF HlSound, KeyedOnce, Counted, Reachable, HlHeld, tb

-----------------------------------------------------------------------------
(* Rehashing.                                                              *)

(* The first free bucket from one on: every bucket on the way is taken.    *)
LEMMA FirstFree ==
  ASSUME HlAssumption, NEW tb, Tidy(tb), NEW h \in 0 .. tb.n - 1,
         NEW a \in 0 .. tb.n - 1, tb.ctrl[a] = Empty
  PROVE  FreeAhead(tb, h, FirstFreeFrom(tb, h))
<1> DEFINE n == tb.n
           c == tb.ctrl
           S == {d \in 0 .. n - 1 : c[(h + d) % n] = Empty}
           d0 == FirstOf(S)
           i == (h + d0) % n
<1>1. n \in Nat /\ n > 0
  BY TidyFacts
<1>2. h \in 0 .. n - 1 /\ a \in 0 .. n - 1 /\ c[a] = Empty
  OBVIOUS
<1>3. FirstFreeFrom(tb, h) = i
  BY DEF FirstFreeFrom
<1> HIDE DEF n, c
<1>4. \A d \in 0 .. n : (h + d) % n = Onward(n, h, d) /\ Onward(n, h, d) \in 0 .. n - 1
  BY <1>1, <1>2, Wraps
<1>5. \A b \in 0 .. n - 1 : Behind(n, b, h) \in 0 .. n - 1 /\ Onward(n, h, Behind(n, b, h)) = b
  BY <1>1, <1>2 DEF Onward, Behind
<1>6. Behind(n, a, h) \in S
  <2>1. Behind(n, a, h) \in 0 .. n - 1 /\ Behind(n, a, h) \in 0 .. n
    BY <1>1, <1>2, <1>5
  <2>2. (h + Behind(n, a, h)) % n = a
    BY <1>2, <1>4, <1>5, <2>1
  <2> QED
    BY <1>2, <2>1, <2>2
<1>7. d0 \in S /\ \A d \in S : d0 <= d
  <2>1. S \in SUBSET Nat /\ S # {}
    BY <1>1, <1>6
  <2> HIDE DEF S
  <2> QED
    BY <2>1, FirstOne
<1> HIDE DEF d0
<1>8. d0 \in 0 .. n - 1 /\ c[i] = Empty /\ i = Onward(n, h, d0) /\ i \in 0 .. n - 1
  <2>1. d0 \in 0 .. n - 1 /\ c[i] = Empty
    BY <1>7
  <2>2. d0 \in 0 .. n
    BY <1>1, <2>1
  <2> QED
    BY <1>4, <2>1, <2>2
<1> HIDE DEF i
<1>9. ASSUME NEW b \in 0 .. n - 1, OnPath(h, b, i), b # i PROVE c[b] # Empty
  <2>1. Behind(n, b, h) < d0 /\ Behind(n, b, h) \in 0 .. n - 1
    BY <1>1, <1>2, <1>5, <1>8, <1>9 DEF OnPath, Onward, Behind
  <2>2. Behind(n, b, h) \notin S
    BY <1>1, <1>7, <1>8, <2>1
  <2>3. Behind(n, b, h) \in 0 .. n
    BY <1>1, <2>1
  <2>4. (h + Behind(n, b, h)) % n = b
    BY <1>4, <1>5, <2>3
  <2> QED
    BY <2>1, <2>2, <2>4
<1> QED
  BY <1>3, <1>8, <1>9 DEF n, c, FreeAhead

(* There is an EMPTY bucket as long as there are fewer elements.           *)
LEMMA RoomLeft ==
  ASSUME HlAssumption, NEW tb, HlSound(tb), tb.filled < tb.n
  PROVE  \E a \in 0 .. tb.n - 1 : tb.ctrl[a] = Empty
<1>1. Tidy(tb) /\ Counted(tb)
  BY DEF HlSound
<1>2. tb.n \in Nat
  BY <1>1, TidyFacts
<1>3. Cardinality(HlOccupied(tb)) # tb.n
  BY <1>1, <1>2 DEF Counted
<1> QED
  BY <1>1, <1>3, OccupiedFinite

(* rehash() takes an element.                                              *)
LEMMA TakenFacts ==
  ASSUME HlAssumption, NEW tb, HlSound(tb), tb.filled < tb.n,
         NEW x \in HlElements, ~ HasKey(tb, x[1])
  PROVE  Gains(HlTaken(tb, x), tb, x)
<1>0. Tidy(tb)
  BY DEF HlSound
<1> DEFINE k == x[1]
           v == x[2]
           h == HomeOf(tb, k)
           i == FirstFreeFrom(tb, h)
           u == HlTaken(tb, x)
<1>1. k \in Keys /\ v \in Mapped /\ x = <<k, v>>
  BY DEF HlElements
<1>2. h \in 0 .. tb.n - 1
  BY <1>0, <1>1, TidyFacts
<1>3. PICK a \in 0 .. tb.n - 1 : tb.ctrl[a] = Empty
  BY RoomLeft
<1>4. u = PutInto(tb, i, k, v) /\ ~ HasKey(tb, k)
  BY DEF HlTaken, PutInto
<1> HIDE DEF k, v, i, u
<1>5. FreeAhead(tb, h, i)
  <2> HIDE DEF h
  <2> QED
    BY <1>0, <1>2, <1>3, FirstFree DEF i
<1>6. Gains(u, tb, <<k, v>>)
  BY <1>1, <1>4, <1>5, PutFacts
<1> QED
  BY <1>1, <1>6 DEF u

(* A table, or none.                                                       *)
HlGood(tb) == HlSound(tb) \/ (tb.g \in HlGroups /\ tb = HlNoTable(tb.g))

(* What is so of both.                                                     *)
LEMMA GoodFacts ==
  ASSUME HlAssumption, NEW tb, HlGood(tb)
  PROVE  /\ tb.n \in Nat /\ tb.n <= MostBuckets /\ tb.g \in HlGroups /\ tb.filled \in Nat /\ tb.filled <= tb.n
         /\ tb.n > 0 => HlSound(tb)
         /\ HlOccupied(tb) \subseteq 0 .. tb.n - 1
         /\ IsFiniteSet(HlOccupied(tb)) /\ tb.filled = Cardinality(HlOccupied(tb))
         /\ \A i \in 0 .. tb.n - 1 : tb.ctrl[i] # Empty <=> i \in HlOccupied(tb)
         /\ \A i \in HlOccupied(tb) : tb.vals[i] \in HlElements
         /\ KeyedOnce(tb)
<1>1. CASE HlSound(tb)
  <2>1. Tidy(tb) /\ KeyedOnce(tb) /\ Counted(tb)
    BY <1>1 DEF HlSound
  <2>2. /\ tb.n \in Nat /\ tb.n >= 8 /\ tb.n <= MostBuckets /\ tb.filled \in Nat
        /\ HlOccupied(tb) = {i \in 0 .. tb.n - 1 : tb.vals[i] # FreeBucket}
        /\ \A i \in 0 .. tb.n - 1 : tb.ctrl[i] = Empty <=> tb.vals[i] = FreeBucket
        /\ \A i \in HlOccupied(tb) : tb.vals[i] \in HlElements
    BY <2>1, TidyFacts
  <2>3. IsFiniteSet(HlOccupied(tb)) /\ Cardinality(HlOccupied(tb)) <= tb.n
    BY <2>1, OccupiedFinite
  <2>4. tb.g \in HlGroups
    BY <2>1 DEF Tidy
  <2> QED
    BY <1>1, <2>1, <2>2, <2>3, <2>4 DEF Counted
<1>2. CASE tb.g \in HlGroups /\ tb = HlNoTable(tb.g)
  <2>1. HlOccupied(tb) = {}
    BY <1>2, NoneUnbroken
  <2>2. tb.n = 0 /\ tb.filled = 0
    BY <1>2 DEF HlNoTable
  <2>3. IsFiniteSet({}) /\ Cardinality({}) = 0
    BY FS_EmptySet
  <2>4. MostBuckets \in Nat
    BY Capacities
  <2> QED
    BY <1>2, <2>1, <2>2, <2>3, <2>4, PowersFacts DEF KeyedOnce, MostBuckets
<1> QED
  BY <1>1, <1>2 DEF HlGood

(* A table as large as its fields say.                                     *)
LEMMA SoundShape ==
  ASSUME NEW tb, HlSound(tb)
  PROVE  tb \in HlShape(tb.n, tb.g) /\ tb.n \in BucketCounts /\ tb.g \in HlGroups
  BY DEF HlSound, Tidy

(* The elements of the first so many buckets.                              *)
Below(tb, i) == {j \in HlOccupied(tb) : j < i}

HeldBelow(tb, i) == {tb.vals[j] : j \in Below(tb, i)}

(* A table of n buckets that holds these, and nothing else.                *)
HoldsBelow(u, tb, n, i) ==
  /\ HlSound(u) /\ u.n = n /\ u.g = tb.g
  /\ HlHeld(u) = HeldBelow(tb, i) /\ u.filled = Cardinality(Below(tb, i))

(* One bucket more.                                                        *)
LEMMA BelowFacts ==
  ASSUME HlAssumption, NEW tb, HlGood(tb)
  PROVE  /\ Below(tb, 0) = {} /\ Below(tb, tb.n) = HlOccupied(tb) /\ HeldBelow(tb, tb.n) = HlHeld(tb)
         /\ \A i \in 1 .. tb.n :
              /\ i - 1 \notin HlOccupied(tb) => Below(tb, i) = Below(tb, i - 1)
              /\ i - 1 \in HlOccupied(tb) =>
                   /\ Below(tb, i) = Below(tb, i - 1) \cup {i - 1}
                   /\ HeldBelow(tb, i) = HeldBelow(tb, i - 1) \cup {tb.vals[i - 1]}
                   /\ Cardinality(Below(tb, i)) = Cardinality(Below(tb, i - 1)) + 1
                   /\ Cardinality(Below(tb, i - 1)) \in Nat
                   /\ Cardinality(Below(tb, i - 1)) < tb.filled
                   /\ \A x \in HeldBelow(tb, i - 1) : x[1] # tb.vals[i - 1][1]
<1>1. /\ tb.n \in Nat /\ HlOccupied(tb) \subseteq 0 .. tb.n - 1 /\ IsFiniteSet(HlOccupied(tb))
      /\ tb.filled = Cardinality(HlOccupied(tb)) /\ KeyedOnce(tb)
  BY GoodFacts
<1>2. Below(tb, 0) = {} /\ Below(tb, tb.n) = HlOccupied(tb)
  BY <1>1 DEF Below
<1>3. ASSUME NEW i \in 1 .. tb.n, i - 1 \notin HlOccupied(tb) PROVE Below(tb, i) = Below(tb, i - 1)
  BY <1>1, <1>3 DEF Below
<1>4. ASSUME NEW i \in 1 .. tb.n, i - 1 \in HlOccupied(tb)
      PROVE  /\ Below(tb, i) = Below(tb, i - 1) \cup {i - 1}
             /\ HeldBelow(tb, i) = HeldBelow(tb, i - 1) \cup {tb.vals[i - 1]}
             /\ Cardinality(Below(tb, i)) = Cardinality(Below(tb, i - 1)) + 1
             /\ Cardinality(Below(tb, i - 1)) \in Nat
             /\ Cardinality(Below(tb, i - 1)) < tb.filled
             /\ \A x \in HeldBelow(tb, i - 1) : x[1] # tb.vals[i - 1][1]
  <2>1. Below(tb, i) = Below(tb, i - 1) \cup {i - 1} /\ i - 1 \notin Below(tb, i - 1)
    BY <1>1, <1>4 DEF Below
  <2>2. HeldBelow(tb, i) = HeldBelow(tb, i - 1) \cup {tb.vals[i - 1]}
    BY <2>1 DEF HeldBelow
  <2>3. Below(tb, i) \subseteq HlOccupied(tb) /\ Below(tb, i - 1) \subseteq HlOccupied(tb)
    BY DEF Below
  <2>4. IsFiniteSet(Below(tb, i)) /\ IsFiniteSet(Below(tb, i - 1))
    BY <1>1, <2>3, FS_Subset
  <2>5. Cardinality(Below(tb, i)) = Cardinality(Below(tb, i - 1)) + 1
    BY <2>1, <2>4, FS_AddElement
  <2>6. Cardinality(Below(tb, i)) <= tb.filled /\ Cardinality(HlOccupied(tb)) \in Nat
    BY <1>1, <2>3, FS_Subset, FS_CardinalityType
  <2>7. Cardinality(Below(tb, i - 1)) \in Nat
    BY <2>4, FS_CardinalityType
  <2>8. \A x \in HeldBelow(tb, i - 1) : x[1] # tb.vals[i - 1][1]
    BY <1>1, <1>4, <2>1, <2>3 DEF HeldBelow, KeyedOnce
  <2> QED
    BY <1>1, <2>1, <2>2, <2>5, <2>6, <2>7, <2>8
<1>5. HeldBelow(tb, tb.n) = HlHeld(tb)
  BY <1>2 DEF HeldBelow, HlHeld
<1> QED
  BY <1>2, <1>3, <1>4, <1>5

(* One step of the moves.                                                  *)
HlMoveOne(tb, u, i) == IF tb.ctrl[i - 1] = Empty THEN u ELSE HlTaken(u, tb.vals[i - 1])

(* It moves one element and keeps those before it.                         *)
LEMMA MoveOneFacts ==
  ASSUME HlAssumption, NEW tb, HlGood(tb), NEW n \in BucketCounts, tb.filled <= n,
         NEW i \in 1 .. tb.n, NEW u, HoldsBelow(u, tb, n, i - 1)
  PROVE  HoldsBelow(HlMoveOne(tb, u, i), tb, n, i)
<1>1. /\ tb.n \in Nat /\ n \in Nat /\ tb.filled \in Nat /\ i - 1 \in 0 .. tb.n - 1
      /\ tb.ctrl[i - 1] # Empty <=> i - 1 \in HlOccupied(tb)
  BY GoodFacts, Capacities
<1>2. CASE tb.ctrl[i - 1] = Empty
  <2>1. HlMoveOne(tb, u, i) = u
    BY <1>2 DEF HlMoveOne
  <2>2. Below(tb, i) = Below(tb, i - 1)
    BY <1>1, <1>2, BelowFacts
  <2> QED
    BY <2>1, <2>2 DEF HoldsBelow, HeldBelow
<1>3. CASE tb.ctrl[i - 1] # Empty
  <2> DEFINE x == tb.vals[i - 1]
  <2>1. i - 1 \in HlOccupied(tb) /\ x \in HlElements
    BY <1>1, <1>3, GoodFacts
  <2>2. HlMoveOne(tb, u, i) = HlTaken(u, x)
    BY <1>3 DEF HlMoveOne
  <2>3. /\ HeldBelow(tb, i) = HeldBelow(tb, i - 1) \cup {x}
        /\ Cardinality(Below(tb, i)) = Cardinality(Below(tb, i - 1)) + 1
        /\ Cardinality(Below(tb, i - 1)) \in Nat
        /\ Cardinality(Below(tb, i - 1)) < tb.filled
        /\ \A y \in HeldBelow(tb, i - 1) : y[1] # x[1]
    BY <2>1, BelowFacts
  <2> HIDE DEF x
  <2>4. HlSound(u) /\ u.filled < u.n /\ ~ HasKey(u, x[1])
    BY <1>1, <2>3 DEF HoldsBelow, HasKey
  <2>5. Gains(HlTaken(u, x), u, x)
    BY <2>1, <2>4, TakenFacts
  <2> QED
    BY <2>2, <2>3, <2>5 DEF HoldsBelow, Gains
<1> QED
  BY <1>2, <1>3

(* The moves, one after the other.                                         *)
LEMMA MovesFacts ==
  ASSUME HlAssumption, NEW tb, HlGood(tb), NEW n \in BucketCounts, tb.filled <= n
  PROVE  \A i \in 0 .. tb.n : HoldsBelow(HlMoves(tb, n)[i], tb, n, i)
<1> DEFINE N == tb.n
           Inv == [i \in 0 .. N |-> {u \in HlShape(n, tb.g) : HoldsBelow(u, tb, n, i)}]
           step == [i \in 1 .. N |-> [u \in HlShape(n, tb.g) |-> HlMoveOne(tb, u, i)]]
           f0 == HlEmptyTable(n, tb.g)
           Is(f) == f = [i \in 0 .. N |-> IF i = 0 THEN f0 ELSE HlMoveOne(tb, f[i - 1], i)]
<1>1. N \in Nat /\ tb.g \in HlGroups
  BY GoodFacts
<1>2. \A u, i : HoldsBelow(u, tb, n, i) => u \in HlShape(n, tb.g)
  BY SoundShape DEF HoldsBelow
<1>3. HoldsBelow(f0, tb, n, 0)
  <2>1. HlSound(f0) /\ HlHeld(f0) = {} /\ f0.n = n /\ f0.g = tb.g /\ f0.filled = 0
    BY <1>1, EmptyTableFacts
  <2>2. Below(tb, 0) = {} /\ Cardinality({}) = 0
    BY BelowFacts, FS_EmptySet
  <2> QED
    BY <2>1, <2>2 DEF HoldsBelow, HeldBelow
<1> HIDE DEF f0
<1>4. ASSUME NEW i \in 1 .. N, NEW u, HoldsBelow(u, tb, n, i - 1) PROVE HoldsBelow(HlMoveOne(tb, u, i), tb, n, i)
  BY <1>4, MoveOneFacts
<1>5. Leads(step, Inv, N)
  <2> SUFFICES ASSUME NEW i \in 1 .. N, NEW u \in Inv[i - 1] PROVE step[i][u] \in Inv[i]
    BY DEF Leads
  <2>1. i - 1 \in 0 .. N /\ i \in 0 .. N
    BY <1>1
  <2>2. HoldsBelow(u, tb, n, i - 1) /\ u \in HlShape(n, tb.g)
    BY <2>1
  <2>3. step[i][u] = HlMoveOne(tb, u, i)
    BY <2>2
  <2>4. HoldsBelow(HlMoveOne(tb, u, i), tb, n, i)
    BY <1>4, <2>2
  <2> QED
    BY <1>2, <2>1, <2>3, <2>4
<1>6. f0 \in Inv[0]
  BY <1>1, <1>2, <1>3
<1>7. PICK f : Walks(f, f0, step, Inv, N)
  <2> HIDE DEF Inv, step, N
  <2> QED
    BY <1>1, <1>5, <1>6, WalkExists
<1>8. Is(f)
  <2>1. ASSUME NEW i \in 0 .. N PROVE f[i] = IF i = 0 THEN f0 ELSE HlMoveOne(tb, f[i - 1], i)
    <3>1. CASE i = 0
      BY <1>7, <3>1 DEF Walks
    <3>2. CASE i # 0
      <4>1. i \in 1 .. N /\ i - 1 \in 0 .. N
        BY <1>1, <3>2
      <4>2. f[i] = step[i][f[i - 1]] /\ f[i - 1] \in Inv[i - 1]
        BY <1>7, <4>1 DEF Walks
      <4>3. f[i - 1] \in HlShape(n, tb.g)
        BY <4>1, <4>2
      <4> QED
        BY <3>2, <4>1, <4>2, <4>3
    <3> QED
      BY <3>1, <3>2
  <2> QED
    BY <1>7, <2>1 DEF Walks
<1>9. HlMoves(tb, n) = CHOOSE g : Is(g)
  BY DEF HlMoves, HlMoveOne, f0
<1> DEFINE m == HlMoves(tb, n)
<1>10. Is(m)
  <2> HIDE DEF Is
  <2> QED
    BY <1>8, <1>9
<1> HIDE DEF m
<1>11. m[0] = f0 /\ \A i \in 1 .. N : m[i] = HlMoveOne(tb, m[i - 1], i)
  BY <1>1, <1>10
<1> HIDE DEF Is
<1> DEFINE S == {i \in 0 .. N : HoldsBelow(m[i], tb, n, i)}
<1>12. \A i \in 0 .. N : i \in S
  <2>1. 0 \in S
    BY <1>1, <1>3, <1>11
  <2>2. ASSUME NEW i \in 1 .. N, i - 1 \in S PROVE i \in S
    <3>1. HoldsBelow(m[i - 1], tb, n, i - 1) /\ i \in 0 .. N
      BY <2>2
    <3>2. HoldsBelow(HlMoveOne(tb, m[i - 1], i), tb, n, i)
      BY <1>4, <3>1
    <3> QED
      BY <1>11, <3>1, <3>2
  <2> HIDE DEF S
  <2> QED
    BY <1>1, <2>1, <2>2, InductionUpTo
<1> QED
  BY <1>12 DEF m

(* A table of the same elements.                                           *)
KeepsElements(u, tb) ==
  HlSound(u) /\ u.g = tb.g /\ u.filled = tb.filled /\ HlHeld(u) = HlHeld(tb)

(* rehash() keeps the elements, in at least so many buckets.               *)
LEMMA RehashedFacts ==
  ASSUME HlAssumption, NEW tb, HlGood(tb), NEW required \in Nat, required <= MostBuckets
  PROVE  KeepsElements(HlRehashed(tb, required), tb) /\ HlRehashed(tb, required).n >= required
<1> DEFINE r == IF required < tb.filled THEN tb.filled ELSE required
           n == GrowthSizeAligned(r)
<1>1. tb.n \in Nat /\ tb.n <= MostBuckets /\ tb.filled \in Nat /\ tb.filled <= tb.n /\ MostBuckets \in Nat
      /\ tb.filled = Cardinality(HlOccupied(tb))
  BY GoodFacts, Capacities
<1>2. r \in Nat /\ r <= MostBuckets /\ r >= required /\ r >= tb.filled
  BY <1>1
<1>3. HlRehashed(tb, required) = HlMoves(tb, n)[tb.n]
  BY DEF HlRehashed
<1> HIDE DEF r
<1>4. n \in BucketCounts /\ n >= r
  BY <1>2, AlignedFacts
<1> HIDE DEF n
<1>5. n \in Nat
  BY <1>4, Capacities
<1>6. HoldsBelow(HlMoves(tb, n)[tb.n], tb, n, tb.n)
  <2>1. tb.filled <= n /\ tb.n \in 0 .. tb.n
    BY <1>1, <1>2, <1>4, <1>5
  <2> QED
    BY <1>4, <2>1, MovesFacts
<1>7. Below(tb, tb.n) = HlOccupied(tb) /\ HeldBelow(tb, tb.n) = HlHeld(tb)
  BY BelowFacts
<1> QED
  BY <1>1, <1>2, <1>3, <1>4, <1>5, <1>6, <1>7 DEF HoldsBelow, KeepsElements

-----------------------------------------------------------------------------
(* The buckets a probe comes by.                                           *)

(* The group, and the control byte, of the bucket e places behind h.       *)
GroupOf(g, h, e) == (e + (h % g)) \div g

ByteAt(n, g, h, e) == GroupStart(n, g, h, GroupOf(g, h, e)) + ((e + (h % g)) % g)

(* A group is where the bytes of g consecutive buckets are.                *)
LEMMA BytePlaces ==
  ASSUME NEW n \in BucketCounts, NEW g \in HlGroups, NEW h \in 0 .. n - 1, NEW e \in Nat
  PROVE  /\ GroupOf(g, h, e) \in Nat /\ ByteAt(n, g, h, e) \in Nat
         /\ ByteAt(n, g, h, e) % n = (h + e) % n
         /\ ByteAt(n, g, h, e) >= n + g => ByteAt(n, g, h, e) >= 2 * n
         /\ ByteAt(n, g, h, e) >= 2 * n => e >= n
         /\ (h % g) \in 0 .. g - 1 /\ h % g <= h
         /\ e + (h % g) = g * GroupOf(g, h, e) + ((e + (h % g)) % g)
         /\ (e + (h % g)) % g \in 0 .. g - 1
         /\ GroupOf(g, h, e) = 0 => (e + (h % g)) % g >= h % g
<1>1. n \in Nat /\ n >= 8 /\ g \in Nat /\ g > 0
  BY Capacities, PowersFacts DEF HlGroups
<1> DEFINE cut == h % g
           p == GroupOf(g, h, e)
           s == (e + cut) % g
           G == GroupStart(n, g, h, p)
           c == ByteAt(n, g, h, e)
<1>2. cut \in 0 .. g - 1 /\ cut <= h /\ (n <= g => cut = h)
  <2>1. cut \in 0 .. g - 1 /\ h \div g \in Nat /\ h = g * (h \div g) + cut
    BY <1>1
  <2> DEFINE q == h \div g
  <2>2. g * q \in Nat
    BY <1>1, <2>1
  <2>3. n <= g => h \in 0 .. g - 1
    BY <1>1
  <2>4. n <= g => cut = h
    BY <1>1, <2>3
  <2> HIDE DEF cut, q
  <2>5. h = g * q + cut
    BY <2>1 DEF q
  <2> QED
    BY <1>1, <2>1, <2>2, <2>4, <2>5
<1>3. p \in Nat /\ s \in 0 .. g - 1 /\ e + cut = g * p + s /\ c = G + s
  <2>1. e + cut \in Nat
    BY <1>1, <1>2
  <2>2. p = (e + cut) \div g
    BY DEF GroupOf
  <2>3. c = G + s
    BY DEF ByteAt
  <2> DEFINE x == e + cut
  <2>4. x \in Nat
    BY <2>1
  <2> HIDE DEF x
  <2>5. x \div g \in Nat /\ x % g \in 0 .. g - 1 /\ x = g * (x \div g) + (x % g)
    BY <1>1, <2>4
  <2> QED
    BY <2>2, <2>3, <2>5 DEF x
<1>4. /\ G \in Nat
      /\ \E q \in Nat : (h - cut) + p * g = G + n * q
      /\ n > g => G <= n
      /\ n <= g => G \in {0, g}
  <2> HIDE DEF p
  <2> QED
    BY <1>3, GroupStarts
<1>5. p = 0 /\ n <= g => G = 0
  <2>1. ASSUME p = 0, n <= g PROVE G = 0
    <3>1. G = (((h - cut) + 2 * g * (0 \div 2)) % n) + ((0 % 2) * g)
      BY <2>1 DEF GroupStart
    <3>2. 0 \div 2 = 0 /\ 0 % 2 = 0
      OBVIOUS
    <3>3. h - cut = 0
      BY <1>1, <1>2, <2>1
    <3> HIDE DEF cut, p, G
    <3>4. G = ((0 + 2 * g * 0) % n) + (0 * g)
      BY <3>1, <3>2, <3>3
    <3>5. 2 * g * 0 = 0 /\ 0 * g = 0 /\ 0 % n = 0
      BY <1>1
    <3> QED
      BY <3>4, <3>5
  <2> QED
    BY <2>1
<1>6. p = 0 => s >= cut
  BY <1>1, <1>2, <1>3
<1> HIDE DEF cut, p, s, G, c
<1>7. PICK q \in Nat : (h - cut) + p * g = G + n * q
  BY <1>4
<1>8. g * p \in Nat /\ p * g = g * p /\ n * q \in Nat /\ (p # 0 => g * p >= g)
  BY <1>1, <1>3, <1>7
<1>9. h + e = c + n * q /\ c \in Nat
  BY <1>1, <1>2, <1>3, <1>4, <1>7, <1>8
<1>10. c % n = (h + e) % n
  <2>1. n \in Nat /\ n > 0 /\ c \in Int /\ q \in Int
    BY <1>1, <1>7, <1>9
  <2>2. (c + n * q) % n = c % n
    BY <2>1, RoundsVanish
  <2> QED
    BY <1>9, <2>2
<1>11. CASE n > g
  <2>1. c < n + g /\ c < 2 * n
    BY <1>1, <1>3, <1>4, <1>11
  <2> QED
    BY <1>1, <1>2, <1>3, <1>6, <1>9, <1>10, <2>1 DEF cut, p, s, c
<1>12. CASE n <= g
  <2>1. c >= 2 * n => e >= n
    <3>1. CASE G = 0
      BY <1>1, <1>2, <1>3, <1>8, <1>12, <3>1
    <3>2. CASE G = g
      <4>1. p # 0
        BY <1>1, <1>5, <1>12, <3>2
      <4> QED
        BY <1>1, <1>2, <1>3, <1>8, <1>12, <3>2, <4>1
    <3> QED
      BY <1>4, <1>12, <3>1, <3>2
  <2>2. n + g >= 2 * n
    BY <1>1, <1>12
  <2>3. c >= n + g => c >= 2 * n
    BY <1>1, <1>9, <2>2
  <2> QED
    BY <1>1, <1>2, <1>3, <1>6, <1>9, <1>10, <2>1, <2>3 DEF cut, p, s, c
<1> QED
  BY <1>1, <1>11, <1>12

ProbeGroup(tb, k, e) == GroupOf(tb.g, HomeOf(tb, k), e)

ProbeByte(tb, k, e) == ByteAt(tb.n, tb.g, HomeOf(tb, k), e)

ProbeBucket(tb, k, e) == (HomeOf(tb, k) + e) % tb.n

(* The byte of a bucket is in its group, and tells what is in the bucket   *)
(* unless the probe has gone further than round the table.                 *)
ByteTells(tb, k, e) ==
  /\ ProbeGroup(tb, k, e) \in Nat /\ ProbeByte(tb, k, e) \in Nat
  /\ ProbeByte(tb, k, e) \in GroupBytes(tb, k, ProbeGroup(tb, k, e))
  /\ ProbeByte(tb, k, e) % tb.n = ProbeBucket(tb, k, e)
  /\ ProbeBucket(tb, k, e) \in 0 .. tb.n - 1
  /\ \/ Ctrl(tb, ProbeByte(tb, k, e)) = tb.ctrl[ProbeBucket(tb, k, e)]
     \/ Ctrl(tb, ProbeByte(tb, k, e)) = Empty /\ e >= tb.n

(* What a control byte on the way of a probe tells.                        *)
LEMMA ProbeBytes ==
  ASSUME HlAssumption, NEW tb, Tidy(tb), NEW k \in Keys, NEW e \in Nat
  PROVE  ByteTells(tb, k, e)
<1> DEFINE n == tb.n
           g == tb.g
           h == HomeOf(tb, k)
           p == GroupOf(g, h, e)
           c == ByteAt(n, g, h, e)
           b == (h + e) % n
           s == (e + (h % g)) % g
<1>1. n \in Nat /\ n >= 8 /\ g \in Nat /\ g > 0 /\ h \in 0 .. n - 1
  BY TidyFacts
<1>2. n \in BucketCounts /\ g \in HlGroups
  BY DEF Tidy
<1>3. p = ProbeGroup(tb, k, e) /\ c = ProbeByte(tb, k, e) /\ b = ProbeBucket(tb, k, e)
  BY DEF ProbeGroup, ProbeByte, ProbeBucket
<1>4. c = GroupAt(tb, k, p) + s
  BY DEF ByteAt, GroupAt, GroupBase, GroupStart
<1>5. \A i : Ctrl(tb, i) = IF i < n + g THEN tb.ctrl[i] ELSE Empty
  BY DEF Ctrl
<1>6. \A i \in 0 .. g - 1 : tb.ctrl[n + i] = IF i < n THEN tb.ctrl[i] ELSE Empty
  BY DEF Tidy, Mirrored
<1>7. GroupBytes(tb, k, p) =
        (IF p = 0 THEN GroupAt(tb, k, p) + (h % g) ELSE GroupAt(tb, k, p)) .. GroupAt(tb, k, p) + g - 1
  BY DEF GroupBytes
<1> DEFINE G == GroupAt(tb, k, p)
<1>8. G \in Nat /\ G = GroupStart(n, g, h, p)
  <2>1. G = GroupStart(n, g, h, p)
    BY DEF GroupAt, GroupBase, GroupStart
  <2>2. p \in Nat
    <3> HIDE DEF n, g, h
    <3> QED
      BY <1>1, <1>2, BytePlaces
  <2> HIDE DEF n, g, h, p, G
  <2> QED
    BY <1>1, <1>2, <2>1, <2>2, GroupStarts
<1> HIDE DEF n, g, h, p, c, b, s, G
<1>9. /\ p \in Nat /\ c \in Nat /\ c % n = b
      /\ (c >= n + g => c >= 2 * n)
      /\ (c >= 2 * n => e >= n)
      /\ (h % g) \in 0 .. g - 1
      /\ s \in 0 .. g - 1 /\ (p = 0 => s >= h % g)
  <2>1. p \in Nat /\ c \in Nat
    BY <1>1, <1>2, BytePlaces DEF p, c
  <2>2. c % n = b
    BY <1>1, <1>2, BytePlaces DEF c, b
  <2>3. (c >= n + g => c >= 2 * n) /\ (c >= 2 * n => e >= n)
    BY <1>1, <1>2, BytePlaces DEF c
  <2>4. (h % g) \in 0 .. g - 1 /\ s \in 0 .. g - 1 /\ (p = 0 => s >= h % g)
    BY <1>1, <1>2, BytePlaces DEF p, s
  <2> QED
    BY <2>1, <2>2, <2>3, <2>4
<1>10. b \in 0 .. n - 1
  BY <1>1, <1>9
<1>11. c \in GroupBytes(tb, k, p)
  BY <1>1, <1>4, <1>7, <1>8, <1>9 DEF G
<1>12. Ctrl(tb, c) = tb.ctrl[b] \/ (Ctrl(tb, c) = Empty /\ e >= n)
  <2>1. CASE c < n
    <3>1. c % n = c
      BY <1>1, <1>9, <2>1, Wraps
    <3> QED
      BY <1>1, <1>5, <1>9, <2>1, <3>1
  <2>2. CASE c >= n /\ c < 2 * n
    <3>1. c < n + g
      BY <1>1, <1>9, <2>2
    <3>2. c - n \in 0 .. g - 1 /\ c - n < n /\ n + (c - n) = c
      BY <1>1, <1>9, <2>2, <3>1
    <3>3. c % n = c - n
      <4>1. c = n * 1 + (c - n) /\ c - n \in 0 .. n - 1 /\ c \in Int
        BY <1>1, <1>9, <2>2
      <4> QED
        BY <1>1, <4>1, DivisionUnique
    <3>4. tb.ctrl[c] = tb.ctrl[c - n]
      BY <1>6, <3>2
    <3> QED
      BY <1>5, <1>9, <3>1, <3>3, <3>4
  <2>3. CASE c >= 2 * n
    <3>1. e >= n
      BY <1>9, <2>3
    <3>2. CASE c < n + g
      <4>1. c - n \in 0 .. g - 1 /\ ~ (c - n < n) /\ n + (c - n) = c
        BY <1>1, <1>9, <2>3, <3>2
      <4>2. tb.ctrl[c] = Empty
        BY <1>6, <4>1
      <4> QED
        BY <1>5, <3>1, <3>2, <4>2
    <3>3. CASE ~ (c < n + g)
      BY <1>5, <3>1, <3>3
    <3> QED
      BY <3>2, <3>3
  <2> QED
    BY <1>1, <1>9, <2>1, <2>2, <2>3
<1> QED
  BY <1>3, <1>9, <1>10, <1>11, <1>12 DEF ByteTells, n

(* And each byte of a group is that of a bucket.                           *)
LEMMA BytesProbed ==
  ASSUME HlAssumption, NEW tb, Tidy(tb), NEW k \in Keys, NEW j \in Nat, NEW c \in GroupBytes(tb, k, j)
  PROVE  \E e \in Nat : c = ProbeByte(tb, k, e) /\ ProbeGroup(tb, k, e) = j
<1> DEFINE n == tb.n
           g == tb.g
           h == HomeOf(tb, k)
           cut == h % g
           G == GroupAt(tb, k, j)
           e == g * j + (c - G) - cut
<1>1. n \in Nat /\ n >= 8 /\ g \in Nat /\ g > 0 /\ h \in 0 .. n - 1
  BY TidyFacts
<1>2. n \in BucketCounts /\ g \in HlGroups
  BY DEF Tidy
<1>3. G = GroupStart(n, g, h, j)
  BY DEF GroupAt, GroupBase, GroupStart
<1>4. c \in (IF j = 0 THEN G + cut ELSE G) .. G + g - 1
  BY DEF GroupBytes
<1>5. \A d : /\ ProbeGroup(tb, k, d) = (d + cut) \div g
             /\ ProbeByte(tb, k, d) = GroupStart(n, g, h, (d + cut) \div g) + ((d + cut) % g)
  BY DEF ProbeGroup, ProbeByte, ByteAt, GroupOf
<1>6. G \in Nat
  <2> HIDE DEF n, g, h, G
  <2> QED
    BY <1>1, <1>2, <1>3, GroupStarts
<1>7. cut \in 0 .. g - 1
  BY <1>1
<1> HIDE DEF n, g, h, cut, G
<1>8. g * j \in Nat /\ (j # 0 => g * j >= g)
  BY <1>1
<1>9. c - G \in 0 .. g - 1 /\ (j = 0 => c - G >= cut) /\ c = G + (c - G)
  BY <1>1, <1>4, <1>6, <1>7
<1>10. e \in Nat
  <2>1. j = 0 => g * j = 0
    BY <1>1
  <2> QED
    BY <1>1, <1>7, <1>8, <1>9, <2>1
<1>11. e + cut = g * j + (c - G)
  BY <1>6, <1>7, <1>8, <1>9
<1> DEFINE x == e + cut
           o == c - G
<1>12. x \in Int /\ o \in 0 .. g - 1 /\ x = g * j + o /\ j \in Int
  BY <1>7, <1>9, <1>10, <1>11
<1> HIDE DEF x, o
<1>13. x % g = o /\ x \div g = j
  BY <1>1, <1>12, DivisionUnique
<1>14. ProbeGroup(tb, k, e) = j /\ ProbeByte(tb, k, e) = G + o
  BY <1>3, <1>5, <1>13 DEF x
<1>15. c = G + o
  BY <1>9 DEF o
<1> QED
  BY <1>10, <1>14, <1>15

(* Products in order.                                                      *)
LEMMA Products ==
  ASSUME NEW g \in Nat, NEW a \in Nat, NEW b \in Nat, a <= b
  PROVE  g * a <= g * b
<1> DEFINE c == b - a
<1>1. c \in Nat /\ b = a + c
  OBVIOUS
<1> HIDE DEF c
<1>2. g * b = g * a + g * c /\ g * c \in Nat /\ g * a \in Nat
  BY <1>1
<1> QED
  BY <1>2

(* They come in the order of the buckets.                                  *)
LEMMA ProbeOrder ==
  ASSUME HlAssumption, NEW tb, Tidy(tb), NEW k \in Keys, NEW d \in Nat, NEW e \in Nat
  PROVE  /\ ProbeGroup(tb, k, d) < ProbeGroup(tb, k, e) => d < e
         /\ d <= e => ProbeGroup(tb, k, d) <= ProbeGroup(tb, k, e)
         /\ ProbeGroup(tb, k, d) = ProbeGroup(tb, k, e) =>
              (ProbeByte(tb, k, d) < ProbeByte(tb, k, e) <=> d < e)
<1> DEFINE n == tb.n
           g == tb.g
           h == HomeOf(tb, k)
           cut == h % g
           P(x) == (x + cut) \div g
           S(x) == (x + cut) % g
<1>1. n \in Nat /\ n >= 8 /\ g \in Nat /\ g > 0 /\ h \in 0 .. n - 1
  BY TidyFacts
<1>2. n \in BucketCounts /\ g \in HlGroups
  BY DEF Tidy
<1>3. \A x : /\ ProbeGroup(tb, k, x) = P(x)
             /\ ProbeByte(tb, k, x) = GroupStart(n, g, h, P(x)) + S(x)
  BY DEF ProbeGroup, ProbeByte, ByteAt, GroupOf
<1>4. cut \in 0 .. g - 1
  BY <1>1
<1>5. ASSUME NEW x \in Nat
      PROVE  P(x) \in Nat /\ S(x) \in 0 .. g - 1 /\ x + cut = g * P(x) + S(x) /\ GroupStart(n, g, h, P(x)) \in Nat
  <2> DEFINE y == x + cut
  <2>1. y \in Nat
    BY <1>4
  <2> HIDE DEF y, n, g, h, cut
  <2>2. y \div g \in Nat /\ y % g \in 0 .. g - 1 /\ y = g * (y \div g) + (y % g)
    BY <1>1, <2>1
  <2>3. GroupStart(n, g, h, y \div g) \in Nat
    BY <1>1, <1>2, <2>2, GroupStarts
  <2> QED
    BY <2>2, <2>3 DEF y
<1> HIDE DEF n, g, h, cut, P, S
<1>6. ASSUME P(d) < P(e) PROVE d < e
  <2>1. g * P(e) >= g * (P(d) + 1)
    <3>1. P(d) + 1 \in Nat /\ P(e) \in Nat /\ P(d) + 1 <= P(e)
      BY <1>5, <1>6
    <3>2. g * (P(d) + 1) <= g * P(e)
      BY <1>1, <3>1, Products
    <3> QED
      BY <1>1, <3>1, <3>2
  <2>2. g * (P(d) + 1) = g * P(d) + g
    BY <1>1, <1>5
  <2>3. g * P(d) \in Nat /\ g * P(e) \in Nat
    BY <1>1, <1>5
  <2> QED
    BY <1>1, <1>4, <1>5, <2>1, <2>2, <2>3
<1>7. ASSUME P(e) < P(d) PROVE e < d
  <2>1. g * P(d) >= g * (P(e) + 1)
    <3>1. P(e) + 1 \in Nat /\ P(d) \in Nat /\ P(e) + 1 <= P(d)
      BY <1>5, <1>7
    <3>2. g * (P(e) + 1) <= g * P(d)
      BY <1>1, <3>1, Products
    <3> QED
      BY <1>1, <3>1, <3>2
  <2>2. g * (P(e) + 1) = g * P(e) + g
    BY <1>1, <1>5
  <2>3. g * P(d) \in Nat /\ g * P(e) \in Nat
    BY <1>1, <1>5
  <2> QED
    BY <1>1, <1>4, <1>5, <2>1, <2>2, <2>3
<1>8. ASSUME P(d) = P(e) PROVE ProbeByte(tb, k, d) < ProbeByte(tb, k, e) <=> d < e
  <2>1. g * P(d) \in Nat /\ g * P(d) = g * P(e)
    BY <1>1, <1>5, <1>8
  <2>2. d + cut = g * P(d) + S(d) /\ e + cut = g * P(d) + S(e)
    BY <1>5, <2>1
  <2>3. d < e <=> S(d) < S(e)
    BY <1>1, <1>4, <1>5, <2>1, <2>2
  <2>4. ProbeByte(tb, k, d) = GroupStart(n, g, h, P(d)) + S(d)
        /\ ProbeByte(tb, k, e) = GroupStart(n, g, h, P(d)) + S(e)
    BY <1>3, <1>8
  <2> QED
    BY <1>1, <1>5, <2>3, <2>4
<1> QED
  BY <1>3, <1>5, <1>6, <1>7, <1>8

(* Where a probe ends.                                                     *)
LEMMA ProbeEnds ==
  ASSUME NEW tb, NEW k, NEW last \in Nat
  PROVE  /\ ProbeEnd(tb, k, last) \in 0 .. last
         /\ ProbeEnd(tb, k, last) = last \/ Decides(tb, k, ProbeEnd(tb, k, last))
         /\ \A i \in 0 .. ProbeEnd(tb, k, last) - 1 : ~ Decides(tb, k, i)
<1> DEFINE S == {j \in 0 .. last : j = last \/ Decides(tb, k, j)}
           P(j) == (j = last \/ Decides(tb, k, j)) /\ \A i \in 0 .. j - 1 : ~ Decides(tb, k, i)
           f == FirstOf(S)
<1>1. f \in S /\ \A d \in S : f <= d
  <2>1. S \in SUBSET Nat /\ last \in S
    OBVIOUS
  <2> HIDE DEF S
  <2> QED
    BY <2>1, FirstOne
<1> HIDE DEF f
<1>2. f \in 0 .. last /\ P(f)
  <2>1. \A i \in 0 .. f - 1 : i \in 0 .. last /\ i \notin S
    BY <1>1
  <2> QED
    BY <1>1, <2>1
<1>3. ProbeEnd(tb, k, last) = CHOOSE j \in 0 .. last : P(j)
  BY DEF ProbeEnd
<1> DEFINE e == ProbeEnd(tb, k, last)
<1>4. e \in 0 .. last /\ P(e)
  <2> HIDE DEF P
  <2> QED
    BY <1>2, <1>3
<1> QED
  BY <1>4

(* A bucket whose byte is not taken for EMPTY holds an element; if it is   *)
(* that of the key, the byte is a match.                                   *)
LEMMA ByteSays ==
  ASSUME HlAssumption, NEW tb, Tidy(tb), NEW k \in Keys, NEW e \in Nat
  PROVE  /\ ProbeByte(tb, k, e) \notin Empties(tb, k, ProbeGroup(tb, k, e)) =>
              /\ tb.ctrl[ProbeBucket(tb, k, e)] # Empty
              /\ tb.vals[ProbeBucket(tb, k, e)][1] = k =>
                   ProbeByte(tb, k, e) \in Matches(tb, k, ProbeGroup(tb, k, e))
         /\ e < tb.n /\ tb.ctrl[ProbeBucket(tb, k, e)] # Empty =>
              ProbeByte(tb, k, e) \notin Empties(tb, k, ProbeGroup(tb, k, e))
         /\ e < tb.n /\ tb.ctrl[ProbeBucket(tb, k, e)] = Empty =>
              ProbeByte(tb, k, e) \in Empties(tb, k, ProbeGroup(tb, k, e))
<1> DEFINE b == ProbeBucket(tb, k, e)
           c == ProbeByte(tb, k, e)
           j == ProbeGroup(tb, k, e)
<1>1. /\ c \in GroupBytes(tb, k, j) /\ c % tb.n = b /\ b \in 0 .. tb.n - 1
      /\ Ctrl(tb, c) = tb.ctrl[b] \/ (Ctrl(tb, c) = Empty /\ e >= tb.n)
  BY ProbeBytes DEF ByteTells
<1>2. /\ tb.n \in Nat /\ (tb.ctrl[b] = Empty <=> tb.vals[b] = FreeBucket)
      /\ (tb.ctrl[b] # Empty => tb.ctrl[b] = Tag(tb.vals[b][1]))
  BY <1>1, TidyFacts
<1>3. c \in Empties(tb, k, j) <=> Ctrl(tb, c) = Empty
  BY <1>1 DEF Empties
<1>4. c \in Matches(tb, k, j) <=> Ctrl(tb, c) = Tag(k) /\ tb.vals[b] # FreeBucket /\ tb.vals[b][1] = k
  BY <1>1 DEF Matches
<1> HIDE DEF b, c, j
<1> QED
  BY <1>1, <1>2, <1>3, <1>4 DEF b, c, j

(* How far a bucket is from the home of a key.                             *)
LEMMA ProbePlaces ==
  ASSUME HlAssumption, NEW tb, Tidy(tb), NEW k \in Keys
  PROVE  /\ \A b \in 0 .. tb.n - 1 : /\ Behind(tb.n, b, HomeOf(tb, k)) \in 0 .. tb.n - 1
                                     /\ ProbeBucket(tb, k, Behind(tb.n, b, HomeOf(tb, k))) = b
         /\ \A e \in 0 .. tb.n - 1 : /\ ProbeBucket(tb, k, e) \in 0 .. tb.n - 1
                                     /\ Behind(tb.n, ProbeBucket(tb, k, e), HomeOf(tb, k)) = e
                                     /\ \A b \in 0 .. tb.n - 1 :
                                          OnPath(HomeOf(tb, k), b, ProbeBucket(tb, k, e)) <=>
                                            Behind(tb.n, b, HomeOf(tb, k)) <= e
<1> DEFINE n == tb.n
           h == HomeOf(tb, k)
<1>1. n \in Nat /\ n > 0 /\ h \in 0 .. n - 1
  BY TidyFacts
<1>2. \A e : ProbeBucket(tb, k, e) = (h + e) % n
  BY DEF ProbeBucket
<1> HIDE DEF n, h
<1>3. \A d \in 0 .. n : (h + d) % n = Onward(n, h, d) /\ Onward(n, h, d) \in 0 .. n - 1
  BY <1>1, Wraps
<1>4. ASSUME NEW b \in 0 .. n - 1
      PROVE  Behind(n, b, h) \in 0 .. n - 1 /\ ProbeBucket(tb, k, Behind(n, b, h)) = b
  <2>1. Behind(n, b, h) \in 0 .. n - 1 /\ Onward(n, h, Behind(n, b, h)) = b
    BY <1>1 DEF Behind, Onward
  <2>2. Behind(n, b, h) \in 0 .. n
    BY <1>1, <2>1
  <2> QED
    BY <1>2, <1>3, <2>1, <2>2
<1>5. ASSUME NEW e \in 0 .. n - 1
      PROVE  /\ ProbeBucket(tb, k, e) \in 0 .. n - 1
             /\ Behind(n, ProbeBucket(tb, k, e), h) = e
             /\ \A b \in 0 .. n - 1 : OnPath(h, b, ProbeBucket(tb, k, e)) <=> Behind(n, b, h) <= e
  <2>1. e \in 0 .. n
    BY <1>1
  <2>2. ProbeBucket(tb, k, e) = Onward(n, h, e) /\ Onward(n, h, e) \in 0 .. n - 1
    BY <1>2, <1>3, <2>1
  <2>3. Behind(n, Onward(n, h, e), h) = e
    BY <1>1 DEF Behind, Onward
  <2>4. \A b \in 0 .. n - 1 : OnPath(h, b, Onward(n, h, e)) <=> Behind(n, b, h) <= e
    BY <1>1 DEF Behind, Onward, OnPath
  <2> QED
    BY <2>2, <2>3, <2>4
<1> QED
  BY <1>4, <1>5 DEF n, h

(* A match is the key.                                                     *)
LEMMA MatchFacts ==
  ASSUME HlAssumption, NEW tb, Tidy(tb), NEW k \in Keys, NEW j \in Nat
  PROVE  /\ Empties(tb, k, j) \in SUBSET Nat /\ Matches(tb, k, j) \in SUBSET Nat
         /\ BeforeFirstEmpty(tb, k, j) \in SUBSET Matches(tb, k, j)
         /\ \A c \in Matches(tb, k, j) : /\ c % tb.n \in HlOccupied(tb) /\ tb.vals[c % tb.n][1] = k
                                         /\ HasKey(tb, k)
<1>1. ASSUME NEW c \in GroupBytes(tb, k, j) PROVE c \in Nat
  <2>1. PICK e \in Nat : c = ProbeByte(tb, k, e)
    BY BytesProbed
  <2> QED
    BY <2>1, ProbeBytes DEF ByteTells
<1>2. Empties(tb, k, j) \in SUBSET Nat /\ Matches(tb, k, j) \in SUBSET Nat
  BY <1>1 DEF Empties, Matches
<1>3. BeforeFirstEmpty(tb, k, j) \in SUBSET Matches(tb, k, j)
  BY DEF BeforeFirstEmpty
<1>4. ASSUME NEW c \in Matches(tb, k, j)
      PROVE  c % tb.n \in HlOccupied(tb) /\ tb.vals[c % tb.n][1] = k /\ HasKey(tb, k)
  <2>1. c \in Nat /\ tb.vals[c % tb.n] # FreeBucket /\ tb.vals[c % tb.n][1] = k
    BY <1>2 DEF Matches
  <2>2. /\ tb.n \in Nat /\ tb.n > 0
        /\ HlOccupied(tb) = {i \in 0 .. tb.n - 1 : tb.vals[i] # FreeBucket}
    BY TidyFacts
  <2>3. c % tb.n \in 0 .. tb.n - 1
    BY <2>1, <2>2
  <2>4. c % tb.n \in HlOccupied(tb)
    BY <2>1, <2>2, <2>3
  <2> QED
    BY <2>1, <2>4 DEF HasKey, HlHeld
<1> QED
  BY <1>2, <1>3, <1>4

(* A probe for a key that is in the table meets no EMPTY before it.        *)
LEMMA PathFull ==
  ASSUME HlAssumption, NEW tb, HlSound(tb), NEW k \in Keys, HasKey(tb, k)
  PROVE  \E d \in 0 .. tb.n - 1 :
           /\ ProbeBucket(tb, k, d) \in HlOccupied(tb) /\ tb.vals[ProbeBucket(tb, k, d)][1] = k
           /\ \A e \in 0 .. d : tb.ctrl[ProbeBucket(tb, k, e)] # Empty
<1>0. Tidy(tb) /\ Reachable(tb, tb.n)
  BY DEF HlSound
<1>1. PICK b \in HlOccupied(tb) : tb.vals[b][1] = k
  BY DEF HasKey, HlHeld
<1>2. tb.n \in Nat /\ b \in 0 .. tb.n - 1
  BY <1>0, TidyFacts
<1> DEFINE d == Behind(tb.n, b, HomeOf(tb, k))
<1>3. d \in 0 .. tb.n - 1 /\ ProbeBucket(tb, k, d) = b
  BY <1>0, <1>2, ProbePlaces
<1> HIDE DEF d
<1>4. ASSUME NEW e \in 0 .. d PROVE tb.ctrl[ProbeBucket(tb, k, e)] # Empty
  <2>1. e \in 0 .. tb.n - 1 /\ e <= d
    BY <1>2, <1>3
  <2>2. ProbeBucket(tb, k, e) \in 0 .. tb.n - 1 /\ Behind(tb.n, ProbeBucket(tb, k, e), HomeOf(tb, k)) = e
    BY <1>0, <2>1, ProbePlaces
  <2>3. OnPath(HomeOf(tb, k), ProbeBucket(tb, k, e), b)
    BY <1>0, <1>3, <2>1, <2>2, ProbePlaces
  <2>4. tb.ctrl[ProbeBucket(tb, k, e)] # Empty \/ ProbeBucket(tb, k, e) = tb.n
    BY <1>0, <1>1, <2>2, <2>3 DEF Reachable
  <2> QED
    BY <1>2, <2>2, <2>4
<1> QED
  BY <1>1, <1>3, <1>4

(* Every group that a probe for a key of the table reads up to that of the *)
(* key's bucket shows no EMPTY before a match.                             *)
LEMMA GroupsFull ==
  ASSUME HlAssumption, NEW tb, Tidy(tb), NEW k \in Keys, NEW d \in 0 .. tb.n - 1,
         tb.vals[ProbeBucket(tb, k, d)][1] = k,
         \A e \in 0 .. d : tb.ctrl[ProbeBucket(tb, k, e)] # Empty
  PROVE  /\ ProbeGroup(tb, k, d) \in Nat
         /\ ProbeByte(tb, k, d) \in BeforeFirstEmpty(tb, k, ProbeGroup(tb, k, d))
         /\ \A j \in Nat : j < ProbeGroup(tb, k, d) => Empties(tb, k, j) = {}
<1>1. tb.n \in Nat /\ d \in Nat
  BY TidyFacts
<1>2. \A e \in 0 .. d : e \in Nat /\ e < tb.n
  BY <1>1
<1>3. ASSUME NEW e \in 0 .. d PROVE ProbeByte(tb, k, e) \notin Empties(tb, k, ProbeGroup(tb, k, e))
  BY <1>2, ByteSays
<1>4. ProbeGroup(tb, k, d) \in Nat
  BY <1>1, ProbeBytes DEF ByteTells
<1>5. ProbeByte(tb, k, d) \in Matches(tb, k, ProbeGroup(tb, k, d))
  BY <1>1, <1>3, ByteSays
<1>6. ASSUME NEW c \in Empties(tb, k, ProbeGroup(tb, k, d)) PROVE ProbeByte(tb, k, d) < c
  <2>1. PICK e \in Nat : c = ProbeByte(tb, k, e) /\ ProbeGroup(tb, k, e) = ProbeGroup(tb, k, d)
    BY <1>4, BytesProbed DEF Empties
  <2>2. ~ (e \in 0 .. d)
    BY <1>3, <1>6, <2>1
  <2>3. d < e
    BY <1>1, <2>1, <2>2
  <2>4. ProbeByte(tb, k, d) < ProbeByte(tb, k, e)
    BY <1>1, <2>1, <2>3, ProbeOrder
  <2> QED
    BY <2>1, <2>4
<1>7. ASSUME NEW j \in Nat, j < ProbeGroup(tb, k, d), NEW c \in Empties(tb, k, j) PROVE FALSE
  <2>1. PICK e \in Nat : c = ProbeByte(tb, k, e) /\ ProbeGroup(tb, k, e) = j
    BY BytesProbed DEF Empties
  <2>2. e < d
    BY <1>1, <1>7, <2>1, ProbeOrder
  <2>3. e \in 0 .. d
    BY <1>1, <2>1, <2>2
  <2> QED
    BY <1>3, <1>7, <2>1, <2>3
<1> QED
  BY <1>4, <1>5, <1>6, <1>7 DEF BeforeFirstEmpty

(* bucket() finds a key where it is, and only if it is there.              *)
LEMMA BucketFacts ==
  ASSUME HlAssumption, NEW tb, HlSound(tb), NEW k \in Keys
  PROVE  /\ HasKey(tb, k) => HlBucket(tb, k) \in HlOccupied(tb) /\ tb.vals[HlBucket(tb, k)][1] = k
         /\ ~ HasKey(tb, k) => HlBucket(tb, k) = tb.n
<1>0. Tidy(tb) /\ tb.n \in BucketCounts /\ tb.g \in HlGroups
  BY DEF HlSound, Tidy
<1>1. tb.n \in Nat /\ tb.n >= 8 /\ tb.g \in Nat /\ tb.g > 0 /\ HomeOf(tb, k) \in 0 .. tb.n - 1
  BY <1>0, TidyFacts
<1> DEFINE last == 2 * (tb.n \div (2 * tb.g)) + 3
           j == ProbeEnd(tb, k, last)
           found == IF j < 2 THEN BeforeFirstEmpty(tb, k, j) ELSE Matches(tb, k, j)
           at == HlBucket(tb, k)
<1>2. at = IF found = {} THEN tb.n ELSE FirstOf(found) % tb.n
  BY DEF HlBucket
<1>3. last \in Nat /\ (last + 1) * tb.g >= tb.n + tb.g
  BY <1>0, LastGroups
<1> HIDE DEF last
<1>4. /\ j \in 0 .. last /\ (j = last \/ Decides(tb, k, j)) /\ \A i \in 0 .. j - 1 : ~ Decides(tb, k, i)
  BY <1>3, ProbeEnds
<1> HIDE DEF j, at
<1>5. j \in Nat
  BY <1>3, <1>4
<1>6. found \in SUBSET Nat /\ found \subseteq Matches(tb, k, j)
  BY <1>0, <1>5, MatchFacts
<1>7. ASSUME found # {} PROVE at \in HlOccupied(tb) /\ tb.vals[at][1] = k /\ HasKey(tb, k)
  <2>1. FirstOf(found) \in found
    <3> HIDE DEF found
    <3> QED
      BY <1>6, <1>7, FirstOne
  <2>2. FirstOf(found) \in Matches(tb, k, j)
    BY <1>6, <2>1
  <2>3. at = FirstOf(found) % tb.n
    BY <1>2, <1>7
  <2> HIDE DEF found
  <2> QED
    BY <1>0, <1>5, <2>2, <2>3, MatchFacts
<1>8. ASSUME HasKey(tb, k) PROVE found # {}
  <2>1. PICK d \in 0 .. tb.n - 1 :
           /\ ProbeBucket(tb, k, d) \in HlOccupied(tb) /\ tb.vals[ProbeBucket(tb, k, d)][1] = k
           /\ \A e \in 0 .. d : tb.ctrl[ProbeBucket(tb, k, e)] # Empty
    BY <1>8, PathFull
  <2> DEFINE J == ProbeGroup(tb, k, d)
  <2>2. /\ J \in Nat
        /\ ProbeByte(tb, k, d) \in BeforeFirstEmpty(tb, k, J)
        /\ \A i \in Nat : i < J => Empties(tb, k, i) = {}
    BY <1>0, <2>1, GroupsFull
  <2>3. J <= last
    <3> DEFINE n == tb.n
               g == tb.g
               h == HomeOf(tb, k)
    <3>1. n \in BucketCounts /\ g \in HlGroups /\ h \in 0 .. n - 1 /\ d \in Nat /\ d <= n - 1 /\ n \in Nat /\ g \in Nat
      BY <1>0, <1>1
    <3>2. J = GroupOf(g, h, d) /\ (last + 1) * g >= n + g
      BY <1>3 DEF ProbeGroup
    <3> HIDE DEF n, g, h, J
    <3>3. (h % g) \in 0 .. g - 1 /\ (d + (h % g)) % g \in 0 .. g - 1
      BY <3>1, BytePlaces
    <3>4. d + (h % g) = g * J + ((d + (h % g)) % g)
      BY <3>1, <3>2, BytePlaces
    <3> DEFINE c == h % g
               s == (d + c) % g
    <3>5. c \in 0 .. g - 1 /\ s \in 0 .. g - 1 /\ d + c = g * J + s
      BY <3>3, <3>4
    <3> HIDE DEF c, s
    <3>6. g * J \in Nat
      BY <2>2, <3>1
    <3>7. g * J < g * (last + 1)
      <4>1. (last + 1) * g = g * (last + 1)
        BY <1>3, <3>1
      <4>2. g * (last + 1) \in Nat
        BY <1>3, <3>1
      <4> QED
        BY <3>1, <3>2, <3>5, <3>6, <4>1, <4>2
    <3>8. ASSUME last + 1 <= J PROVE FALSE
      <4>1. last + 1 \in Nat /\ J \in Nat
        BY <1>3, <2>2
      <4>2. g * (last + 1) <= g * J
        BY <3>1, <3>8, <4>1, Products
      <4>3. g * (last + 1) \in Nat
        BY <3>1, <4>1
      <4> QED
        BY <3>6, <3>7, <4>2, <4>3
    <3> QED
      BY <1>3, <2>2, <3>8
  <2>4. Decides(tb, k, J)
    BY <2>2 DEF Decides, BeforeFirstEmpty
  <2> HIDE DEF J
  <2>5. j <= J
    BY <1>4, <1>5, <2>2, <2>4
  <2>6. CASE j = J
    BY <2>2, <2>6 DEF BeforeFirstEmpty
  <2>7. CASE j < J
    <3>1. Empties(tb, k, j) = {}
      BY <1>5, <2>2, <2>7
    <3>2. j # last
      BY <1>3, <1>5, <2>2, <2>3, <2>7
    <3>3. Matches(tb, k, j) # {}
      BY <1>4, <3>1, <3>2 DEF Decides
    <3> QED
      BY <3>1, <3>3 DEF BeforeFirstEmpty
  <2> QED
    BY <1>5, <2>2, <2>5, <2>6, <2>7
<1> HIDE DEF found
<1> QED
  BY <1>2, <1>7, <1>8 DEF at

-----------------------------------------------------------------------------
(* Insertion.                                                              *)

(* What emplace() and emplace_impl() give for a table that holds what this *)
(* one holds.                                                              *)
Emplacement(p, tb, k, v) ==
  /\ HlSound(p.tb) /\ p.tb.g = tb.g
  /\ p.inserted = ~ HasKey(tb, k)
  /\ p.pos \in HlOccupied(p.tb) /\ p.tb.vals[p.pos][1] = k
  /\ HlHeld(p.tb) = (IF HasKey(tb, k) THEN HlHeld(tb) ELSE HlHeld(tb) \cup {<<k, v>>})
  /\ p.tb.filled = (IF HasKey(tb, k) THEN tb.filled ELSE tb.filled + 1)

(* Up to the group that decides, a probe comes by no EMPTY bucket, and not *)
(* by the key.                                                             *)
LEMMA QuietBefore ==
  ASSUME HlAssumption, NEW tb, Tidy(tb), NEW k \in Keys, NEW j \in Nat,
         \A i \in 0 .. j - 1 : ~ Decides(tb, k, i),
         NEW e \in Nat, ProbeGroup(tb, k, e) < j
  PROVE  tb.ctrl[ProbeBucket(tb, k, e)] # Empty /\ tb.vals[ProbeBucket(tb, k, e)][1] # k
<1>1. ProbeGroup(tb, k, e) \in 0 .. j - 1
  BY ProbeBytes DEF ByteTells
<1>2. Matches(tb, k, ProbeGroup(tb, k, e)) = {} /\ Empties(tb, k, ProbeGroup(tb, k, e)) = {}
  BY <1>1 DEF Decides
<1> QED
  BY <1>2, ByteSays

(* The group that decides, in a table with an EMPTY bucket.                *)
LEMMA ProbedFacts ==
  ASSUME HlAssumption, NEW tb, HlSound(tb), tb.filled < tb.n, NEW k \in Keys, NEW v \in Mapped,
         NEW j \in Nat, \A i \in 0 .. j - 1 : ~ Decides(tb, k, i), Decides(tb, k, j)
  PROVE  Emplacement(HlProbed(tb, k, v, j), tb, k, v)
<1>0. Tidy(tb)
  BY DEF HlSound
<1>1. tb.n \in Nat /\ tb.n >= 8 /\ tb.filled \in Nat
  BY <1>0, TidyFacts
<1> DEFINE found == BeforeFirstEmpty(tb, k, j)
           none == Empties(tb, k, j)
           p == HlProbed(tb, k, v, j)
<1>2. found \in SUBSET Nat /\ found \subseteq Matches(tb, k, j) /\ none \in SUBSET Nat
  BY <1>0, MatchFacts
<1>3. CASE found # {}
  <2> DEFINE c == FirstOf(found)
  <2>1. c \in Matches(tb, k, j)
    <3>1. c \in found
      <4> HIDE DEF found
      <4> QED
        BY <1>2, <1>3, FirstOne
    <3> QED
      BY <1>2, <3>1
  <2>2. p = [tb |-> tb, pos |-> c % tb.n, inserted |-> FALSE]
    BY <1>3 DEF HlProbed
  <2> HIDE DEF c, p
  <2>3. c % tb.n \in HlOccupied(tb) /\ tb.vals[c % tb.n][1] = k /\ HasKey(tb, k)
    BY <1>0, <2>1, MatchFacts
  <2>4. p.tb = tb /\ p.pos = c % tb.n /\ p.inserted = FALSE
    BY <2>2
  <2>5. Emplacement(p, tb, k, v)
    BY <2>3, <2>4 DEF Emplacement
  <2> QED
    BY <2>5 DEF p
<1>4. CASE found = {}
  <2> DEFINE c == FirstOf(none)
             at == c % tb.n
  <2>1. none # {}
    BY <1>4 DEF Decides, BeforeFirstEmpty
  <2>2. c \in none /\ \A d \in none : c <= d
    <3> HIDE DEF none
    <3> QED
      BY <1>2, <2>1, FirstOne
  <2>3. p = [tb |-> PutInto(tb, at, k, v), pos |-> at, inserted |-> TRUE]
    BY <1>4 DEF HlProbed, PutInto
  <2>4. PICK z \in Nat : c = ProbeByte(tb, k, z) /\ ProbeGroup(tb, k, z) = j
    BY <1>0, <2>2, BytesProbed DEF Empties
  <2> HIDE DEF c, p
  <2>5. at = ProbeBucket(tb, k, z)
    BY <1>0, <2>4, ProbeBytes DEF ByteTells
  <2>6. ASSUME NEW e \in Nat, e < z
        PROVE  tb.ctrl[ProbeBucket(tb, k, e)] # Empty /\ tb.vals[ProbeBucket(tb, k, e)][1] # k
    <3>1. ProbeGroup(tb, k, e) <= j /\ ProbeGroup(tb, k, e) \in Nat
      BY <1>0, <2>4, <2>6, ProbeOrder, ProbeBytes DEF ByteTells
    <3>2. CASE ProbeGroup(tb, k, e) < j
      BY <1>0, <3>2, QuietBefore
    <3>3. CASE ProbeGroup(tb, k, e) = j
      <4>1. ProbeByte(tb, k, e) < c
        BY <1>0, <2>4, <2>6, <3>3, ProbeOrder
      <4>2. ProbeByte(tb, k, e) \in Nat /\ c \in Nat
        BY <1>0, <2>4, ProbeBytes DEF ByteTells
      <4>3. ProbeByte(tb, k, e) \notin none
        BY <2>2, <4>1, <4>2
      <4>4. ProbeByte(tb, k, e) \notin Matches(tb, k, j)
        <5>1. \A d \in none : ProbeByte(tb, k, e) < d
          BY <1>2, <2>2, <4>1, <4>2
        <5> QED
          BY <1>4, <5>1 DEF BeforeFirstEmpty
      <4> QED
        BY <1>0, <3>3, <4>3, <4>4, ByteSays
    <3> QED
      BY <3>1, <3>2, <3>3
  <2>7. z \in 0 .. tb.n - 1
    <3>1. PICK a \in 0 .. tb.n - 1 : tb.ctrl[a] = Empty
      BY RoomLeft
    <3> DEFINE d == Behind(tb.n, a, HomeOf(tb, k))
    <3>2. d \in 0 .. tb.n - 1 /\ ProbeBucket(tb, k, d) = a
      BY <1>0, ProbePlaces
    <3> HIDE DEF d
    <3>3. ~ (d < z)
      BY <1>1, <2>6, <3>1, <3>2
    <3> QED
      BY <1>1, <3>2, <3>3
  <2>8. tb.ctrl[at] = Empty
    <3>1. z < tb.n
      BY <1>1, <2>7
    <3> QED
      BY <1>0, <2>2, <2>4, <2>5, <3>1, ByteSays
  <2>9. FreeAhead(tb, HomeOf(tb, k), at)
    <3>1. at \in 0 .. tb.n - 1
      BY <1>0, <2>5, <2>7, ProbePlaces
    <3>2. ASSUME NEW b \in 0 .. tb.n - 1, OnPath(HomeOf(tb, k), b, at), b # at PROVE tb.ctrl[b] # Empty
      <4> DEFINE d == Behind(tb.n, b, HomeOf(tb, k))
      <4>1. d \in 0 .. tb.n - 1 /\ ProbeBucket(tb, k, d) = b
        BY <1>0, ProbePlaces
      <4>2. d <= z
        BY <1>0, <2>5, <2>7, <3>2, ProbePlaces
      <4> HIDE DEF d
      <4>3. d < z /\ d \in Nat
        BY <1>1, <2>5, <3>2, <4>1, <4>2
      <4> QED
        BY <2>6, <4>1, <4>3
    <3> QED
      BY <2>8, <3>1, <3>2 DEF FreeAhead
  <2>10. ~ HasKey(tb, k)
    <3> SUFFICES ASSUME HasKey(tb, k) PROVE FALSE
      OBVIOUS
    <3>1. PICK d \in 0 .. tb.n - 1 :
           /\ tb.vals[ProbeBucket(tb, k, d)][1] = k
           /\ \A e \in 0 .. d : tb.ctrl[ProbeBucket(tb, k, e)] # Empty
      BY PathFull
    <3>2. ~ (d < z)
      BY <1>1, <2>6, <3>1
    <3>3. z \in 0 .. d
      BY <1>1, <2>7, <3>2
    <3> QED
      BY <2>5, <2>8, <3>1, <3>3
  <2> HIDE DEF at
  <2>11. Gains(PutInto(tb, at, k, v), tb, <<k, v>>) /\ PutInto(tb, at, k, v).vals[at] = <<k, v>>
    BY <2>9, <2>10, PutFacts
  <2> DEFINE u == PutInto(tb, at, k, v)
  <2>12. p.tb = u /\ p.pos = at /\ p.inserted = TRUE
    BY <2>3
  <2> HIDE DEF u
  <2>13. at \in HlOccupied(u) /\ u.vals[at][1] = k
    <3>1. HlSound(u) /\ u.n = tb.n /\ u.vals[at] = <<k, v>>
      BY <2>11 DEF Gains, u
    <3>2. HlOccupied(u) = {i \in 0 .. u.n - 1 : u.vals[i] # FreeBucket}
      BY <3>1, TidyFacts DEF HlSound
    <3>3. <<k, v>> # FreeBucket
      BY DEF HlAssumption, HlElements
    <3>4. at \in 0 .. u.n - 1
      BY <2>9, <3>1 DEF FreeAhead
    <3>5. at \in HlOccupied(u)
      BY <3>1, <3>2, <3>3, <3>4
    <3>6. <<k, v>>[1] = k
      OBVIOUS
    <3> QED
      BY <3>1, <3>5, <3>6
  <2>14. Gains(u, tb, <<k, v>>)
    BY <2>11 DEF u
  <2>15. Emplacement(p, tb, k, v)
    BY <2>10, <2>12, <2>13, <2>14 DEF Emplacement, Gains
  <2> QED
    BY <2>15 DEF p
<1> QED
  BY <1>3, <1>4

(* When no group of the walk round the table shows the key or an EMPTY,    *)
(* there is one at most in each place that the probe has left out, before  *)
(* the home bucket in its group.                                           *)
LEMMA UndecidedFacts ==
  ASSUME HlAssumption, NEW tb, HlSound(tb), tb.filled < tb.n, NEW k \in Keys,
         \A j \in 0 .. LastGroup(tb) : ~ Decides(tb, k, j)
  PROVE  2 * tb.g <= tb.n /\ tb.n - tb.filled < tb.g
<1>0. Tidy(tb) /\ tb.n \in BucketCounts /\ tb.g \in HlGroups /\ Counted(tb)
  BY DEF HlSound, Tidy
<1> DEFINE n == tb.n
           g == tb.g
           h == HomeOf(tb, k)
           cut == h % g
           L == LastGroup(tb)
<1>1. n \in Nat /\ n >= 8 /\ g \in Nat /\ g > 0 /\ h \in 0 .. n - 1
  BY <1>0, TidyFacts
<1>2. /\ L \in Nat /\ (n <= g => (L + 1) * g = 2 * g)
      /\ (n > g => 2 * g <= n /\ (L + 1) * g = n)
  <2>1. CASE n <= 2 * g
    <3>1. L = 1
      BY <2>1 DEF LastGroup
    <3>2. n > g => n = 2 * g
      BY <1>0, <2>1, LastGroups
    <3> HIDE DEF n, g, L
    <3> QED
      BY <1>1, <3>1, <3>2
  <2>2. CASE ~ (n <= 2 * g)
    <3>1. L = n \div g - 1
      BY <2>2 DEF LastGroup
    <3>2. n > 2 * g
      BY <1>1, <2>2
    <3>3. L \in Nat /\ (L + 1) * g = n
      BY <1>0, <3>1, <3>2, LastGroups
    <3> QED
      BY <1>1, <3>2, <3>3
  <2> QED
    BY <2>1, <2>2
<1>3. cut \in 0 .. g - 1 /\ cut <= h
  <2> HIDE DEF n, g, h
  <2>1. n \in BucketCounts /\ g \in HlGroups /\ 0 \in Nat
    BY <1>0 DEF n, g
  <2> QED
    BY <1>1, <2>1, BytePlaces
<1> HIDE DEF L
<1>4. ASSUME NEW e \in Nat, ProbeGroup(tb, k, e) <= L PROVE tb.ctrl[ProbeBucket(tb, k, e)] # Empty
  <2> DEFINE j == L + 1
  <2>1. j \in Nat /\ ProbeGroup(tb, k, e) < j
    BY <1>0, <1>2, <1>4, ProbeBytes DEF ByteTells
  <2>2. \A i \in 0 .. j - 1 : ~ Decides(tb, k, i)
    BY <1>2 DEF L
  <2> HIDE DEF j
  <2> QED
    BY <1>0, <2>1, <2>2, QuietBefore
<1>5. ASSUME NEW e \in Nat, e + cut < (L + 1) * g PROVE tb.ctrl[ProbeBucket(tb, k, e)] # Empty
  <2> DEFINE J == ProbeGroup(tb, k, e)
             s == (e + cut) % g
  <2>1. J \in Nat
    BY <1>0, ProbeBytes DEF ByteTells
  <2>2. e + cut = g * J + s /\ s \in 0 .. g - 1
    <3>1. n \in BucketCounts /\ g \in HlGroups /\ J = GroupOf(g, h, e)
      BY <1>0 DEF ProbeGroup
    <3> HIDE DEF n, g, h, J
    <3>2. e + (h % g) = g * GroupOf(g, h, e) + ((e + (h % g)) % g) /\ (e + (h % g)) % g \in 0 .. g - 1
      BY <1>1, <3>1, BytePlaces
    <3> QED
      BY <3>1, <3>2
  <2> HIDE DEF J, s, cut, n, g
  <2>3. ASSUME L + 1 <= J PROVE FALSE
    <3>1. g * (L + 1) <= g * J
      BY <1>1, <1>2, <2>1, <2>3, Products
    <3>2. g * (L + 1) = (L + 1) * g /\ g * (L + 1) \in Nat /\ g * J \in Nat
      BY <1>1, <1>2, <2>1
    <3> QED
      BY <1>1, <1>3, <1>5, <2>2, <3>1, <3>2
  <2> QED
    BY <1>2, <1>4, <2>1, <2>3 DEF J
<1>6. ASSUME NEW a \in 0 .. n - 1, tb.ctrl[a] = Empty
      PROVE  Behind(n, a, h) \in Nat /\ Behind(n, a, h) < n /\ ~ (Behind(n, a, h) + cut < (L + 1) * g)
  <2>1. Behind(n, a, h) \in 0 .. n - 1 /\ ProbeBucket(tb, k, Behind(n, a, h)) = a
    BY <1>0, ProbePlaces
  <2> HIDE DEF n, h, g, cut
  <2> QED
    BY <1>1, <1>5, <1>6, <2>1
<1>7. n > g
  <2> SUFFICES ASSUME n <= g PROVE FALSE
    BY <1>1
  <2>1. PICK a \in 0 .. n - 1 : tb.ctrl[a] = Empty
    BY RoomLeft
  <2>2. Behind(n, a, h) \in Nat /\ Behind(n, a, h) < n /\ ~ (Behind(n, a, h) + cut < 2 * g)
    BY <1>2, <1>6, <2>1
  <2> HIDE DEF n, h, g, cut
  <2> QED
    BY <1>1, <1>3, <2>2
<1>8. 2 * g <= n /\ (L + 1) * g = n
  BY <1>2, <1>7
<1>9. ASSUME NEW a \in 0 .. n - 1, tb.ctrl[a] = Empty PROVE a \in h - cut .. h - 1
  <2>1. ~ (Behind(n, a, h) + cut < n)
    BY <1>6, <1>8, <1>9
  <2> HIDE DEF n, h, g, cut
  <2> QED
    BY <1>1, <1>3, <2>1 DEF Behind
<1> DEFINE E == (0 .. n - 1) \ HlOccupied(tb)
           I == h - cut .. h - 1
<1>10. E \subseteq I
  <2>1. HlOccupied(tb) = {i \in 0 .. n - 1 : tb.vals[i] # FreeBucket}
        /\ \A i \in 0 .. n - 1 : tb.ctrl[i] = Empty <=> tb.vals[i] = FreeBucket
    BY <1>0, TidyFacts
  <2> HIDE DEF cut, h, n
  <2> QED
    BY <1>9, <2>1
<1>11. IsFiniteSet(I) /\ Cardinality(I) <= cut
  <2> DEFINE lo == h - cut
             hi == h - 1
  <2>1. lo \in Int /\ hi \in Int /\ hi - lo + 1 = cut /\ cut >= 0 /\ cut \in Int
    BY <1>1, <1>3
  <2> HIDE DEF lo, hi, cut
  <2>2. IsFiniteSet(lo .. hi) /\ Cardinality(lo .. hi) = IF lo > hi THEN 0 ELSE hi - lo + 1
    BY <2>1, FS_Interval
  <2>3. I = lo .. hi
    BY DEF lo, hi
  <2> QED
    BY <2>1, <2>2, <2>3
<1>12. IsFiniteSet(0 .. n - 1) /\ Cardinality(0 .. n - 1) = n
  <2> DEFINE m == n - 1
  <2>1. m \in Int /\ 0 \in Int /\ ~ (0 > m) /\ m - 0 + 1 = n
    BY <1>1
  <2> HIDE DEF m
  <2>2. IsFiniteSet(0 .. m) /\ Cardinality(0 .. m) = n
    BY <2>1, FS_Interval
  <2> QED
    BY <2>2 DEF m
<1>13. Cardinality(E) = n - tb.filled
  <2>1. HlOccupied(tb) \subseteq 0 .. n - 1
    BY <1>0, TidyFacts
  <2>2. (0 .. n - 1) \cap HlOccupied(tb) = HlOccupied(tb)
    BY <2>1
  <2>3. Cardinality(E) = Cardinality(0 .. n - 1) - Cardinality((0 .. n - 1) \cap HlOccupied(tb))
    BY <1>12, FS_Difference
  <2> QED
    BY <1>0, <1>12, <2>2, <2>3 DEF Counted
<1>14. Cardinality(E) <= Cardinality(I)
  <2> HIDE DEF E, I
  <2> QED
    BY <1>10, <1>11, FS_Subset
<1>15. Cardinality(I) \in Nat
  BY <1>11, FS_CardinalityType
<1>16. n - tb.filled < g
  <2>1. tb.filled \in Nat
    BY <1>0, TidyFacts
  <2> HIDE DEF n, g, cut, E, I
  <2> QED
    BY <1>1, <1>3, <1>11, <1>13, <1>14, <1>15, <2>1
<1> QED
  BY <1>8, <1>16

(* The next capacity is at least twice as large.                           *)
LEMMA GrownFacts ==
  ASSUME HlAssumption, NEW tb, HlGood(tb), 4 * tb.n <= MostBuckets
  PROVE  KeepsElements(HlGrown(tb), tb) /\ HlGrown(tb).n >= 2 * tb.n /\ HlGrown(tb).filled < HlGrown(tb).n
<1> DEFINE u == HlGrown(tb)
           cap == HlGetNextCapacity(tb)
<1>1. /\ tb.n \in Nat /\ tb.filled \in Nat /\ tb.filled <= tb.n /\ (tb.n > 0 => HlSound(tb))
      /\ MostBuckets \in Nat
  BY GoodFacts, Capacities
<1>2. cap \in Nat /\ cap <= MostBuckets /\ (tb.n > 0 => cap > tb.n)
  BY <1>1 DEF HlGetNextCapacity
<1>3. u = HlRehashed(tb, cap)
  BY DEF HlGrown
<1> HIDE DEF u, cap
<1>4. KeepsElements(u, tb) /\ u.n >= cap
  BY <1>2, <1>3, RehashedFacts
<1>5. u.n \in BucketCounts /\ u.n \in Nat /\ u.n >= 8
  BY <1>4, SoundShape, Capacities DEF KeepsElements
<1>6. u.n >= 2 * tb.n
  <2>1. CASE tb.n = 0
    BY <1>5, <2>1
  <2>2. CASE tb.n > 0
    <3>1. tb.n \in BucketCounts
      BY <1>1, <2>2, SoundShape
    <3>2. tb.n < u.n
      BY <1>1, <1>2, <1>4, <1>5, <2>2
    <3> QED
      BY <1>5, <3>1, <3>2, Capacities
  <2> QED
    BY <1>1, <2>1, <2>2
<1>7. u.filled < u.n
  BY <1>1, <1>4, <1>5, <1>6 DEF KeepsElements
<1> QED
  BY <1>4, <1>6, <1>7 DEF u

(* What is emplaced in a table of the same elements.                       *)
LEMMA SameEmplacement ==
  ASSUME NEW u, NEW tb, KeepsElements(u, tb), NEW p, NEW k, NEW v, Emplacement(p, u, k, v)
  PROVE  Emplacement(p, tb, k, v)
<1>1. HasKey(u, k) <=> HasKey(tb, k)
  BY DEF KeepsElements, HasKey
<1>2. p.inserted = ~ HasKey(tb, k)
  BY <1>1 DEF Emplacement
<1> QED
  BY <1>1, <1>2 DEF KeepsElements, Emplacement

(* There is a last group.                                                  *)
LEMMA LastGroupType ==
  ASSUME HlAssumption, NEW tb, HlSound(tb)
  PROVE  LastGroup(tb) \in Nat
<1>1. tb.n \in BucketCounts /\ tb.g \in HlGroups /\ tb.n \in Nat /\ tb.g \in Nat
  BY TidyFacts DEF HlSound, Tidy
<1>2. CASE tb.n <= 2 * tb.g
  BY <1>2 DEF LastGroup
<1>3. CASE ~ (tb.n <= 2 * tb.g)
  <2>1. tb.n > 2 * tb.g
    BY <1>1, <1>3
  <2> QED
    BY <1>1, <1>3, <2>1, LastGroups DEF LastGroup
<1> QED
  BY <1>2, <1>3

(* emplace_impl().                                                         *)
LEMMA EmplaceImplFacts ==
  ASSUME HlAssumption, NEW tb, HlSound(tb), tb.filled < tb.n, 8 * (tb.filled + 1) <= MostBuckets,
         NEW k \in Keys, NEW v \in Mapped
  PROVE  Emplacement(HlEmplaceImpl(tb, k, v), tb, k, v)
<1> DEFINE j == ProbeEnd(tb, k, LastGroup(tb))
           grown == HlGrown(tb)
           i == ProbeEnd(grown, k, LastGroup(grown))
<1>0. HlGood(tb)
  BY DEF HlGood
<1>1. tb.n \in Nat /\ tb.filled \in Nat /\ tb.g \in Nat /\ tb.g > 0 /\ MostBuckets \in Nat
  BY TidyFacts, Capacities DEF HlSound
<1>2. LastGroup(tb) \in Nat
  BY LastGroupType
<1>3. /\ j \in 0 .. LastGroup(tb) /\ (j = LastGroup(tb) \/ Decides(tb, k, j))
      /\ \A a \in 0 .. j - 1 : ~ Decides(tb, k, a)
  BY <1>2, ProbeEnds
<1>4. HlEmplaceImpl(tb, k, v) = IF Decides(tb, k, j) THEN HlProbed(tb, k, v, j) ELSE HlProbed(grown, k, v, i)
  BY DEF HlEmplaceImpl
<1> HIDE DEF j, i, grown
<1>5. CASE Decides(tb, k, j)
  <2>1. j \in Nat
    BY <1>2, <1>3
  <2>2. Emplacement(HlProbed(tb, k, v, j), tb, k, v)
    BY <1>3, <1>5, <2>1, ProbedFacts
  <2> QED
    BY <1>4, <1>5, <2>2
<1>6. CASE ~ Decides(tb, k, j)
  <2>1. \A a \in 0 .. LastGroup(tb) : ~ Decides(tb, k, a)
    BY <1>2, <1>3, <1>6
  <2>2. 2 * tb.g <= tb.n /\ tb.n - tb.filled < tb.g
    BY <2>1, UndecidedFacts
  <2>3. 4 * tb.n <= MostBuckets
    BY <1>1, <2>2
  <2>4. KeepsElements(grown, tb) /\ grown.n >= 2 * tb.n /\ grown.filled < grown.n
    BY <1>0, <2>3, GrownFacts DEF grown
  <2>5. HlSound(grown) /\ grown.g = tb.g /\ grown.filled = tb.filled /\ grown.n \in Nat
    BY <2>4, TidyFacts DEF KeepsElements, HlSound
  <2>6. LastGroup(grown) \in Nat
    BY <2>5, LastGroupType
  <2>7. /\ i \in 0 .. LastGroup(grown) /\ (i = LastGroup(grown) \/ Decides(grown, k, i))
        /\ \A a \in 0 .. i - 1 : ~ Decides(grown, k, a)
    BY <2>6, ProbeEnds DEF i
  <2>8. Decides(grown, k, i)
    <3> SUFFICES ASSUME ~ Decides(grown, k, i) PROVE FALSE
      OBVIOUS
    <3>1. \A a \in 0 .. LastGroup(grown) : ~ Decides(grown, k, a)
      BY <2>6, <2>7
    <3>2. 2 * grown.g <= grown.n /\ grown.n - grown.filled < grown.g
      BY <2>4, <2>5, <3>1, UndecidedFacts
    <3> QED
      BY <1>1, <2>2, <2>4, <2>5, <3>2
  <2>9. i \in Nat
    BY <2>6, <2>7
  <2>10. Emplacement(HlProbed(grown, k, v, i), grown, k, v)
    BY <2>4, <2>5, <2>7, <2>8, <2>9, ProbedFacts
  <2> QED
    BY <1>4, <1>6, <2>4, <2>10, SameEmplacement
<1> QED
  BY <1>5, <1>6

(* emplace(): the key is there afterwards, with the value it had, and      *)
(* nothing else has come or gone.                                          *)
LEMMA EmplacedFacts ==
  ASSUME HlAssumption, NEW tb, HlGood(tb), 8 * (tb.filled + 1) <= MostBuckets,
         NEW k \in Keys, NEW v \in Mapped
  PROVE  Emplacement(HlEmplaced(tb, k, v), tb, k, v)
<1>1. /\ tb.n \in Nat /\ tb.filled \in Nat /\ (tb.n > 0 => HlSound(tb)) /\ MostBuckets \in Nat
  BY GoodFacts, Capacities
<1>2. CASE (tb.filled + 1) * 100 >= tb.n * HlLoadFactor
  <2>1. HlEmplaced(tb, k, v) = HlEmplaceImpl(HlGrown(tb), k, v)
    BY <1>2 DEF HlEmplaced
  <2>2. 4 * tb.n <= MostBuckets
    BY <1>1, <1>2 DEF HlLoadFactor
  <2> DEFINE u == HlGrown(tb)
  <2>3. KeepsElements(u, tb) /\ u.filled < u.n
    BY <2>2, GrownFacts
  <2> HIDE DEF u
  <2>4. HlSound(u) /\ u.filled = tb.filled
    BY <2>3 DEF KeepsElements
  <2>5. Emplacement(HlEmplaceImpl(u, k, v), u, k, v)
    BY <2>3, <2>4, EmplaceImplFacts
  <2> QED
    BY <2>1, <2>3, <2>5, SameEmplacement DEF u
<1>3. CASE ~ ((tb.filled + 1) * 100 >= tb.n * HlLoadFactor)
  <2>1. HlEmplaced(tb, k, v) = HlEmplaceImpl(tb, k, v)
    BY <1>3 DEF HlEmplaced
  <2>2. tb.n > 0 /\ tb.filled < tb.n
    BY <1>1, <1>3 DEF HlLoadFactor
  <2> QED
    BY <1>1, <2>1, <2>2, EmplaceImplFacts
<1> QED
  BY <1>2, <1>3

-----------------------------------------------------------------------------
(* Removal.                                                                *)

(* The buckets behind the hole that the loop has gone past.                *)
InGap(hole, b, i) == IF hole < i THEN hole < b /\ b < i ELSE b > hole \/ b < i

(* Distances and paths round the table.                                    *)
LEMMA ShiftPlaces ==
  ASSUME NEW n \in Nat, n >= 8, NEW H \in 0 .. n - 1, NEW i \in 0 .. n - 1, H # i, NEW h \in 0 .. n - 1
  PROVE  /\ Behind(n, i, h) >= Behind(n, i, H) <=> OnPath(h, H, i)
         /\ OnPath(h, H, i) => Behind(n, H, h) = Behind(n, i, h) - Behind(n, i, H)
         /\ \A b \in 0 .. n - 1 :
              /\ OnPath(h, H, i) /\ OnPath(h, b, H) => OnPath(h, b, i)
              /\ InGap(H, b, Onward(n, i, 1)) => InGap(H, b, i) \/ b = i
              /\ b # H /\ b # i /\ ~ InGap(H, b, i) /\ OnPath(h, H, b) => OnPath(h, i, b)
         /\ Onward(n, i, 1) \in 0 .. n - 1
         /\ Onward(n, i, 1) # H => Behind(n, Onward(n, i, 1), H) = Behind(n, i, H) + 1
         /\ Onward(n, i, 1) = H => Behind(n, i, H) = n - 1
         /\ Behind(n, i, H) \in 1 .. n - 1
  BY DEF Behind, OnPath, InGap, Onward

(* The next bucket.                                                        *)
LEMMA NextPlace ==
  ASSUME NEW n \in Nat, n >= 8, NEW i \in 0 .. n - 1
  PROVE  /\ (i + 1) % n = Onward(n, i, 1) /\ Onward(n, i, 1) \in 0 .. n - 1 /\ Onward(n, i, 1) # i
         /\ \A b \in 0 .. n - 1 : ~ InGap(i, b, Onward(n, i, 1))
         /\ Behind(n, Onward(n, i, 1), i) = 1
<1>1. 1 \in 0 .. n
  OBVIOUS
<1>2. (i + 1) % n = Onward(n, i, 1)
  BY <1>1, Wraps
<1> QED
  BY <1>2 DEF Onward, InGap, Behind

(* One bucket changes, and not how many elements are counted.              *)
LEMMA BucketPut ==
  ASSUME HlAssumption, NEW tb, Tidy(tb), NEW i \in 0 .. tb.n - 1, NEW x \in HlElements \cup {FreeBucket}
  PROVE  DiffersAt(WithBucket(tb, i, x), tb, i, x, tb.filled)
<1> DEFINE w == WithBucket(tb, i, x)
           c == tb.filled
<1>1. Tidy(w) /\ w.filled = c /\ c \in Nat
  BY WithBucketFacts, TidyFacts
<1>2. DiffersAt(Counting(w, c), tb, i, x, c)
  <2> HIDE DEF c
  <2> QED
    BY <1>1, BucketChanged
<1> HIDE DEF w
<1>3. w \in HlShape(w.n, w.g)
  BY <1>1 DEF Tidy
<1>4. Counting(w, c) = w
  BY <1>1, <1>3 DEF Counting, HlShape
<1> QED
  BY <1>2, <1>4 DEF w

(* The table u is the table tb with the element of bucket i moved into H.  *)
MovedBack(u, tb, H, i) ==
  /\ Tidy(u) /\ u.n = tb.n /\ u.g = tb.g /\ u.filled = tb.filled
  /\ \A j \in 0 .. tb.n - 1 : j # i /\ j # H => u.ctrl[j] = tb.ctrl[j] /\ u.vals[j] = tb.vals[j]
  /\ u.vals[H] = tb.vals[i] /\ u.ctrl[H] # Empty /\ u.ctrl[i] = Empty
  /\ HlOccupied(u) = (HlOccupied(tb) \cup {H}) \ {i}
  /\ \A k : HomeOf(u, k) = HomeOf(tb, k)

(* Moving an element into the hole does just that.                         *)
LEMMA RefilledFacts ==
  ASSUME HlAssumption, NEW tb, Tidy(tb), NEW H \in 0 .. tb.n - 1, NEW i \in HlOccupied(tb), H # i
  PROVE  MovedBack(Refilled([tb |-> tb, hole |-> H, i |-> i]), tb, H, i)
<1> DEFINE x == tb.vals[i]
           w == WithBucket(tb, H, x)
           u == WithBucket(w, i, FreeBucket)
<1>1. x \in HlElements /\ i \in 0 .. tb.n - 1 /\ x[1] \in Keys /\ x[2] \in Mapped /\ x = <<x[1], x[2]>>
  BY TidyFacts DEF HlElements
<1>2. x # FreeBucket
  BY <1>1 DEF HlAssumption
<1> HIDE DEF x
<1>3. PutAt(tb, H, x[1], x[2]) = w
  BY <1>1, PutAndClear
<1>4. DiffersAt(w, tb, H, x, tb.filled)
  BY <1>1, BucketPut
<1> HIDE DEF w
<1>5. Tidy(w) /\ w.n = tb.n /\ w.filled = tb.filled /\ i \in 0 .. w.n - 1
  BY <1>1, <1>4 DEF DiffersAt
<1>6. ClearAt(w, i) = u
  BY <1>5, PutAndClear
<1>7. DiffersAt(u, w, i, FreeBucket, w.filled)
  BY <1>5, BucketPut
<1>8. Refilled([tb |-> tb, hole |-> H, i |-> i]) = u
  BY <1>3, <1>6 DEF Refilled, x
<1> HIDE DEF u
<1>9. MovedBack(u, tb, H, i)
  <2>1. Tidy(u) /\ u.n = tb.n /\ u.g = tb.g /\ u.filled = tb.filled
    BY <1>4, <1>7 DEF DiffersAt
  <2>2. \A j \in 0 .. tb.n - 1 : j # i /\ j # H => u.ctrl[j] = tb.ctrl[j] /\ u.vals[j] = tb.vals[j]
    BY <1>4, <1>7 DEF DiffersAt
  <2>3. u.vals[H] = x /\ u.ctrl[H] # Empty /\ u.ctrl[i] = Empty
    BY <1>2, <1>4, <1>7 DEF DiffersAt
  <2>4. HlOccupied(u) = (HlOccupied(tb) \cup {H}) \ {i}
    BY <1>2, <1>4, <1>7 DEF DiffersAt
  <2>5. \A k : HomeOf(u, k) = HomeOf(tb, k)
    BY <1>4, <1>7 DEF DiffersAt
  <2> QED
    BY <2>1, <2>2, <2>3, <2>4, <2>5 DEF MovedBack, x
<1> QED
  BY <1>8, <1>9

(* A table with a hole: no bucket but that one parts an element from its   *)
(* home.                                                                   *)
Holed(tb, H) ==
  /\ Tidy(tb) /\ KeyedOnce(tb) /\ H \in 0 .. tb.n - 1 /\ tb.ctrl[H] = Empty /\ Reachable(tb, H)

(* The element behind the hole that may be in it moves, and leaves one.    *)
LEMMA MovedFacts ==
  ASSUME HlAssumption, NEW tb, NEW H, Holed(tb, H), NEW i \in HlOccupied(tb),
         OnPath(HomeOf(tb, tb.vals[i][1]), H, i), NEW u, MovedBack(u, tb, H, i)
  PROVE  /\ Holed(u, i) /\ HlHeld(u) = HlHeld(tb)
         /\ Cardinality(HlOccupied(u)) = Cardinality(HlOccupied(tb))
<1>0. Tidy(tb) /\ KeyedOnce(tb) /\ H \in 0 .. tb.n - 1 /\ tb.ctrl[H] = Empty /\ Reachable(tb, H)
  BY DEF Holed
<1>1. /\ tb.n \in Nat /\ tb.n >= 8
      /\ \A j \in HlOccupied(tb) : j \in 0 .. tb.n - 1 /\ HomeOf(tb, tb.vals[j][1]) \in 0 .. tb.n - 1
      /\ H \notin HlOccupied(tb) /\ H # i /\ IsFiniteSet(HlOccupied(tb))
  <2>1. HlOccupied(tb) = {j \in 0 .. tb.n - 1 : tb.vals[j] # FreeBucket}
        /\ \A j \in 0 .. tb.n - 1 : tb.ctrl[j] = Empty <=> tb.vals[j] = FreeBucket
    BY <1>0, TidyFacts
  <2> QED
    BY <1>0, <2>1, TidyFacts, OccupiedFinite
<1>2. /\ Tidy(u) /\ u.n = tb.n
      /\ \A j \in 0 .. tb.n - 1 : j # i /\ j # H => u.ctrl[j] = tb.ctrl[j] /\ u.vals[j] = tb.vals[j]
      /\ u.vals[H] = tb.vals[i] /\ u.ctrl[H] # Empty /\ u.ctrl[i] = Empty
      /\ HlOccupied(u) = (HlOccupied(tb) \cup {H}) \ {i}
      /\ \A k : HomeOf(u, k) = HomeOf(tb, k)
  BY DEF MovedBack
<1>3. \A j \in HlOccupied(u) : \/ j = H /\ u.vals[j] = tb.vals[i]
                               \/ j # H /\ j # i /\ j \in HlOccupied(tb) /\ u.vals[j] = tb.vals[j]
  BY <1>1, <1>2
<1>4. KeyedOnce(u)
  BY <1>0, <1>1, <1>3 DEF KeyedOnce
<1>5. Reachable(u, i)
  <2> SUFFICES ASSUME NEW j \in HlOccupied(u), NEW b \in 0 .. u.n - 1, OnPath(HomeOf(u, u.vals[j][1]), b, j), b # i
               PROVE  u.ctrl[b] # Empty
    BY DEF Reachable
  <2>1. CASE b = H
    BY <1>2, <2>1
  <2>2. CASE b # H
    <3>0. u.ctrl[b] = tb.ctrl[b] /\ b \in 0 .. tb.n - 1
      BY <1>2, <2>2
    <3>1. CASE j = H
      <4>1. OnPath(HomeOf(tb, tb.vals[i][1]), b, H)
        BY <1>2, <3>1
      <4> DEFINE n == tb.n
                 h == HomeOf(tb, tb.vals[i][1])
      <4>2. n \in Nat /\ n >= 8 /\ H \in 0 .. n - 1 /\ i \in 0 .. n - 1 /\ H # i /\ h \in 0 .. n - 1 /\ b \in 0 .. n - 1
            /\ OnPath(h, H, i) /\ OnPath(h, b, H)
        BY <1>0, <1>1, <3>0, <4>1
      <4> HIDE DEF n, h
      <4>3. OnPath(h, b, i)
        BY <4>2, ShiftPlaces
      <4> QED
        BY <1>0, <2>2, <3>0, <4>3 DEF Reachable, h
    <3>2. CASE j # H
      <4>1. j \in HlOccupied(tb) /\ OnPath(HomeOf(tb, tb.vals[j][1]), b, j)
        BY <1>2, <1>3, <3>2
      <4> QED
        BY <1>0, <2>2, <3>0, <4>1 DEF Reachable
    <3> QED
      BY <3>1, <3>2
  <2> QED
    BY <2>1, <2>2
<1>6. HlHeld(u) = HlHeld(tb)
  <2>1. HlHeld(u) \subseteq HlHeld(tb)
    BY <1>3 DEF HlHeld
  <2>2. ASSUME NEW j \in HlOccupied(tb) PROVE tb.vals[j] \in HlHeld(u)
    <3>1. CASE j = i
      <4>1. H \in HlOccupied(u) /\ u.vals[H] = tb.vals[j]
        BY <1>1, <1>2, <3>1
      <4> QED
        BY <4>1 DEF HlHeld
    <3>2. CASE j # i
      <4>1. j \in HlOccupied(u) /\ u.vals[j] = tb.vals[j]
        BY <1>1, <1>2, <3>2
      <4> QED
        BY <4>1 DEF HlHeld
    <3> QED
      BY <3>1, <3>2
  <2> QED
    BY <2>1, <2>2 DEF HlHeld
<1>7. Cardinality(HlOccupied(u)) = Cardinality(HlOccupied(tb))
  <2> DEFINE S == HlOccupied(tb)
             T == S \cup {H}
  <2>1. IsFiniteSet(S) /\ H \notin S /\ Cardinality(S) \in Nat
    BY <1>1, FS_CardinalityType
  <2> HIDE DEF S
  <2>2. IsFiniteSet(T) /\ Cardinality(T) = Cardinality(S) + 1
    BY <2>1, FS_AddElement
  <2>3. i \in T
    BY DEF S
  <2> HIDE DEF T
  <2>4. Cardinality(T \ {i}) = Cardinality(T) - 1
    BY <2>2, <2>3, FS_RemoveElement
  <2> QED
    BY <1>2, <2>1, <2>2, <2>4 DEF S, T
<1> QED
  BY <1>1, <1>2, <1>4, <1>5, <1>6, <1>7 DEF Holed

(* A set of pairs with as many numbers in it.                              *)
LEMMA PairsCount ==
  ASSUME NEW k, NEW a \in Nat, NEW b \in Nat, a <= b
  PROVE  /\ IsFiniteSet({<<k, d>> : d \in a + 1 .. b})
         /\ Cardinality({<<k, d>> : d \in a + 1 .. b}) = b - a
<1> DEFINE S == a + 1 .. b
           T == {<<k, d>> : d \in S}
           f == [d \in S |-> <<k, d>>]
<1>1. IsFiniteSet(S) /\ Cardinality(S) = b - a
  <2> DEFINE lo == a + 1
  <2>1. lo \in Int /\ b \in Int /\ (IF lo > b THEN 0 ELSE b - lo + 1) = b - a
    OBVIOUS
  <2> HIDE DEF lo
  <2>2. IsFiniteSet(lo .. b) /\ Cardinality(lo .. b) = IF lo > b THEN 0 ELSE b - lo + 1
    BY <2>1, FS_Interval
  <2> QED
    BY <2>1, <2>2 DEF lo
<1> HIDE DEF S
<1>2. f \in Bijection(S, T)
  <2>1. f \in [S -> T] /\ \A x, y \in S : f[x] = f[y] => x = y
    OBVIOUS
  <2>2. \A t \in T : \E s \in S : f[s] = t
    OBVIOUS
  <2> QED
    BY <2>1, <2>2 DEF Bijection, Injection, Surjection, IsInjective
<1>3. ExistsBijection(S, T)
  BY <1>2 DEF ExistsBijection
<1>4. IsFiniteSet(T) /\ Cardinality(T) = Cardinality(S)
  BY <1>1, <1>3, FS_Bijection
<1> QED
  BY <1>1, <1>4 DEF S

(* The distances of the elements.                                          *)
LEMMA AwayFacts ==
  ASSUME HlAssumption, NEW tb, Tidy(tb)
  PROVE  /\ IsFiniteSet(Away(tb)) /\ Cardinality(Away(tb)) \in Nat
         /\ \A i \in HlOccupied(tb) : /\ Distance(tb, i) = Behind(tb.n, i, HomeOf(tb, tb.vals[i][1]))
                                      /\ Distance(tb, i) \in 0 .. tb.n - 1
<1>1. /\ tb.n \in Nat /\ tb.n >= 8 /\ IsFiniteSet(HlOccupied(tb))
      /\ \A i \in HlOccupied(tb) : i \in 0 .. tb.n - 1 /\ HomeOf(tb, tb.vals[i][1]) \in 0 .. tb.n - 1
  BY TidyFacts, OccupiedFinite
<1>2. ASSUME NEW i \in HlOccupied(tb)
      PROVE  /\ Distance(tb, i) = Behind(tb.n, i, HomeOf(tb, tb.vals[i][1]))
             /\ Distance(tb, i) \in 0 .. tb.n - 1
  <2> DEFINE n == tb.n
             h == HomeOf(tb, tb.vals[i][1])
  <2>1. n \in Nat /\ n > 0 /\ i \in 0 .. n - 1 /\ h \in 0 .. n - 1
    BY <1>1
  <2>2. Distance(tb, i) = (i - h) % n
    BY DEF Distance
  <2> HIDE DEF n, h
  <2>3. (i - h) % n = Behind(n, i, h) /\ Behind(n, i, h) \in 0 .. n - 1
    BY <2>1, Wraps
  <2> QED
    BY <2>2, <2>3 DEF n, h
<1> DEFINE Row(i) == {<<tb.vals[i][1], d>> : d \in 1 .. Distance(tb, i)}
           f == [i \in HlOccupied(tb) |-> Row(i)]
           R == {Row(i) : i \in HlOccupied(tb)}
<1>3. IsFiniteSet(R)
  <2> HIDE DEF Row
  <2>1. f \in [HlOccupied(tb) -> R] /\ \A t \in R : \E s \in HlOccupied(tb) : f[s] = t
    OBVIOUS
  <2>2. f \in Surjection(HlOccupied(tb), R)
    BY <2>1 DEF Surjection
  <2> QED
    BY <1>1, <2>2, FS_Surjection
<1>4. \A r \in R : IsFiniteSet(r)
  <2> SUFFICES ASSUME NEW i \in HlOccupied(tb) PROVE IsFiniteSet(Row(i))
    BY DEF Row
  <2> DEFINE k == tb.vals[i][1]
             b == Distance(tb, i)
  <2>1. b \in Nat /\ 0 <= b /\ 0 \in Nat
    BY <1>1, <1>2
  <2>2. Row(i) = {<<k, d>> : d \in 0 + 1 .. b}
    OBVIOUS
  <2> HIDE DEF k, b
  <2>3. IsFiniteSet({<<k, d>> : d \in 0 + 1 .. b})
    BY <2>1, PairsCount
  <2> QED
    BY <2>2, <2>3
<1>5. Away(tb) = UNION R
  BY DEF Away
<1> HIDE DEF R
<1>6. IsFiniteSet(Away(tb))
  BY <1>3, <1>4, <1>5, FS_UNION
<1> QED
  BY <1>2, <1>6, FS_CardinalityType

(* A move takes an element nearer to its home.                             *)
LEMMA AwayShrinks ==
  ASSUME HlAssumption, NEW tb, NEW H, Holed(tb, H), NEW i \in HlOccupied(tb),
         OnPath(HomeOf(tb, tb.vals[i][1]), H, i), NEW u, MovedBack(u, tb, H, i)
  PROVE  Cardinality(Away(u)) + Behind(tb.n, i, H) <= Cardinality(Away(tb))
<1>0. Tidy(tb) /\ KeyedOnce(tb) /\ H \in 0 .. tb.n - 1 /\ tb.ctrl[H] = Empty /\ Tidy(u)
  BY DEF Holed, MovedBack
<1> DEFINE n == tb.n
           k == tb.vals[i][1]
           h == HomeOf(tb, k)
           gap == Behind(n, i, H)
           dist == Behind(n, i, h)
           a == dist - gap
           M == {<<k, d>> : d \in a + 1 .. dist}
<1>1. n \in Nat /\ n >= 8 /\ i \in 0 .. n - 1 /\ h \in 0 .. n - 1 /\ H \notin HlOccupied(tb) /\ H # i
  <2>1. HlOccupied(tb) = {j \in 0 .. tb.n - 1 : tb.vals[j] # FreeBucket}
        /\ \A j \in 0 .. tb.n - 1 : tb.ctrl[j] = Empty <=> tb.vals[j] = FreeBucket
    BY <1>0, TidyFacts
  <2> QED
    BY <1>0, <2>1, TidyFacts
<1>2. /\ u.n = n
      /\ \A j \in 0 .. n - 1 : j # i /\ j # H => u.vals[j] = tb.vals[j]
      /\ u.vals[H] = tb.vals[i]
      /\ HlOccupied(u) = (HlOccupied(tb) \cup {H}) \ {i}
      /\ \A q : HomeOf(u, q) = HomeOf(tb, q)
  BY DEF MovedBack
<1>3. Distance(tb, i) = dist /\ dist \in 0 .. n - 1
  BY <1>0, AwayFacts
<1>4. Behind(n, H, h) = a /\ gap \in 1 .. n - 1 /\ gap <= dist
  <2>1. OnPath(h, H, i) /\ H \in 0 .. n - 1
    BY <1>0
  <2> HIDE DEF n, h
  <2>2. Behind(n, H, h) = Behind(n, i, h) - Behind(n, i, H) /\ Behind(n, i, H) \in 1 .. n - 1
        /\ Behind(n, i, h) >= Behind(n, i, H)
    BY <1>1, <2>1, ShiftPlaces
  <2> QED
    BY <1>1, <1>3, <2>2
<1>5. ASSUME NEW j \in HlOccupied(u), NEW d \in 1 .. Distance(u, j)
      PROVE  <<u.vals[j][1], d>> \in Away(tb) /\ <<u.vals[j][1], d>> \notin M
  <2>0. Distance(u, j) = Behind(n, j, HomeOf(tb, u.vals[j][1])) /\ Distance(u, j) \in Nat
    BY <1>0, <1>2, AwayFacts, TidyFacts
  <2>1. CASE j = H
    <3>1. u.vals[j][1] = k /\ Distance(u, j) = a
      BY <1>2, <1>4, <2>0, <2>1
    <3>2. d \in 1 .. Distance(tb, i) /\ d \notin a + 1 .. dist /\ d \in Nat
      BY <1>1, <1>3, <1>4, <1>5, <3>1
    <3>3. <<k, d>> \in Away(tb)
      BY <3>2 DEF Away
    <3>4. <<k, d>> \notin M
      <4> HIDE DEF k, a, dist
      <4> QED
        BY <3>2
    <3> QED
      BY <3>1, <3>3, <3>4
  <2>2. CASE j # H
    <3>1. j \in HlOccupied(tb) /\ j # i /\ u.vals[j] = tb.vals[j] /\ tb.vals[j][1] # k /\ j \in 0 .. n - 1
      <4>1. j \in HlOccupied(tb) /\ j # i
        BY <1>2, <2>2
      <4>2. j \in 0 .. n - 1
        BY <1>0, <4>1, TidyFacts
      <4> QED
        BY <1>0, <1>2, <2>2, <4>1, <4>2 DEF KeyedOnce
    <3>2. Distance(u, j) = Distance(tb, j)
      BY <1>0, <2>0, <3>1, AwayFacts
    <3>3. <<u.vals[j][1], d>> \in Away(tb)
      BY <3>1, <3>2 DEF Away
    <3>4. <<u.vals[j][1], d>> \notin M
      <4> HIDE DEF k, a, dist
      <4> QED
        BY <3>1
    <3> QED
      BY <3>3, <3>4
  <2> QED
    BY <2>1, <2>2
<1>6. Away(u) \subseteq Away(tb) \ M
  <2> HIDE DEF M
  <2> QED
    BY <1>5 DEF Away
<1>7. M \subseteq Away(tb)
  <2>1. ASSUME NEW d \in a + 1 .. dist PROVE <<k, d>> \in Away(tb)
    <3>1. d \in 1 .. Distance(tb, i)
      BY <1>1, <1>3, <1>4
    <3> QED
      BY <3>1 DEF Away
  <2> HIDE DEF k, a, dist
  <2> QED
    BY <2>1
<1>8. Cardinality(M) = gap
  <2>1. a \in Nat /\ dist \in Nat /\ a <= dist /\ dist - a = gap
    BY <1>1, <1>3, <1>4
  <2> HIDE DEF k, a, dist, gap
  <2> QED
    BY <2>1, PairsCount
<1>9. IsFiniteSet(Away(tb)) /\ Cardinality(Away(tb)) \in Nat /\ Cardinality(Away(u)) \in Nat
  BY <1>0, AwayFacts
<1> HIDE DEF M, gap
<1>10. Away(tb) \cap M = M
  BY <1>7
<1>11. IsFiniteSet(Away(tb) \ M) /\ Cardinality(Away(tb) \ M) = Cardinality(Away(tb)) - gap
  BY <1>8, <1>9, <1>10, FS_Difference
<1>12. Cardinality(Away(u)) <= Cardinality(Away(tb) \ M)
  BY <1>6, <1>11, FS_Subset
<1>13. Cardinality(Away(u)) + gap <= Cardinality(Away(tb))
  BY <1>4, <1>9, <1>11, <1>12
<1> QED
  BY <1>13 DEF gap

(* What the table t has become after r rounds: the elements in the gap are *)
(* nearer to their homes than to the hole, and there have been no more     *)
(* rounds than the moves have paid for, and the gap.                       *)
ShiftInv(s, t, r) ==
  /\ s = [tb |-> s.tb, hole |-> s.hole, i |-> s.i]
  /\ Holed(s.tb, s.hole) /\ s.tb.n = t.n /\ s.tb.g = t.g /\ s.tb.filled = t.filled
  /\ HlHeld(s.tb) = HlHeld(t) /\ Cardinality(HlOccupied(s.tb)) = Cardinality(HlOccupied(t))
  /\ s.i \in 0 .. t.n - 1
  /\ \A b \in 0 .. t.n - 1 : InGap(s.hole, b, s.i) =>
       b \in HlOccupied(s.tb) /\ ~ OnPath(HomeOf(s.tb, s.tb.vals[b][1]), s.hole, b)
  /\ \/ s.tb.ctrl[s.i] = Empty
     \/ r + Cardinality(Away(s.tb)) <= Cardinality(Away(t)) + Behind(t.n, s.i, s.hole) - 1

(* What a round does to it.                                                *)
LEMMA ShiftBackFacts ==
  ASSUME HlAssumption, NEW t, Tidy(t), NEW r \in Nat, NEW s, ShiftInv(s, t, r)
  PROVE  ShiftInv(ShiftBack(s), t, r + 1)
<1> DEFINE tb == s.tb
           H == s.hole
           i == s.i
           n == t.n
           next == Onward(n, i, 1)
           h == HomeOf(tb, tb.vals[i][1])
           gap == Behind(n, i, H)
           A == Cardinality(Away(tb))
           A0 == Cardinality(Away(t))
<1>0. /\ s = [tb |-> tb, hole |-> H, i |-> i]
      /\ Holed(tb, H) /\ tb.n = n /\ tb.g = t.g /\ tb.filled = t.filled
      /\ HlHeld(tb) = HlHeld(t) /\ Cardinality(HlOccupied(tb)) = Cardinality(HlOccupied(t))
      /\ i \in 0 .. n - 1
      /\ \A b \in 0 .. n - 1 : InGap(H, b, i) =>
           b \in HlOccupied(tb) /\ ~ OnPath(HomeOf(tb, tb.vals[b][1]), H, b)
      /\ tb.ctrl[i] = Empty \/ r + A <= A0 + gap - 1
  BY DEF ShiftInv
<1>1. /\ Tidy(tb) /\ H \in 0 .. n - 1 /\ tb.ctrl[H] = Empty /\ n \in Nat /\ n >= 8
  BY <1>0, TidyFacts DEF Holed
<1>2. CASE tb.ctrl[i] = Empty
  <2>1. ShiftBack(s) = s
    BY <1>2 DEF ShiftBack
  <2> QED
    BY <1>2, <2>1 DEF ShiftInv
<1>3. CASE tb.ctrl[i] # Empty
  <2>0. i \in HlOccupied(tb) /\ H # i /\ h \in 0 .. n - 1
    <3>1. HlOccupied(tb) = {j \in 0 .. n - 1 : tb.vals[j] # FreeBucket}
          /\ \A j \in 0 .. n - 1 : tb.ctrl[j] = Empty <=> tb.vals[j] = FreeBucket
      BY <1>0, <1>1, TidyFacts
    <3>2. i \in HlOccupied(tb) /\ H # i
      BY <1>0, <1>1, <1>3, <3>1
    <3> QED
      BY <1>0, <1>1, <3>2, TidyFacts
  <2>1. Distance(tb, i) = Behind(n, i, h) /\ A \in Nat /\ A0 \in Nat
    BY <1>0, <1>1, <2>0, AwayFacts
  <2>2. (s.i + 1) % s.tb.n = next /\ (s.i - s.hole) % s.tb.n = gap
    <3>1. s.tb.n = n
      BY <1>0
    <3> HIDE DEF n
    <3> QED
      BY <1>0, <1>1, <3>1, NextPlace, Wraps
  <2>3. /\ next \in 0 .. n - 1 /\ next # i
        /\ \A b \in 0 .. n - 1 : ~ InGap(i, b, next)
        /\ Behind(n, next, i) = 1
    <3> HIDE DEF n, i
    <3> QED
      BY <1>0, <1>1, NextPlace
  <2>4. /\ Behind(n, i, h) >= gap <=> OnPath(h, H, i)
        /\ \A b \in 0 .. n - 1 : InGap(H, b, next) => InGap(H, b, i) \/ b = i
        /\ next # H => Behind(n, next, H) = gap + 1
        /\ gap \in 1 .. n - 1
    <3> HIDE DEF n, i, h, H
    <3> QED
      BY <1>0, <1>1, <2>0, ShiftPlaces
  <2>5. CASE OnPath(h, H, i)
    <3> DEFINE u == Refilled(s)
               q == [tb |-> u, hole |-> i, i |-> next]
    <3>1. ShiftBack(s) = q
      <4>1. Distance(s.tb, s.i) >= gap
        BY <2>1, <2>4, <2>5
      <4> QED
        BY <1>3, <2>2, <4>1 DEF ShiftBack
    <3>2. MovedBack(u, tb, H, i)
      <4>1. s = [tb |-> tb, hole |-> H, i |-> i] /\ H \in 0 .. tb.n - 1
        BY <1>0, <1>1
      <4>2. MovedBack(Refilled([tb |-> tb, hole |-> H, i |-> i]), tb, H, i)
        <5> HIDE DEF tb, H, i
        <5> QED
          BY <1>1, <2>0, <4>1, RefilledFacts
      <4> HIDE DEF tb, H, i
      <4> QED
        BY <4>1, <4>2
    <3> HIDE DEF u
    <3>3. /\ Holed(u, i) /\ HlHeld(u) = HlHeld(tb)
          /\ Cardinality(HlOccupied(u)) = Cardinality(HlOccupied(tb))
      BY <1>0, <2>0, <2>5, <3>2, MovedFacts
    <3>4. Cardinality(Away(u)) + gap <= A
      BY <1>0, <2>0, <2>5, <3>2, AwayShrinks
    <3>5. u.n = n /\ u.g = t.g /\ u.filled = t.filled /\ Cardinality(Away(u)) \in Nat
      BY <1>0, <3>2, AwayFacts DEF MovedBack
    <3>6. r + 1 + Cardinality(Away(u)) <= A0 + Behind(n, next, i) - 1
      <4> HIDE DEF n, i, h, H, next, gap, A, A0
      <4> QED
        BY <1>0, <1>3, <2>1, <2>3, <2>4, <3>4, <3>5
    <3>7. q.tb = u /\ q.hole = i /\ q.i = next /\ q = [tb |-> q.tb, hole |-> q.hole, i |-> q.i]
      OBVIOUS
    <3> HIDE DEF q
    <3>8. ShiftInv(q, t, r + 1)
      BY <1>0, <2>3, <3>3, <3>5, <3>6, <3>7 DEF ShiftInv
    <3> QED
      BY <3>1, <3>8
  <2>6. CASE ~ OnPath(h, H, i)
    <3> DEFINE q == [tb |-> tb, hole |-> H, i |-> next]
    <3>1. ShiftBack(s) = q
      <4>1. ~ (Distance(s.tb, s.i) >= gap)
        BY <2>1, <2>4, <2>6
      <4>2. [s EXCEPT !.i = next] = q
        <5> HIDE DEF tb, H, i, next
        <5> QED
          BY <1>0
      <4> QED
        BY <1>3, <2>2, <4>1, <4>2 DEF ShiftBack
    <3>2. q.tb = tb /\ q.hole = H /\ q.i = next /\ q = [tb |-> q.tb, hole |-> q.hole, i |-> q.i]
      OBVIOUS
    <3>3. ASSUME NEW b \in 0 .. n - 1, InGap(H, b, next)
          PROVE  b \in HlOccupied(tb) /\ ~ OnPath(HomeOf(tb, tb.vals[b][1]), H, b)
      BY <1>0, <2>0, <2>4, <2>6, <3>3
    <3>4. tb.ctrl[next] = Empty \/ r + 1 + A <= A0 + Behind(n, next, H) - 1
      <4>1. CASE next = H
        BY <1>1, <4>1
      <4>2. CASE next # H
        <5> HIDE DEF n, i, h, H, next, gap, A, A0
        <5> QED
          BY <1>0, <1>3, <2>1, <2>4, <4>2
      <4> QED
        BY <4>1, <4>2
    <3> HIDE DEF q
    <3>5. ShiftInv(q, t, r + 1)
      BY <1>0, <2>3, <3>2, <3>3, <3>4 DEF ShiftInv
    <3> QED
      BY <3>1, <3>5
  <2> QED
    BY <2>5, <2>6
<1> QED
  BY <1>2, <1>3

(* When the loop comes to an EMPTY bucket, the hole parts no element from  *)
(* its home.                                                               *)
LEMMA ShiftEnds ==
  ASSUME HlAssumption, NEW t, Tidy(t), NEW r \in Nat, NEW s, ShiftInv(s, t, r), s.tb.ctrl[s.i] = Empty
  PROVE  Reachable(s.tb, s.tb.n)
<1> DEFINE tb == s.tb
           H == s.hole
           i == s.i
           n == t.n
<1>1. /\ Tidy(tb) /\ H \in 0 .. n - 1 /\ tb.n = n /\ i \in 0 .. n - 1 /\ Reachable(tb, H) /\ tb.ctrl[H] = Empty
      /\ \A b \in 0 .. n - 1 : InGap(H, b, i) =>
           b \in HlOccupied(tb) /\ ~ OnPath(HomeOf(tb, tb.vals[b][1]), H, b)
  BY DEF ShiftInv, Holed
<1>2. n \in Nat /\ n >= 8
  BY <1>1, TidyFacts
<1> SUFFICES ASSUME NEW j \in HlOccupied(tb), NEW b \in 0 .. n - 1,
                    OnPath(HomeOf(tb, tb.vals[j][1]), b, j)
             PROVE  tb.ctrl[b] # Empty
  BY <1>1 DEF Reachable
<1> DEFINE h == HomeOf(tb, tb.vals[j][1])
<1>3. j \in 0 .. n - 1 /\ h \in 0 .. n - 1 /\ tb.ctrl[j] # Empty
  <2>1. HlOccupied(tb) = {a \in 0 .. tb.n - 1 : tb.vals[a] # FreeBucket}
        /\ \A a \in 0 .. tb.n - 1 : tb.ctrl[a] = Empty <=> tb.vals[a] = FreeBucket
    BY <1>1, TidyFacts
  <2> QED
    BY <1>1, <2>1, TidyFacts
<1>4. tb.ctrl[b] # Empty \/ b = H
  BY <1>1 DEF Reachable
<1>5. ASSUME b = H PROVE FALSE
  <2>1. OnPath(h, H, j) /\ j # H /\ j # i
    BY <1>1, <1>3, <1>5
  <2>2. ~ InGap(H, j, i)
    BY <1>1, <1>3, <2>1
  <2>3. i # H
    BY <1>1, <1>2, <1>3, <2>1, <2>2 DEF InGap
  <2>4. OnPath(h, i, j)
    <3> HIDE DEF h, H, i, n
    <3> QED
      BY <1>1, <1>2, <1>3, <2>1, <2>2, <2>3, ShiftPlaces
  <2>5. tb.ctrl[i] # Empty \/ i = H
    BY <1>1, <2>4 DEF Reachable
  <2> QED
    BY <2>3, <2>5
<1> QED
  BY <1>4, <1>5

(* What is left of a table with a hole when the loop has ended.            *)
ClosesHole(u, t) ==
  /\ Tidy(u) /\ KeyedOnce(u) /\ Reachable(u, u.n) /\ u.n = t.n /\ u.g = t.g /\ u.filled = t.filled
  /\ HlHeld(u) = HlHeld(t) /\ Cardinality(HlOccupied(u)) = Cardinality(HlOccupied(t))

(* The rounds close the hole.                                              *)
LEMMA ShiftedFacts ==
  ASSUME HlAssumption, NEW t, NEW at, Holed(t, at)
  PROVE  ClosesHole(HlShifted(t, at), t)
<1> DEFINE n == t.n
           g == t.g
           N == Cardinality(Away(t)) + n
           States == [tb : HlShape(n, g), hole : 0 .. n - 1, i : 0 .. n - 1]
           Inv == [r \in 0 .. N |-> {s \in States : ShiftInv(s, t, r)}]
           step == [r \in 1 .. N |-> [s \in States |-> ShiftBack(s)]]
           f0 == [tb |-> t, hole |-> at, i |-> (at + 1) % n]
           Is(f) == f = [r \in 0 .. N |-> IF r = 0 THEN f0 ELSE ShiftBack(f[r - 1])]
<1>0. Tidy(t) /\ KeyedOnce(t) /\ at \in 0 .. n - 1 /\ t.ctrl[at] = Empty /\ Reachable(t, at)
  BY DEF Holed
<1>1. n \in Nat /\ n >= 8 /\ Cardinality(Away(t)) \in Nat /\ N \in Nat /\ N >= 8
  BY <1>0, TidyFacts, AwayFacts
<1>2. \A s, r : ShiftInv(s, t, r) => s \in States
  <2> SUFFICES ASSUME NEW s, NEW r, ShiftInv(s, t, r) PROVE s \in States
    OBVIOUS
  <2>1. /\ s = [tb |-> s.tb, hole |-> s.hole, i |-> s.i]
        /\ Tidy(s.tb) /\ s.tb.n = n /\ s.tb.g = g /\ s.hole \in 0 .. n - 1 /\ s.i \in 0 .. n - 1
    BY DEF ShiftInv, Holed
  <2>2. s.tb \in HlShape(n, g)
    BY <2>1 DEF Tidy
  <2> HIDE DEF n, g
  <2> QED
    BY <2>1, <2>2
<1>3. ShiftInv(f0, t, 0)
  <2> DEFINE next == (at + 1) % n
  <2>1. /\ next = Onward(n, at, 1) /\ next \in 0 .. n - 1 /\ Behind(n, next, at) = 1
        /\ \A b \in 0 .. n - 1 : ~ InGap(at, b, next)
    <3> HIDE DEF n
    <3> QED
      BY <1>0, <1>1, NextPlace
  <2> HIDE DEF next
  <2>2. f0.tb = t /\ f0.hole = at /\ f0.i = next /\ f0 = [tb |-> f0.tb, hole |-> f0.hole, i |-> f0.i]
    BY DEF next
  <2> HIDE DEF f0
  <2>3. 0 + Cardinality(Away(t)) <= Cardinality(Away(t)) + Behind(n, next, at) - 1
    BY <1>1, <2>1
  <2> QED
    BY <2>1, <2>2, <2>3 DEF ShiftInv
<1> HIDE DEF f0, N
<1>4. ASSUME NEW r \in 1 .. N, NEW s, ShiftInv(s, t, r - 1) PROVE ShiftInv(ShiftBack(s), t, r)
  <2> DEFINE q == r - 1
  <2>1. q \in Nat /\ q + 1 = r /\ ShiftInv(s, t, q)
    BY <1>4
  <2> HIDE DEF q
  <2>2. ShiftInv(ShiftBack(s), t, q + 1)
    BY <1>0, <2>1, ShiftBackFacts
  <2> QED
    BY <2>1, <2>2
<1>5. Leads(step, Inv, N)
  <2> HIDE DEF States
  <2> SUFFICES ASSUME NEW r \in 1 .. N, NEW s \in Inv[r - 1] PROVE step[r][s] \in Inv[r]
    BY DEF Leads
  <2>1. r - 1 \in 0 .. N /\ r \in 0 .. N
    BY <1>1
  <2>2. ShiftInv(s, t, r - 1) /\ s \in States
    BY <2>1
  <2>3. step[r][s] = ShiftBack(s)
    BY <2>2
  <2>4. ShiftInv(ShiftBack(s), t, r)
    BY <1>4, <2>2
  <2> QED
    BY <1>2, <2>1, <2>3, <2>4
<1>6. f0 \in Inv[0]
  BY <1>1, <1>2, <1>3
<1>7. PICK f : Walks(f, f0, step, Inv, N)
  <2> HIDE DEF Inv, step
  <2> QED
    BY <1>1, <1>5, <1>6, WalkExists
<1>8. Is(f)
  <2> HIDE DEF States
  <2>1. ASSUME NEW r \in 0 .. N PROVE f[r] = IF r = 0 THEN f0 ELSE ShiftBack(f[r - 1])
    <3>1. CASE r = 0
      BY <1>7, <3>1 DEF Walks
    <3>2. CASE r # 0
      <4>1. r \in 1 .. N /\ r - 1 \in 0 .. N
        BY <1>1, <3>2
      <4>2. f[r] = step[r][f[r - 1]] /\ f[r - 1] \in Inv[r - 1]
        BY <1>7, <4>1 DEF Walks
      <4>3. f[r - 1] \in States
        BY <4>1, <4>2
      <4> QED
        BY <3>2, <4>1, <4>2, <4>3
    <3> QED
      BY <3>1, <3>2
  <2> QED
    BY <1>7, <2>1 DEF Walks
<1>9. ShiftRounds(t, at) = CHOOSE h : Is(h)
  BY DEF ShiftRounds, f0, N
<1> DEFINE m == ShiftRounds(t, at)
<1>10. Is(m)
  <2> HIDE DEF Is
  <2> QED
    BY <1>8, <1>9
<1> HIDE DEF m
<1>11. m[0] = f0 /\ \A r \in 1 .. N : m[r] = ShiftBack(m[r - 1])
  BY <1>1, <1>10
<1> HIDE DEF Is
<1> DEFINE S == {r \in 0 .. N : ShiftInv(m[r], t, r)}
<1>12. \A r \in 0 .. N : r \in S
  <2>1. 0 \in S
    BY <1>1, <1>3, <1>11
  <2>2. ASSUME NEW r \in 1 .. N, r - 1 \in S PROVE r \in S
    <3>1. ShiftInv(m[r - 1], t, r - 1) /\ r \in 0 .. N
      BY <2>2
    <3>2. ShiftInv(ShiftBack(m[r - 1]), t, r)
      BY <1>4, <3>1
    <3> QED
      BY <1>11, <3>1, <3>2
  <2> HIDE DEF S
  <2> QED
    BY <1>1, <2>1, <2>2, InductionUpTo
<1> DEFINE s == m[N]
<1>13. ShiftInv(s, t, N)
  <2>1. N \in 0 .. N
    BY <1>1
  <2> QED
    BY <1>12, <2>1
<1>14. HlShifted(t, at) = s.tb
  BY DEF HlShifted, m, N
<1> HIDE DEF s
<1>15. s.tb.ctrl[s.i] = Empty
  <2> SUFFICES ASSUME s.tb.ctrl[s.i] # Empty PROVE FALSE
    OBVIOUS
  <2>1. /\ N + Cardinality(Away(s.tb)) <= Cardinality(Away(t)) + Behind(n, s.i, s.hole) - 1
        /\ s.i \in 0 .. n - 1 /\ s.hole \in 0 .. n - 1 /\ Tidy(s.tb)
    BY <1>13 DEF ShiftInv, Holed
  <2>2. Behind(n, s.i, s.hole) \in Nat /\ Behind(n, s.i, s.hole) < n
    BY <1>1, <2>1 DEF Behind
  <2>3. Cardinality(Away(s.tb)) \in Nat
    BY <2>1, AwayFacts
  <2> QED
    BY <1>1, <2>1, <2>2, <2>3 DEF N
<1>16. Reachable(s.tb, s.tb.n)
  BY <1>0, <1>1, <1>13, <1>15, ShiftEnds
<1>17. ClosesHole(s.tb, t)
  BY <1>13, <1>16 DEF ClosesHole, ShiftInv, Holed
<1> QED
  BY <1>14, <1>17

(* The count changes, and nothing else.                                    *)
LEMMA CountingFacts ==
  ASSUME NEW w, Tidy(w), NEW c \in Nat
  PROVE  /\ Tidy(Counting(w, c)) /\ Counting(w, c).n = w.n /\ Counting(w, c).g = w.g /\ Counting(w, c).filled = c
         /\ Counting(w, c).vals = w.vals /\ Counting(w, c).ctrl = w.ctrl
         /\ HlOccupied(Counting(w, c)) = HlOccupied(w) /\ HlHeld(Counting(w, c)) = HlHeld(w)
         /\ KeyedOnce(w) => KeyedOnce(Counting(w, c))
         /\ Reachable(w, w.n) => Reachable(Counting(w, c), w.n)
<1> DEFINE u == Counting(w, c)
<1>1. w \in HlShape(w.n, w.g)
  BY DEF Tidy
<1>2. /\ u \in HlShape(w.n, w.g)
      /\ u.vals = w.vals /\ u.ctrl = w.ctrl /\ u.n = w.n /\ u.g = w.g /\ u.filled = c
  BY <1>1 DEF HlShape, Counting
<1> HIDE DEF u
<1>3. Tidy(u)
  BY <1>2 DEF Tidy, Tagged, Mirrored
<1>4. HlOccupied(u) = HlOccupied(w)
  BY <1>2 DEF HlOccupied
<1>5. HlHeld(u) = HlHeld(w)
  BY <1>2, <1>4 DEF HlHeld
<1>6. KeyedOnce(w) => KeyedOnce(u)
  BY <1>2, <1>4 DEF KeyedOnce
<1>7. Reachable(w, w.n) => Reachable(u, w.n)
  BY <1>2, <1>4 DEF Reachable, HomeOf
<1> QED
  BY <1>2, <1>3, <1>4, <1>5, <1>6, <1>7 DEF u

(* A bucket is cleared, and is the hole.                                   *)
LEMMA ClearedFacts ==
  ASSUME HlAssumption, NEW tb, HlSound(tb), NEW i \in HlOccupied(tb)
  PROVE  /\ Holed(ClearAt(tb, i), i)
         /\ ClearAt(tb, i).n = tb.n /\ ClearAt(tb, i).g = tb.g /\ ClearAt(tb, i).filled = tb.filled
         /\ HlHeld(ClearAt(tb, i)) = HlHeld(tb) \ {tb.vals[i]}
         /\ Cardinality(HlOccupied(ClearAt(tb, i))) = tb.filled - 1
         /\ tb.filled - 1 \in Nat
<1> DEFINE t == ClearAt(tb, i)
<1>0. Tidy(tb) /\ KeyedOnce(tb) /\ Counted(tb) /\ Reachable(tb, tb.n)
  BY DEF HlSound
<1>1. i \in 0 .. tb.n - 1 /\ tb.n \in Nat
  BY <1>0, TidyFacts
<1>2. t = WithBucket(tb, i, FreeBucket)
  BY <1>0, <1>1, PutAndClear
<1> HIDE DEF t
<1>3. DiffersAt(t, tb, i, FreeBucket, tb.filled)
  BY <1>0, <1>1, <1>2, BucketPut
<1>4. /\ Tidy(t) /\ t.n = tb.n /\ t.g = tb.g /\ t.filled = tb.filled
      /\ \A j \in 0 .. tb.n - 1 : j # i => t.ctrl[j] = tb.ctrl[j] /\ t.vals[j] = tb.vals[j]
      /\ t.ctrl[i] = Empty
      /\ HlOccupied(t) = HlOccupied(tb) \ {i}
      /\ \A k : HomeOf(t, k) = HomeOf(tb, k)
  BY <1>3 DEF DiffersAt
<1>5. \A j \in HlOccupied(t) : j \in HlOccupied(tb) /\ j # i /\ j \in 0 .. tb.n - 1 /\ t.vals[j] = tb.vals[j]
  <2>1. \A j \in HlOccupied(tb) : j \in 0 .. tb.n - 1
    BY <1>0, TidyFacts
  <2> QED
    BY <1>4, <2>1
<1>6. KeyedOnce(t)
  BY <1>0, <1>5 DEF KeyedOnce
<1>7. Reachable(t, i)
  <2> SUFFICES ASSUME NEW j \in HlOccupied(t), NEW b \in 0 .. t.n - 1, OnPath(HomeOf(t, t.vals[j][1]), b, j), b # i
               PROVE  t.ctrl[b] # Empty
    BY DEF Reachable
  <2>1. OnPath(HomeOf(tb, tb.vals[j][1]), b, j) /\ b \in 0 .. tb.n - 1 /\ j \in HlOccupied(tb)
    BY <1>4, <1>5
  <2>2. tb.ctrl[b] # Empty \/ b = tb.n
    BY <1>0, <2>1 DEF Reachable
  <2> QED
    BY <1>1, <1>4, <2>1, <2>2
<1>8. HlHeld(t) = HlHeld(tb) \ {tb.vals[i]}
  <2>1. \A j \in HlOccupied(tb) : j # i => tb.vals[j] # tb.vals[i] /\ j \in HlOccupied(t)
    BY <1>0, <1>4 DEF KeyedOnce
  <2> QED
    BY <1>4, <1>5, <2>1 DEF HlHeld
<1>9. Cardinality(HlOccupied(t)) = tb.filled - 1
  <2>1. IsFiniteSet(HlOccupied(tb))
    BY <1>0, OccupiedFinite
  <2>2. Cardinality(HlOccupied(tb) \ {i}) = Cardinality(HlOccupied(tb)) - 1
    BY <2>1, FS_RemoveElement
  <2> QED
    BY <1>0, <1>4, <2>2 DEF Counted
<1>10. Cardinality(HlOccupied(t)) \in Nat
  BY <1>4, OccupiedFinite
<1> QED
  BY <1>1, <1>4, <1>6, <1>7, <1>8, <1>9, <1>10 DEF Holed, t

(* What a table is that has lost an element.                               *)
Loses(u, tb, x) ==
  /\ HlSound(u) /\ u.n = tb.n /\ u.g = tb.g /\ u.filled = tb.filled - 1
  /\ HlHeld(u) = HlHeld(tb) \ {x}

(* erase() of an iterator.                                                 *)
LEMMA ErasedAtFacts ==
  ASSUME HlAssumption, NEW tb, HlSound(tb), NEW i \in HlOccupied(tb)
  PROVE  Loses(HlErasedAt(tb, i), tb, tb.vals[i])
<1> DEFINE t == ClearAt(tb, i)
           w == HlShifted(t, i)
           c == tb.filled - 1
<1>1. /\ Holed(t, i) /\ t.n = tb.n /\ t.g = tb.g /\ t.filled = tb.filled
      /\ HlHeld(t) = HlHeld(tb) \ {tb.vals[i]} /\ Cardinality(HlOccupied(t)) = c /\ c \in Nat
  BY ClearedFacts
<1>2. HlErasedAt(tb, i) = [w EXCEPT !.filled = @ - 1]
  BY DEF HlErasedAt
<1> HIDE DEF t
<1>3. ClosesHole(w, t)
  BY <1>1, ShiftedFacts
<1> HIDE DEF w
<1>4. /\ Tidy(w) /\ KeyedOnce(w) /\ Reachable(w, w.n) /\ w.n = tb.n /\ w.g = tb.g /\ w.filled = tb.filled
      /\ HlHeld(w) = HlHeld(t) /\ Cardinality(HlOccupied(w)) = c
  BY <1>1, <1>3 DEF ClosesHole
<1>5. [w EXCEPT !.filled = @ - 1] = Counting(w, c)
  <2>1. w \in HlShape(w.n, w.g)
    BY <1>4 DEF Tidy
  <2> QED
    BY <1>4, <2>1 DEF Counting, HlShape
<1> HIDE DEF c
<1> DEFINE u == Counting(w, c)
<1>6. /\ Tidy(u) /\ u.n = w.n /\ u.g = w.g /\ u.filled = c
      /\ HlOccupied(u) = HlOccupied(w) /\ HlHeld(u) = HlHeld(w)
      /\ KeyedOnce(u) /\ Reachable(u, w.n)
  BY <1>1, <1>4, CountingFacts
<1> HIDE DEF u
<1>7. HlSound(u)
  BY <1>4, <1>6 DEF HlSound, Counted
<1>8. Loses(u, tb, tb.vals[i])
  BY <1>1, <1>4, <1>6, <1>7 DEF Loses, c
<1> QED
  BY <1>2, <1>5, <1>8 DEF u

(* erase() of a key.                                                       *)
LEMMA ErasedFacts ==
  ASSUME HlAssumption, NEW tb, HlSound(tb), NEW k \in Keys
  PROVE  /\ ~ HasKey(tb, k) => HlErased(tb, k) = tb
         /\ HasKey(tb, k) => \E x \in HlHeld(tb) : x[1] = k /\ Loses(HlErased(tb, k), tb, x)
<1> DEFINE at == HlBucket(tb, k)
<1>0. Tidy(tb)
  BY DEF HlSound
<1>1. HlErased(tb, k) = IF at = tb.n THEN tb ELSE HlErasedAt(tb, at)
  BY DEF HlErased
<1>2. /\ HasKey(tb, k) => at \in HlOccupied(tb) /\ tb.vals[at][1] = k
      /\ ~ HasKey(tb, k) => at = tb.n
  BY BucketFacts
<1> HIDE DEF at
<1>3. ASSUME HasKey(tb, k) PROVE \E x \in HlHeld(tb) : x[1] = k /\ Loses(HlErased(tb, k), tb, x)
  <2>1. at \in HlOccupied(tb) /\ tb.vals[at][1] = k
    BY <1>2, <1>3
  <2>2. at # tb.n
    BY <1>0, <2>1, TidyFacts
  <2>3. Loses(HlErased(tb, k), tb, tb.vals[at])
    BY <1>1, <2>1, <2>2, ErasedAtFacts
  <2>4. tb.vals[at] \in HlHeld(tb)
    BY <2>1 DEF HlHeld
  <2> QED
    BY <2>1, <2>3, <2>4
<1> QED
  BY <1>1, <1>2, <1>3

(* What a table is that has another value for a key.                       *)
Replaces(u, tb, x, y) ==
  /\ HlSound(u) /\ u.n = tb.n /\ u.g = tb.g /\ u.filled = tb.filled
  /\ HlHeld(u) = (HlHeld(tb) \ {x}) \cup {y}

(* The element of a bucket has another value.                              *)
LEMMA RevaluedFacts ==
  ASSUME HlAssumption, NEW tb, HlSound(tb), NEW i \in HlOccupied(tb), NEW v \in Mapped
  PROVE  Replaces([tb EXCEPT !.vals[i] = <<@[1], v>>], tb, tb.vals[i], <<tb.vals[i][1], v>>)
<1> DEFINE x == tb.vals[i]
           y == <<tb.vals[i][1], v>>
           vals == [tb.vals EXCEPT ![i] = y]
           u == [tb EXCEPT !.vals[i] = <<@[1], v>>]
<1>0. Tidy(tb) /\ KeyedOnce(tb) /\ Counted(tb) /\ Reachable(tb, tb.n) /\ tb \in HlShape(tb.n, tb.g)
  BY DEF HlSound, Tidy
<1>1. /\ tb.n \in Nat /\ i \in 0 .. tb.n - 1 /\ x[1] \in Keys
      /\ tb.vals \in [0 .. tb.n - 1 -> HlElements \cup {FreeBucket}]
      /\ \A j \in HlOccupied(tb) : j \in 0 .. tb.n - 1
      /\ HlOccupied(tb) = {j \in 0 .. tb.n - 1 : tb.vals[j] # FreeBucket}
  BY <1>0, TidyFacts
<1>2. u = [tb EXCEPT !.vals = vals]
  BY <1>0 DEF HlShape
<1>3. y \in HlElements /\ y # FreeBucket /\ y[1] = x[1]
  BY <1>1 DEF HlElements, HlAssumption
<1> HIDE DEF y, u
<1>4. /\ vals \in [0 .. tb.n - 1 -> HlElements \cup {FreeBucket}]
      /\ vals[i] = y /\ \A j \in 0 .. tb.n - 1 : j # i => vals[j] = tb.vals[j]
  BY <1>1, <1>3
<1> HIDE DEF vals
<1>5. /\ u \in HlShape(tb.n, tb.g)
      /\ u.vals = vals /\ u.ctrl = tb.ctrl /\ u.n = tb.n /\ u.g = tb.g /\ u.filled = tb.filled
  BY <1>0, <1>2, <1>4 DEF HlShape
<1>6. \A j \in 0 .. tb.n - 1 : /\ u.vals[j] = FreeBucket <=> tb.vals[j] = FreeBucket
                               /\ tb.vals[j] # FreeBucket => u.vals[j][1] = tb.vals[j][1]
  BY <1>1, <1>3, <1>4, <1>5
<1>7. Tidy(u)
  <2>1. Tagged(u)
    BY <1>0, <1>5, <1>6 DEF Tidy, Tagged
  <2>2. Mirrored(u)
    BY <1>0, <1>5 DEF Tidy, Mirrored
  <2> QED
    BY <1>0, <1>5, <2>1, <2>2 DEF Tidy
<1>8. HlOccupied(u) = HlOccupied(tb)
  <2>1. HlOccupied(u) = {j \in 0 .. tb.n - 1 : u.vals[j] # FreeBucket}
    BY <1>5, <1>7, TidyFacts
  <2> QED
    BY <1>1, <1>6, <2>1
<1>9. \A j \in HlOccupied(tb) : u.vals[j][1] = tb.vals[j][1]
  BY <1>1, <1>6
<1>10. KeyedOnce(u)
  BY <1>0, <1>8, <1>9 DEF KeyedOnce
<1>11. Reachable(u, u.n)
  BY <1>0, <1>5, <1>8, <1>9 DEF Reachable, HomeOf
<1>12. HlSound(u)
  BY <1>0, <1>5, <1>7, <1>8, <1>10, <1>11 DEF HlSound, Counted
<1>13. HlHeld(u) = (HlHeld(tb) \ {x}) \cup {y}
  <2>1. \A j \in HlOccupied(tb) : j # i => tb.vals[j] # x /\ u.vals[j] = tb.vals[j]
    BY <1>0, <1>1, <1>4, <1>5 DEF KeyedOnce
  <2>2. u.vals[i] = y /\ tb.vals[i] = x
    BY <1>4, <1>5
  <2> HIDE DEF x
  <2> QED
    BY <1>8, <2>1, <2>2 DEF HlHeld
<1> QED
  BY <1>5, <1>12, <1>13 DEF Replaces, u, y

(* insert_or_assign(): the key is there afterwards, with the new value.    *)
LEMMA AssignedFacts ==
  ASSUME HlAssumption, NEW tb, HlSound(tb), 8 * (tb.filled + 1) <= MostBuckets,
         NEW k \in Keys, NEW v \in Mapped
  PROVE  /\ HasKey(tb, k) => \E x \in HlHeld(tb) : x[1] = k /\ Replaces(HlAssigned(tb, k, v), tb, x, <<k, v>>)
         /\ ~ HasKey(tb, k) => /\ Emplacement(HlEmplaced(tb, k, v), tb, k, v)
                               /\ HlAssigned(tb, k, v) = HlEmplaced(tb, k, v).tb
<1> DEFINE at == HlBucket(tb, k)
<1>0. Tidy(tb) /\ HlGood(tb)
  BY DEF HlSound, HlGood
<1>1. HlAssigned(tb, k, v) = IF at # tb.n THEN [tb EXCEPT !.vals[at] = <<@[1], v>>] ELSE HlEmplaced(tb, k, v).tb
  BY DEF HlAssigned
<1>2. /\ HasKey(tb, k) => at \in HlOccupied(tb) /\ tb.vals[at][1] = k
      /\ ~ HasKey(tb, k) => at = tb.n
  BY BucketFacts
<1> HIDE DEF at
<1>3. ASSUME HasKey(tb, k) PROVE \E x \in HlHeld(tb) : x[1] = k /\ Replaces(HlAssigned(tb, k, v), tb, x, <<k, v>>)
  <2>1. at \in HlOccupied(tb) /\ tb.vals[at][1] = k
    BY <1>2, <1>3
  <2>2. at # tb.n
    BY <1>0, <2>1, TidyFacts
  <2>3. Replaces([tb EXCEPT !.vals[at] = <<@[1], v>>], tb, tb.vals[at], <<tb.vals[at][1], v>>)
    BY <2>1, RevaluedFacts
  <2>4. tb.vals[at] \in HlHeld(tb)
    BY <2>1 DEF HlHeld
  <2> QED
    BY <1>1, <2>1, <2>2, <2>3, <2>4
<1>4. Emplacement(HlEmplaced(tb, k, v), tb, k, v)
  BY <1>0, EmplacedFacts
<1> QED
  BY <1>1, <1>2, <1>3, <1>4

(* reserve() keeps the elements too.                                       *)
LEMMA ReservedFacts ==
  ASSUME HlAssumption, NEW tb, HlGood(tb), NEW n \in Nat, 2 * n <= MostBuckets
  PROVE  IF n = 0 THEN HlReserved(tb, n) = tb ELSE KeepsElements(HlReserved(tb, n), tb)
<1> DEFINE need == (n * 100 + HlLoadFactor - 1) \div HlLoadFactor
           r == IF need < 8 THEN 8 ELSE need
<1>1. MostBuckets \in Nat /\ MostBuckets >= 8
  <2>1. MostBuckets \in BucketCounts
    BY DEF MostBuckets, BucketCounts
  <2> QED
    BY <2>1, Capacities
<1>2. n > 0 => need \in Nat /\ need <= 2 * n
  BY DEF HlLoadFactor
<1>3. HlReserved(tb, n) = IF n = 0 THEN tb ELSE HlRehashed(tb, r)
  BY DEF HlReserved
<1> HIDE DEF need
<1>4. n > 0 => r \in Nat /\ r <= MostBuckets
  BY <1>1, <1>2
<1> HIDE DEF r
<1> QED
  BY <1>3, <1>4, RehashedFacts

-----------------------------------------------------------------------------
(* Calls with many elements.                                               *)

(* Every table with groups of g.                                           *)
HlTables(g) == (UNION {HlShape(n, g) : n \in BucketCounts}) \cup {HlNoTable(g)}

(* A table holds what another does, and at most so many elements more.     *)
Includes(u, tb, i) ==
  /\ HlGood(u) /\ u.g = tb.g /\ u.filled <= tb.filled + i
  /\ HlHeld(tb) \subseteq HlHeld(u)

(* One element more.                                                       *)
LEMMA IncludesMore ==
  ASSUME HlAssumption, NEW tb, HlGood(tb), NEW N \in Nat, 8 * (tb.filled + N + 1) <= MostBuckets,
         NEW i \in 1 .. N, NEW x \in HlElements, NEW u, Includes(u, tb, i - 1)
  PROVE  Includes(HlEmplaced(u, x[1], x[2]).tb, tb, i)
<1> DEFINE k == x[1]
           v == x[2]
           p == HlEmplaced(u, k, v)
<1>1. k \in Keys /\ v \in Mapped
  BY DEF HlElements
<1>2. HlGood(u) /\ u.filled \in Nat /\ tb.filled \in Nat /\ u.filled <= tb.filled + (i - 1) /\ u.g = tb.g
  BY GoodFacts DEF Includes
<1> HIDE DEF k, v
<1>3. 8 * (u.filled + 1) <= MostBuckets
  <2>1. MostBuckets \in Nat
    BY Capacities
  <2> QED
    BY <1>2, <2>1
<1>4. Emplacement(p, u, k, v)
  BY <1>1, <1>2, <1>3, EmplacedFacts
<1> HIDE DEF p
<1>5. /\ HlSound(p.tb) /\ p.tb.g = u.g /\ HlHeld(u) \subseteq HlHeld(p.tb)
      /\ (p.tb.filled = u.filled \/ p.tb.filled = u.filled + 1)
  BY <1>4 DEF Emplacement
<1>6. p.tb.filled <= tb.filled + i
  BY <1>2, <1>5
<1>7. HlGood(p.tb)
  BY <1>5 DEF HlGood
<1>8. HlHeld(tb) \subseteq HlHeld(p.tb)
  BY <1>5 DEF Includes
<1> QED
  BY <1>2, <1>5, <1>6, <1>7, <1>8 DEF Includes, p, k, v

(* Every table of the proofs is one of these.                              *)
LEMMA GoodShape ==
  ASSUME NEW u, HlGood(u)
  PROVE  u \in HlTables(u.g)
<1>1. CASE HlSound(u)
  BY <1>1, SoundShape DEF HlTables
<1>2. ASSUME NEW g, u = HlNoTable(g) PROVE u \in HlTables(g)
  BY <1>2 DEF HlTables
<1> QED
  BY <1>1, <1>2 DEF HlGood

(* insert() of a list, element after element.                              *)
LEMMA InsertsFacts ==
  ASSUME HlAssumption, NEW tb, HlGood(tb), NEW s \in Seq(HlElements), 8 * (tb.filled + Len(s) + 1) <= MostBuckets
  PROVE  \A i \in 0 .. Len(s) : Includes(HlInserts(tb, s)[i], tb, i)
<1> DEFINE N == Len(s)
           One(u, i) == HlEmplaced(u, s[i][1], s[i][2]).tb
           Inv == [i \in 0 .. N |-> {u \in HlTables(tb.g) : Includes(u, tb, i)}]
           step == [i \in 1 .. N |-> [u \in HlTables(tb.g) |-> One(u, i)]]
           Is(f) == f = [i \in 0 .. N |-> IF i = 0 THEN tb ELSE One(f[i - 1], i)]
<1>1. N \in Nat /\ \A i \in 1 .. N : s[i] \in HlElements
  OBVIOUS
<1>2. \A u, i : Includes(u, tb, i) => u \in HlTables(tb.g)
  BY GoodShape DEF Includes
<1>3. Includes(tb, tb, 0)
  <2>1. tb.filled \in Nat
    BY GoodFacts
  <2> QED
    BY <2>1 DEF Includes
<1>4. ASSUME NEW i \in 1 .. N, NEW u, Includes(u, tb, i - 1) PROVE Includes(One(u, i), tb, i)
  <2> DEFINE x == s[i]
  <2>1. x \in HlElements
    BY <1>1
  <2> HIDE DEF x
  <2>2. Includes(HlEmplaced(u, x[1], x[2]).tb, tb, i)
    BY <1>1, <1>4, <2>1, IncludesMore
  <2> QED
    BY <2>2 DEF x
<1> HIDE DEF One
<1>5. Leads(step, Inv, N)
  <2> SUFFICES ASSUME NEW i \in 1 .. N, NEW u \in Inv[i - 1] PROVE step[i][u] \in Inv[i]
    BY DEF Leads
  <2>1. i - 1 \in 0 .. N /\ i \in 0 .. N
    BY <1>1
  <2>2. Includes(u, tb, i - 1) /\ u \in HlTables(tb.g)
    BY <2>1
  <2>3. step[i][u] = One(u, i)
    BY <2>2
  <2>4. Includes(One(u, i), tb, i)
    BY <1>4, <2>2
  <2> QED
    BY <1>2, <2>1, <2>3, <2>4
<1>6. tb \in Inv[0]
  BY <1>1, <1>2, <1>3
<1>7. PICK f : Walks(f, tb, step, Inv, N)
  <2> HIDE DEF Inv, step, N
  <2> QED
    BY <1>1, <1>5, <1>6, WalkExists
<1>8. Is(f)
  <2>1. ASSUME NEW i \in 0 .. N PROVE f[i] = IF i = 0 THEN tb ELSE One(f[i - 1], i)
    <3>1. CASE i = 0
      BY <1>7, <3>1 DEF Walks
    <3>2. CASE i # 0
      <4>1. i \in 1 .. N /\ i - 1 \in 0 .. N
        BY <1>1, <3>2
      <4>2. f[i] = step[i][f[i - 1]] /\ f[i - 1] \in Inv[i - 1]
        BY <1>7, <4>1 DEF Walks
      <4>3. f[i - 1] \in HlTables(tb.g)
        BY <4>1, <4>2
      <4> QED
        BY <3>2, <4>1, <4>2, <4>3
    <3> QED
      BY <3>1, <3>2
  <2> QED
    BY <1>7, <2>1 DEF Walks
<1>9. HlInserts(tb, s) = CHOOSE g : Is(g)
  BY DEF HlInserts, One
<1> DEFINE m == HlInserts(tb, s)
<1>10. Is(m)
  <2> HIDE DEF Is
  <2> QED
    BY <1>8, <1>9
<1> HIDE DEF m
<1>11. m[0] = tb /\ \A i \in 1 .. N : m[i] = One(m[i - 1], i)
  BY <1>1, <1>10
<1> HIDE DEF Is
<1> DEFINE S == {i \in 0 .. N : Includes(m[i], tb, i)}
<1>12. \A i \in 0 .. N : i \in S
  <2>1. 0 \in S
    BY <1>1, <1>3, <1>11
  <2>2. ASSUME NEW i \in 1 .. N, i - 1 \in S PROVE i \in S
    <3>1. Includes(m[i - 1], tb, i - 1) /\ i \in 0 .. N
      BY <2>2
    <3>2. Includes(One(m[i - 1], i), tb, i)
      BY <1>4, <3>1
    <3> QED
      BY <1>11, <3>1, <3>2
  <2> HIDE DEF S
  <2> QED
    BY <1>1, <2>1, <2>2, InductionUpTo
<1> QED
  BY <1>12 DEF m

(* insert() of a list, and the constructor from one.                       *)
LEMMA InsertedRangeFacts ==
  ASSUME HlAssumption, NEW tb, HlGood(tb), NEW s \in Seq(HlElements), 8 * (tb.filled + Len(s) + 1) <= MostBuckets
  PROVE  Includes(HlInsertedRange(tb, s), tb, Len(s))
<1>1. Len(s) \in 0 .. Len(s)
  OBVIOUS
<1>2. HlInsertedRange(tb, s) = HlInserts(tb, s)[Len(s)]
  BY DEF HlInsertedRange
<1> QED
  BY <1>1, <1>2, InsertsFacts

(* The constructor from a list.                                            *)
LEMMA ConstructedFacts ==
  ASSUME HlAssumption, NEW g \in HlGroups, NEW s \in Seq(HlElements), 16 * (Len(s) + 1) <= MostBuckets
  PROVE  /\ HlGood(HlConstructed(g, s)) /\ HlConstructed(g, s).g = g
         /\ HlConstructed(g, s).filled <= Len(s)
<1> DEFINE n == IF Len(s) > 8 THEN Len(s) ELSE 8
           none == HlNoTable(g)
           u == HlReserved(none, n)
           w == HlConstructed(g, s)
<1>1. none.g = g /\ none.filled = 0 /\ HlGood(none)
  BY DEF HlNoTable, HlGood
<1> HIDE DEF none
<1>2. Len(s) \in Nat /\ n \in Nat /\ n # 0 /\ MostBuckets \in Nat /\ 2 * n <= MostBuckets
  <2>1. MostBuckets \in Nat
    BY Capacities
  <2> QED
    BY <2>1
<1>3. w = HlInsertedRange(u, s)
  BY DEF HlConstructed, none
<1> HIDE DEF n, w
<1>4. KeepsElements(u, none)
  BY <1>1, <1>2, ReservedFacts
<1> HIDE DEF u
<1>5. HlGood(u) /\ u.filled = 0 /\ u.g = g
  BY <1>1, <1>4 DEF KeepsElements, HlGood
<1>6. Includes(w, u, Len(s))
  <2>1. 8 * (u.filled + Len(s) + 1) <= MostBuckets
    BY <1>2, <1>5
  <2> QED
    BY <1>3, <1>5, <2>1, InsertedRangeFacts
<1>7. HlGood(w) /\ w.g = g /\ w.filled <= u.filled + Len(s)
  BY <1>5, <1>6 DEF Includes
<1> QED
  BY <1>2, <1>5, <1>7 DEF w

(* merge() so far: what the other table has lost is in this one, and was   *)
(* not there before.                                                       *)
Merging(b, to, from) ==
  /\ HlSound(b.to) /\ b.to.g = to.g
  /\ HlGood(b.from) /\ b.from.g = from.g /\ b.from.n = from.n /\ b.from.filled <= from.filled
  /\ b.to.filled + b.from.filled = to.filled + from.filled
  /\ HlHeld(b.from) \subseteq HlHeld(from)
  /\ HlHeld(b.to) = HlHeld(to) \cup (HlHeld(from) \ HlHeld(b.from))
  /\ \A x \in HlHeld(from) \ HlHeld(b.from) : ~ HasKey(to, x[1])

(* One bucket of the other table.                                          *)
LEMMA MergeOneFacts ==
  ASSUME HlAssumption, NEW to, NEW from, HlGood(from), 8 * (to.filled + from.filled + 1) <= MostBuckets,
         to.filled \in Nat,
         NEW b, Merging(b, to, from), NEW i \in 0 .. from.n - 1
  PROVE  Merging(HlMergeOne(b, i), to, from)
<1> DEFINE e == b.from.vals[i]
           p == HlEmplaced(b.to, e[1], e[2])
           f == HlErased(b.from, e[1])
           stays == b.from.ctrl[i] # "low" \/ HlBucket(b.to, e[1]) < b.to.n
           c == HlMergeOne(b, i)
<1>0. /\ HlSound(b.to) /\ b.to.g = to.g
      /\ HlSound(b.from) /\ b.from.g = from.g /\ b.from.n = from.n
      /\ b.to.filled + b.from.filled = to.filled + from.filled
      /\ HlHeld(b.from) \subseteq HlHeld(from)
      /\ HlHeld(b.to) = HlHeld(to) \cup (HlHeld(from) \ HlHeld(b.from))
      /\ \A x \in HlHeld(from) \ HlHeld(b.from) : ~ HasKey(to, x[1])
  <2>1. from.n \in Nat /\ from.n > 0
    BY GoodFacts
  <2>2. HlGood(b.from) /\ b.from.n = from.n
    BY DEF Merging
  <2>3. HlSound(b.from)
    BY <2>1, <2>2, GoodFacts
  <2> QED
    BY <2>3 DEF Merging
<1>5. b.from.filled <= from.filled
  BY DEF Merging
<1>1. Tidy(b.to) /\ Tidy(b.from) /\ KeyedOnce(b.from)
  BY <1>0 DEF HlSound
<1>2. c = IF stays THEN b ELSE [to |-> p.tb, from |-> f]
  BY DEF HlMergeOne
<1> HIDE DEF c
<1>3. ASSUME stays PROVE Merging(c, to, from)
  <2>1. c = b
    BY <1>2, <1>3
  <2> QED
    BY <2>1
<1>4. ASSUME ~ stays PROVE Merging(c, to, from)
  <2>1. i \in HlOccupied(b.from)
    <3>1. i \in 0 .. b.from.n - 1 /\ b.from.ctrl[i] # Empty
      BY <1>0, <1>4 DEF Empty
    <3> QED
      BY <1>1, <3>1, TidyFacts
  <2>2. e \in HlHeld(b.from) /\ e[1] \in Keys /\ e[2] \in Mapped /\ e = <<e[1], e[2]>>
    <3>1. e \in HlElements /\ e[1] \in Keys /\ e[2] \in Mapped
      BY <1>1, <2>1, TidyFacts
    <3>2. e \in HlHeld(b.from)
      BY <2>1 DEF HlHeld
    <3>3. e = <<e[1], e[2]>>
      BY <3>1 DEF HlElements
    <3> QED
      BY <3>1, <3>2, <3>3
  <2>3. ~ HasKey(b.to, e[1])
    <3> SUFFICES ASSUME HasKey(b.to, e[1]) PROVE FALSE
      OBVIOUS
    <3>1. HlBucket(b.to, e[1]) \in HlOccupied(b.to)
      BY <1>0, <2>2, BucketFacts
    <3>2. HlBucket(b.to, e[1]) \in 0 .. b.to.n - 1 /\ b.to.n \in Nat
      BY <1>1, <3>1, TidyFacts
    <3> QED
      BY <1>4, <3>2
  <2>4. c.to = p.tb /\ c.from = f
    BY <1>2, <1>4
  <2> HIDE DEF e
  <2>5. b.to.filled \in Nat /\ b.from.filled \in Nat /\ from.filled \in Nat /\ MostBuckets \in Nat
    BY <1>1, TidyFacts, GoodFacts, Capacities
  <2>6. Emplacement(p, b.to, e[1], e[2])
    <3>1. HlGood(b.to)
      BY <1>0 DEF HlGood
    <3>2. 8 * (b.to.filled + 1) <= MostBuckets
      BY <1>0, <2>5
    <3> QED
      BY <2>2, <3>1, <3>2, EmplacedFacts
  <2> HIDE DEF p
  <2>7. /\ HlSound(p.tb) /\ p.tb.g = b.to.g /\ p.tb.filled = b.to.filled + 1
        /\ HlHeld(p.tb) = HlHeld(b.to) \cup {e}
    BY <2>2, <2>3, <2>6 DEF Emplacement
  <2>8. Loses(f, b.from, e)
    <3>1. HasKey(b.from, e[1])
      BY <2>2 DEF HasKey
    <3>2. PICK x \in HlHeld(b.from) : x[1] = e[1] /\ Loses(f, b.from, x)
      BY <1>0, <2>2, <3>1, ErasedFacts
    <3>3. x = e
      BY <1>1, <2>2, <3>2, HeldFacts
    <3> QED
      BY <3>2, <3>3
  <2> HIDE DEF f
  <2>9. /\ HlSound(f) /\ f.g = b.from.g /\ f.n = b.from.n /\ f.filled = b.from.filled - 1
        /\ HlHeld(f) = HlHeld(b.from) \ {e}
    BY <2>8 DEF Loses
  <2>10. p.tb.filled + f.filled = to.filled + from.filled
    BY <1>0, <2>5, <2>7, <2>9
  <2>11. HlHeld(p.tb) = HlHeld(to) \cup (HlHeld(from) \ HlHeld(f))
    BY <1>0, <2>2, <2>7, <2>9
  <2>12. ~ HasKey(to, e[1])
    BY <1>0, <2>3 DEF HasKey
  <2>13. \A x \in HlHeld(from) \ HlHeld(f) : ~ HasKey(to, x[1])
    BY <1>0, <2>9, <2>12
  <2>14. HlHeld(f) \subseteq HlHeld(from)
    BY <1>0, <2>9
  <2>15. f.filled <= from.filled
    BY <1>5, <2>5, <2>9
  <2> QED
    BY <1>0, <2>4, <2>7, <2>9, <2>10, <2>11, <2>13, <2>14, <2>15 DEF Merging, HlGood
<1> QED
  BY <1>3, <1>4 DEF c

(* The buckets one after the other.                                        *)
LEMMA MergesFacts ==
  ASSUME HlAssumption, NEW to, HlSound(to), NEW from, HlGood(from), 8 * (to.filled + from.filled + 1) <= MostBuckets
  PROVE  \A i \in 0 .. from.n : Merging(HlMerges(to, from)[i], to, from)
<1> DEFINE N == from.n
           States == [to : HlTables(to.g), from : HlTables(from.g)]
           Both == {b \in States : Merging(b, to, from)}
           Inv == [i \in 0 .. N |-> Both]
           step == [i \in 1 .. N |-> [b \in States |-> HlMergeOne(b, i - 1)]]
           f0 == [to |-> to, from |-> from]
           Is(f) == f = [i \in 0 .. N |-> IF i = 0 THEN f0 ELSE HlMergeOne(f[i - 1], i - 1)]
<1>1. N \in Nat /\ to.filled \in Nat
  BY TidyFacts, GoodFacts DEF HlSound
<1>2. \A b : Merging(b, to, from) => b.to \in HlTables(to.g) /\ b.from \in HlTables(from.g)
  <2> SUFFICES ASSUME NEW b, Merging(b, to, from) PROVE b.to \in HlTables(to.g) /\ b.from \in HlTables(from.g)
    OBVIOUS
  <2>1. HlGood(b.to) /\ HlGood(b.from) /\ b.to.g = to.g /\ b.from.g = from.g
    BY DEF Merging, HlGood
  <2> QED
    BY <2>1, GoodShape
<1>3. Merging(f0, to, from) /\ f0 \in Both
  <2>1. Merging(f0, to, from)
    <3>1. from.filled \in Nat
      BY GoodFacts
    <3> QED
      BY <3>1 DEF Merging
  <2>2. to \in HlTables(to.g) /\ from \in HlTables(from.g)
    BY <1>2, <2>1
  <2> QED
    BY <2>1, <2>2
<1>4. ASSUME NEW i \in 1 .. N, NEW b \in Both PROVE HlMergeOne(b, i - 1) \in Both
  <2>1. Merging(b, to, from) /\ i - 1 \in 0 .. from.n - 1 /\ b \in States
    BY <1>1
  <2>2. Merging(HlMergeOne(b, i - 1), to, from)
    BY <1>1, <2>1, MergeOneFacts
  <2>3. HlMergeOne(b, i - 1) \in States
    <3> DEFINE c == HlMergeOne(b, i - 1)
               new == [to |-> HlEmplaced(b.to, b.from.vals[i - 1][1], b.from.vals[i - 1][2]).tb,
                       from |-> HlErased(b.from, b.from.vals[i - 1][1])]
    <3>1. c = b \/ c = new
      BY DEF HlMergeOne
    <3>2. c.to \in HlTables(to.g) /\ c.from \in HlTables(from.g)
      BY <1>2, <2>2
    <3> HIDE DEF c
    <3>3. CASE c = b
      BY <2>1, <3>3 DEF c
    <3>4. CASE c = new
      <4>1. c = [to |-> c.to, from |-> c.from]
        BY <3>4
      <4> QED
        BY <3>2, <4>1 DEF c
    <3> QED
      BY <3>1, <3>3, <3>4
  <2> QED
    BY <2>2, <2>3
<1>5. f0 \in Inv[0]
  BY <1>1, <1>3
<1>6. \A b \in Both : b \in States /\ Merging(b, to, from)
  OBVIOUS
<1> HIDE DEF Both, States, f0
<1>7. Leads(step, Inv, N)
  <2> SUFFICES ASSUME NEW i \in 1 .. N, NEW b \in Inv[i - 1] PROVE step[i][b] \in Inv[i]
    BY DEF Leads
  <2>1. i - 1 \in 0 .. N /\ i \in 0 .. N
    BY <1>1
  <2>2. b \in Both /\ b \in States
    BY <1>6, <2>1
  <2>3. step[i][b] = HlMergeOne(b, i - 1)
    BY <2>2
  <2> QED
    BY <1>4, <2>1, <2>2, <2>3
<1>8. PICK f : Walks(f, f0, step, Inv, N)
  <2> HIDE DEF Inv, step, N
  <2> QED
    BY <1>1, <1>5, <1>7, WalkExists
<1>9. Is(f)
  <2>1. ASSUME NEW i \in 0 .. N PROVE f[i] = IF i = 0 THEN f0 ELSE HlMergeOne(f[i - 1], i - 1)
    <3>1. CASE i = 0
      BY <1>8, <3>1 DEF Walks
    <3>2. CASE i # 0
      <4>1. i \in 1 .. N /\ i - 1 \in 0 .. N
        BY <1>1, <3>2
      <4>2. f[i] = step[i][f[i - 1]] /\ f[i - 1] \in Inv[i - 1]
        BY <1>8, <4>1 DEF Walks
      <4>3. f[i - 1] \in States
        BY <1>6, <4>1, <4>2
      <4> QED
        BY <3>2, <4>1, <4>2, <4>3
    <3> QED
      BY <3>1, <3>2
  <2> QED
    BY <1>8, <2>1 DEF Walks
<1>10. HlMerges(to, from) = CHOOSE g : Is(g)
  BY DEF HlMerges, f0
<1> DEFINE m == HlMerges(to, from)
<1>11. Is(m)
  <2> HIDE DEF Is
  <2> QED
    BY <1>9, <1>10
<1> HIDE DEF m
<1>12. m[0] = f0 /\ \A i \in 1 .. N : m[i] = HlMergeOne(m[i - 1], i - 1)
  BY <1>1, <1>11
<1> HIDE DEF Is
<1> DEFINE S == {i \in 0 .. N : m[i] \in Both}
<1>13. \A i \in 0 .. N : i \in S
  <2>1. 0 \in S
    BY <1>1, <1>3, <1>12
  <2>2. ASSUME NEW i \in 1 .. N, i - 1 \in S PROVE i \in S
    BY <1>4, <1>12, <2>2
  <2> HIDE DEF S
  <2> QED
    BY <1>1, <2>1, <2>2, InductionUpTo
<1> QED
  BY <1>6, <1>13 DEF m

(* merge().                                                                *)
LEMMA MergedFacts ==
  ASSUME HlAssumption, NEW to, HlSound(to), NEW from, HlGood(from), 8 * (to.filled + from.filled + 1) <= MostBuckets
  PROVE  Merging(HlMerged(to, from), to, from)
<1>1. from.n \in 0 .. from.n
  <2>1. from.n \in Nat
    BY GoodFacts
  <2> QED
    BY <2>1
<1> QED
  BY <1>1, MergesFacts DEF HlMerged

-----------------------------------------------------------------------------
(* The client.                                                             *)

HlSmall(tb) == 16 * (tb.filled + 1) <= MostBuckets

(* The inductive invariant.                                                *)
HlInv ==
  /\ HlGood(hl) /\ HlGood(hl_other) /\ hl.g = hl_other.g
  /\ HlSmall(hl) /\ HlSmall(hl_other)

SameKind(u, tb) == HlGood(u) /\ u.g = tb.g

(* Every call leaves a table.                                              *)
LEMMA HlEmplaceKind ==
  ASSUME HlAssumption, NEW tb, HlGood(tb), HlSmall(tb), NEW k \in Keys, NEW v \in Mapped
  PROVE  /\ Emplacement(HlEmplaced(tb, k, v), tb, k, v)
         /\ SameKind(HlEmplaced(tb, k, v).tb, tb)
<1>1. tb.filled \in Nat /\ MostBuckets \in Nat
  BY GoodFacts, Capacities
<1>2. 8 * (tb.filled + 1) <= MostBuckets
  BY <1>1 DEF HlSmall
<1>3. Emplacement(HlEmplaced(tb, k, v), tb, k, v)
  BY <1>2, EmplacedFacts
<1> QED
  BY <1>3 DEF Emplacement, SameKind, HlGood

(* Assigning a key of a table keeps it a table of its kind.                *)
LEMMA HlAssignKind ==
  ASSUME HlAssumption, NEW tb, HlGood(tb), tb.n > 0, HlSmall(tb), NEW k \in Keys, NEW v \in Mapped
  PROVE  SameKind(HlAssigned(tb, k, v), tb)
<1>1. tb.filled \in Nat /\ MostBuckets \in Nat /\ HlSound(tb)
  BY GoodFacts, Capacities
<1>2. 8 * (tb.filled + 1) <= MostBuckets
  BY <1>1 DEF HlSmall
<1>3. HasKey(tb, k) => \E x \in HlHeld(tb) : x[1] = k /\ Replaces(HlAssigned(tb, k, v), tb, x, <<k, v>>)
  BY <1>1, <1>2, AssignedFacts
<1>4. ~ HasKey(tb, k) => HlAssigned(tb, k, v) = HlEmplaced(tb, k, v).tb
  BY <1>1, <1>2, AssignedFacts
<1>5. SameKind(HlEmplaced(tb, k, v).tb, tb)
  BY HlEmplaceKind
<1> QED
  BY <1>3, <1>4, <1>5 DEF Replaces, SameKind, HlGood

(* So does erasing a key, ...                                              *)
LEMMA HlEraseKind ==
  ASSUME HlAssumption, NEW tb, HlGood(tb), tb.n > 0, NEW k \in Keys
  PROVE  SameKind(HlErased(tb, k), tb)
<1>1. HlSound(tb)
  BY GoodFacts
<1>2. /\ ~ HasKey(tb, k) => HlErased(tb, k) = tb
      /\ HasKey(tb, k) => \E x \in HlHeld(tb) : x[1] = k /\ Loses(HlErased(tb, k), tb, x)
  BY <1>1, ErasedFacts
<1> QED
  BY <1>2 DEF Loses, SameKind, HlGood

(* ... and erasing the element of a bucket, which takes that element and   *)
(* no other.                                                               *)
LEMMA HlEraseAtKind ==
  ASSUME HlAssumption, NEW tb, HlGood(tb), NEW i \in HlOccupied(tb)
  PROVE  SameKind(HlErasedAt(tb, i), tb) /\ Loses(HlErasedAt(tb, i), tb, tb.vals[i])
<1>1. HlSound(tb)
  <2>1. i \in 0 .. tb.n - 1 /\ tb.n \in Nat
    BY GoodFacts
  <2> QED
    BY <2>1, GoodFacts
<1>2. Loses(HlErasedAt(tb, i), tb, tb.vals[i])
  BY <1>1, ErasedAtFacts
<1> QED
  BY <1>2 DEF Loses, SameKind, HlGood

(* rehash() and reserve() keep every element, ...                          *)
LEMMA HlRehashKind ==
  ASSUME HlAssumption, NEW tb, HlGood(tb), NEW n \in Counts
  PROVE  /\ SameKind(HlRehashed(tb, n), tb) /\ KeepsElements(HlRehashed(tb, n), tb)
         /\ SameKind(HlReserved(tb, n), tb)
         /\ HlReserved(tb, n) = tb \/ KeepsElements(HlReserved(tb, n), tb)
<1>1. n \in Nat /\ 2 * n <= MostBuckets /\ MostBuckets \in Nat
  BY Capacities DEF HlAssumption
<1>2. KeepsElements(HlRehashed(tb, n), tb)
  BY <1>1, RehashedFacts
<1>3. HlReserved(tb, n) = tb \/ KeepsElements(HlReserved(tb, n), tb)
  BY <1>1, ReservedFacts
<1> QED
  BY <1>2, <1>3 DEF KeepsElements, SameKind, HlGood

(* ... insert() of a range adds at most as many as the range has, ...      *)
LEMMA HlInsertKind ==
  ASSUME HlAssumption, NEW tb, HlGood(tb), HlSmall(tb), NEW s \in FirstLists \cup HlLists
  PROVE  /\ SameKind(HlInsertedRange(tb, s), tb)
         /\ Includes(HlInsertedRange(tb, s), tb, Len(s))
<1>1. tb.filled \in Nat /\ MostBuckets \in Nat
  BY GoodFacts, Capacities
<1>2. s \in Seq(HlElements) /\ 16 * (Len(s) + 1) <= MostBuckets /\ Len(s) \in Nat
  BY DEF HlAssumption
<1>3. 8 * (tb.filled + Len(s) + 1) <= MostBuckets
  BY <1>1, <1>2 DEF HlSmall
<1>4. Includes(HlInsertedRange(tb, s), tb, Len(s))
  BY <1>2, <1>3, InsertedRangeFacts
<1> QED
  BY <1>4 DEF Includes, SameKind

(* ... a constructed table is small and of the group size asked for, ...   *)
LEMMA HlConstructKind ==
  ASSUME HlAssumption, NEW g \in HlGroups, NEW s \in FirstLists \cup HlLists
  PROVE  /\ HlGood(HlConstructed(g, s)) /\ HlConstructed(g, s).g = g
         /\ HlSmall(HlConstructed(g, s))
<1>1. s \in Seq(HlElements) /\ 16 * (Len(s) + 1) <= MostBuckets /\ Len(s) \in Nat
  BY DEF HlAssumption
<1>2. /\ HlGood(HlConstructed(g, s)) /\ HlConstructed(g, s).g = g
      /\ HlConstructed(g, s).filled <= Len(s)
  BY <1>1, ConstructedFacts
<1> DEFINE f == HlConstructed(g, s).filled
<1>3. f \in Nat /\ MostBuckets \in Nat
  BY <1>2, GoodFacts, Capacities
<1> HIDE DEF f
<1>4. f <= Len(s)
  BY <1>2 DEF f
<1>5. 16 * (f + 1) <= MostBuckets
  BY <1>1, <1>3, <1>4
<1> QED
  BY <1>2, <1>5 DEF HlSmall, f

(* ... a moved-from table is one without buckets, ...                      *)
LEMMA HlNoneKind ==
  ASSUME HlAssumption, NEW g \in HlGroups
  PROVE  HlGood(HlNoTable(g)) /\ HlNoTable(g).g = g /\ HlNoTable(g).n = 0 /\ HlSmall(HlNoTable(g))
<1> DEFINE u == HlNoTable(g)
<1>1. u.g = g /\ u.n = 0 /\ u.filled = 0 /\ u = HlNoTable(g)
  BY DEF HlNoTable
<1> HIDE DEF u
<1>2. HlGood(u)
  BY <1>1 DEF HlGood
<1>3. 16 <= MostBuckets
  BY Capacities DEF HlAssumption
<1> QED
  BY <1>1, <1>2, <1>3 DEF u, HlSmall

(* ... clear() leaves no element, ...                                      *)
LEMMA HlClearKind ==
  ASSUME HlAssumption, NEW tb, HlGood(tb), tb.n > 0
  PROVE  SameKind(HlCleared(tb), tb) /\ HlHeld(HlCleared(tb)) = {}
<1>1. HlSound(tb)
  BY GoodFacts
<1>2. tb.n \in BucketCounts /\ tb.g \in HlGroups
  BY <1>1 DEF HlSound, Tidy
<1> QED
  BY <1>2, EmptyTableFacts DEF HlCleared, SameKind, HlGood

(* ... and merge() leaves two tables of their kinds, the other one no      *)
(* larger.                                                                 *)
LEMMA HlMergeKind ==
  ASSUME HlAssumption, NEW to, HlGood(to), to.n > 0, HlSmall(to), NEW from, HlGood(from), HlSmall(from)
  PROVE  /\ Merging(HlMerged(to, from), to, from)
         /\ SameKind(HlMerged(to, from).to, to) /\ SameKind(HlMerged(to, from).from, from)
         /\ HlSmall(HlMerged(to, from).from)
<1> DEFINE b == HlMerged(to, from)
<1>1. HlSound(to) /\ to.filled \in Nat /\ from.filled \in Nat /\ MostBuckets \in Nat
  BY GoodFacts, Capacities
<1>2. 8 * (to.filled + from.filled + 1) <= MostBuckets
  BY <1>1 DEF HlSmall
<1>3. Merging(b, to, from)
  BY <1>1, <1>2, MergedFacts
<1> HIDE DEF b
<1>4. HlGood(b.to) /\ HlGood(b.from) /\ b.to.g = to.g /\ b.from.g = from.g
  BY <1>3 DEF Merging, HlGood
<1>5. b.from.filled <= from.filled /\ b.from.filled \in Nat
  BY <1>3, <1>4, GoodFacts DEF Merging
<1> QED
  BY <1>1, <1>3, <1>4, <1>5 DEF SameKind, HlSmall, b

(* A call on one table: the client bounds what it leaves.                  *)
LEMMA HlBecomesGood ==
  ASSUME HlAssumption, HlInv, NEW u, SameKind(u, hl), HlBecomes(u)
  PROVE  HlInv'
<1>1. hl' = u /\ hl_other' = hl_other /\ u.filled <= MaxElements
  BY DEF HlBecomes, HlFits
<1>2. u.filled \in Nat /\ MostBuckets \in Nat
  BY GoodFacts, Capacities DEF SameKind
<1>3. HlSmall(u)
  BY <1>1, <1>2 DEF HlSmall, HlAssumption
<1>4. HlGood(u) /\ u.g = hl_other.g /\ HlGood(hl_other) /\ HlSmall(hl_other)
  BY DEF SameKind, HlInv
<1> QED
  BY <1>1, <1>3, <1>4 DEF HlInv

(* The tables a client starts with are good ones.                          *)
LEMMA HlInvInit ==
  ASSUME HlAssumption, HlInit
  PROVE  HlInv
<1>1. PICK g \in GroupSizes :
        hl \in {HlConstructed(g, s) : s \in FirstLists} /\ hl_other = HlNoTable(g)
  BY DEF HlInit
<1>2. PICK s \in FirstLists : hl = HlConstructed(g, s)
  BY <1>1
<1>3. g \in HlGroups
  BY DEF HlAssumption
<1>4. HlGood(hl) /\ hl.g = g /\ HlSmall(hl)
  BY <1>2, <1>3, HlConstructKind
<1>5. HlGood(hl_other) /\ hl_other.g = g /\ HlSmall(hl_other)
  BY <1>1, <1>3, HlNoneKind
<1> QED
  BY <1>4, <1>5 DEF HlInv

(* Every call keeps them so.                                               *)
LEMMA HlInvStep ==
  ASSUME HlAssumption, HlInv, [HlNext]_hl_vars
  PROVE  HlInv'
<1>0. HlGood(hl) /\ HlGood(hl_other) /\ hl.g = hl_other.g /\ HlSmall(hl) /\ HlSmall(hl_other)
  BY DEF HlInv
<1>1. hl.g \in HlGroups /\ hl.n \in Nat /\ hl_other.n \in Nat
  BY <1>0, GoodFacts
<1>2. /\ HlGood(HlNoTable(hl.g)) /\ HlNoTable(hl.g).g = hl.g /\ HlSmall(HlNoTable(hl.g))
  BY <1>1, HlNoneKind
<1>3. ASSUME NEW k \in Keys, NEW v \in Mapped, HlEmplace(k, v) PROVE HlInv'
  <2>1. SameKind(HlEmplaced(hl, k, v).tb, hl)
    BY <1>0, HlEmplaceKind
  <2> QED
    BY <1>3, <2>1, HlBecomesGood DEF HlEmplace
<1>4. ASSUME NEW k \in Keys, NEW v \in Mapped, HlInsertOrAssign(k, v) PROVE HlInv'
  <2>1. SameKind(HlAssigned(hl, k, v), hl)
    BY <1>0, <1>4, HlAssignKind DEF HlInsertOrAssign
  <2> QED
    BY <1>4, <2>1, HlBecomesGood DEF HlInsertOrAssign
<1>5. ASSUME NEW s \in HlLists, HlInsertRange(s) PROVE HlInv'
  <2>1. SameKind(HlInsertedRange(hl, s), hl)
    BY <1>0, HlInsertKind
  <2> QED
    BY <1>5, <2>1, HlBecomesGood DEF HlInsertRange
<1>6. ASSUME NEW k \in Keys, HlEraseKey(k) PROVE HlInv'
  <2>1. SameKind(HlErased(hl, k), hl)
    BY <1>0, <1>6, HlEraseKind DEF HlEraseKey
  <2> QED
    BY <1>6, <2>1, HlBecomesGood DEF HlEraseKey
<1>7. ASSUME NEW i \in HlOccupied(hl), HlEraseAt(i) PROVE HlInv'
  <2>1. SameKind(HlErasedAt(hl, i), hl)
    BY <1>0, HlEraseAtKind
  <2> QED
    BY <1>7, <2>1, HlBecomesGood DEF HlEraseAt
<1>8. ASSUME HlClear PROVE HlInv'
  <2>1. SameKind(HlCleared(hl), hl)
    BY <1>0, <1>8, HlClearKind DEF HlClear
  <2> QED
    BY <1>8, <2>1, HlBecomesGood DEF HlClear
<1>9. ASSUME NEW n \in Counts, HlRehash(n) PROVE HlInv'
  <2>1. SameKind(HlRehashed(hl, n), hl)
    BY <1>0, HlRehashKind
  <2> QED
    BY <1>9, <2>1, HlBecomesGood DEF HlRehash
<1>10. ASSUME NEW n \in Counts, HlReserve(n) PROVE HlInv'
  <2>1. SameKind(HlReserved(hl, n), hl)
    BY <1>0, HlRehashKind
  <2> QED
    BY <1>10, <2>1, HlBecomesGood DEF HlReserve
<1>11. ASSUME NEW s \in HlLists, HlConstruct(s) PROVE HlInv'
  <2>1. /\ HlGood(HlConstructed(hl.g, s)) /\ HlConstructed(hl.g, s).g = hl.g
        /\ HlSmall(HlConstructed(hl.g, s))
    BY <1>1, HlConstructKind
  <2> QED
    BY <1>0, <1>11, <2>1 DEF HlConstruct, HlInv
<1>12. ASSUME HlCopyConstruct PROVE HlInv'
  BY <1>0, <1>12 DEF HlCopyConstruct, HlInv
<1>13. ASSUME HlMoveConstruct PROVE HlInv'
  BY <1>0, <1>2, <1>13 DEF HlMoveConstruct, HlInv
<1>14. ASSUME HlCopyAssign PROVE HlInv'
  BY <1>0, <1>14 DEF HlCopyAssign, HlInv
<1>15. ASSUME HlMoveAssign PROVE HlInv'
  BY <1>0, <1>2, <1>15 DEF HlMoveAssign, HlInv
<1>16. ASSUME HlSwap PROVE HlInv'
  BY <1>0, <1>16 DEF HlSwap, HlInv
<1>17. ASSUME HlMerge PROVE HlInv'
  <2> DEFINE b == HlMerged(hl, hl_other)
  <2>1. hl.n > 0 /\ b.to.filled <= MaxElements /\ hl' = b.to /\ hl_other' = b.from
    BY <1>17 DEF HlMerge, HlFits
  <2>2. SameKind(b.to, hl) /\ SameKind(b.from, hl_other) /\ HlSmall(b.from)
    BY <1>0, <2>1, HlMergeKind
  <2> HIDE DEF b
  <2>3. b.to.filled \in Nat /\ MostBuckets \in Nat
    BY <2>2, GoodFacts, Capacities DEF SameKind
  <2>4. HlSmall(b.to)
    BY <2>1, <2>3 DEF HlSmall, HlAssumption
  <2> QED
    BY <1>0, <2>1, <2>2, <2>4 DEF SameKind, HlInv
<1>18. ASSUME HlDestroy PROVE HlInv'
  BY <1>0, <1>2, <1>18 DEF HlDestroy, HlInv
<1>19. ASSUME UNCHANGED hl_vars PROVE HlInv'
  <2>1. hl' = hl /\ hl_other' = hl_other
    BY <1>19 DEF hl_vars
  <2> QED
    BY <1>0, <2>1 DEF HlInv
<1> QED
  BY <1>3, <1>4, <1>5, <1>6, <1>7, <1>8, <1>9, <1>10, <1>11, <1>12, <1>13, <1>14, <1>15, <1>16, <1>17, <1>18, <1>19
     DEF HlNext

(* The probes of the client's tables are unbroken.                         *)
LEMMA HlInvUnbroken ==
  ASSUME HlAssumption, HlInv
  PROVE  HlProbesUnbroken
<1>1. ASSUME NEW tb, HlGood(tb) PROVE ProbesUnbroken(tb)
  <2>1. CASE HlSound(tb)
    BY <2>1, SoundUnbroken
  <2>2. CASE tb = HlNoTable(tb.g)
    <3> DEFINE g == tb.g
    <3>1. ProbesUnbroken(HlNoTable(g))
      BY NoneUnbroken
    <3> HIDE DEF g
    <3>2. tb = HlNoTable(g)
      BY <2>2 DEF g
    <3> QED
      BY <3>1, <3>2
  <2> QED
    BY <1>1, <2>1, <2>2 DEF HlGood
<1> QED
  BY <1>1 DEF HlInv, HlProbesUnbroken

-----------------------------------------------------------------------------
(* The maps that tables hold.                                              *)

(* A table holds the map of its elements.                                  *)
LEMMA ContentFacts ==
  ASSUME HlAssumption, NEW tb, HlGood(tb)
  PROVE  /\ Maps(HlContent(tb), HlHeld(tb)) /\ Keyed(HlHeld(tb)) /\ HlHeld(tb) \subseteq HlElements
         /\ DOMAIN HlContent(tb) = KeysOf(HlHeld(tb))
         /\ \A k : HasKey(tb, k) <=> k \in KeysOf(HlHeld(tb))
<1>1. KeyedOnce(tb) /\ \A i \in HlOccupied(tb) : tb.vals[i] \in HlElements
  BY GoodFacts
<1>2. Keyed(HlHeld(tb)) /\ HlHeld(tb) \subseteq HlElements
  BY <1>1 DEF Keyed, HlHeld, KeyedOnce
<1>3. \A k : HasKey(tb, k) <=> k \in KeysOf(HlHeld(tb))
  BY DEF HasKey, KeysOf
<1>4. KeysOf(HlHeld(tb)) = {tb.vals[i][1] : i \in HlOccupied(tb)}
  BY DEF KeysOf, HlHeld
<1> DEFINE m == HlContent(tb)
           V(k) == tb.vals[CHOOSE i \in HlOccupied(tb) : tb.vals[i][1] = k][2]
<1>5. m = [k \in KeysOf(HlHeld(tb)) |-> V(k)]
  BY <1>4 DEF HlContent
<1>6. ASSUME NEW i \in HlOccupied(tb) PROVE V(tb.vals[i][1]) = tb.vals[i][2]
  <2> DEFINE j == CHOOSE j \in HlOccupied(tb) : tb.vals[j][1] = tb.vals[i][1]
  <2>1. j \in HlOccupied(tb) /\ tb.vals[j][1] = tb.vals[i][1]
    OBVIOUS
  <2> HIDE DEF j
  <2>2. j = i
    BY <1>1, <2>1 DEF KeyedOnce
  <2> QED
    BY <2>2 DEF j
<1> HIDE DEF V, m
<1>7. Maps(m, HlHeld(tb))
  <2>1. ASSUME NEW x \in HlHeld(tb) PROVE m[x[1]] = x[2]
    <3>1. PICK i \in HlOccupied(tb) : x = tb.vals[i]
      BY DEF HlHeld
    <3>2. x[1] \in KeysOf(HlHeld(tb))
      BY DEF KeysOf
    <3> QED
      BY <1>5, <1>6, <3>1, <3>2
  <2>2. m = [k \in KeysOf(HlHeld(tb)) |-> m[k]]
    BY <1>5
  <2> QED
    BY <2>1, <2>2 DEF Maps
<1>8. DOMAIN m = KeysOf(HlHeld(tb))
  BY <1>5
<1> QED
  BY <1>2, <1>3, <1>7, <1>8 DEF m

(* A map that holds just the elements of a table is its content.           *)
LEMMA ContentIs ==
  ASSUME HlAssumption, NEW u, HlGood(u), NEW w, Maps(w, HlHeld(u))
  PROVE  HlContent(u) = w
<1>1. Maps(HlContent(u), HlHeld(u))
  BY ContentFacts
<1> QED
  BY <1>1, MapsUnique

(* A table of the same elements holds the same map.                        *)
LEMMA SameContent ==
  ASSUME HlAssumption, NEW tb, HlGood(tb), NEW u, HlGood(u), HlHeld(u) = HlHeld(tb)
  PROVE  HlContent(u) = HlContent(tb)
<1>1. Maps(HlContent(tb), HlHeld(u))
  BY ContentFacts
<1> QED
  BY <1>1, ContentIs

(* An element is gone.                                                     *)
LEMMA LostContent ==
  ASSUME HlAssumption, NEW tb, HlGood(tb), NEW x \in HlHeld(tb), NEW u, Loses(u, tb, x)
  PROVE  HlContent(u) = Without(HlContent(tb), {x[1]})
<1> DEFINE H == HlHeld(tb)
           G == H \ {x}
           m == HlContent(tb)
           k == x[1]
<1>1. Maps(m, H) /\ Keyed(H) /\ DOMAIN m = KeysOf(H)
  BY ContentFacts
<1>2. HlGood(u) /\ HlHeld(u) = G
  BY DEF Loses, HlGood
<1> HIDE DEF H, m
<1>3. KeysOf({x}) = {k}
  BY DEF KeysOf
<1>4. {x} \subseteq H
  BY DEF H
<1>5. KeysOf(G) = KeysOf(H) \ {k}
  BY <1>1, <1>3, <1>4, KeysSome
<1>6. Maps(Restrict(m, KeysOf(G)), G)
  BY <1>1, MapsSome
<1>7. HlContent(u) = Restrict(m, KeysOf(G))
  BY <1>2, <1>6, ContentIs
<1> QED
  BY <1>1, <1>5, <1>7 DEF Without, m

(* emplace() changes the map as it should, ...                             *)
LEMMA EmplacedContent ==
  ASSUME HlAssumption, NEW tb, HlGood(tb), HlSmall(tb), NEW k \in Keys, NEW v \in Mapped
  PROVE  /\ HlContent(HlEmplaced(tb, k, v).tb) = PutIfAbsent(HlContent(tb), k, v)
         /\ HlEmplaced(tb, k, v).inserted <=> k \notin DOMAIN HlContent(tb)
         /\ HlEmplaced(tb, k, v).tb.vals[HlEmplaced(tb, k, v).pos][1] = k
<1> DEFINE p == HlEmplaced(tb, k, v)
           u == p.tb
           H == HlHeld(tb)
           m == HlContent(tb)
<1>1. Emplacement(p, tb, k, v)
  BY HlEmplaceKind
<1> HIDE DEF p
<1>2. /\ Maps(m, H) /\ Keyed(H) /\ H \subseteq HlElements /\ DOMAIN m = KeysOf(H)
      /\ HasKey(tb, k) <=> k \in KeysOf(H)
  BY ContentFacts
<1>3. HlGood(u)
  BY <1>1 DEF Emplacement, HlGood
<1>4. CASE k \in DOMAIN m
  <2>1. HlHeld(u) = H
    BY <1>1, <1>2, <1>4 DEF Emplacement
  <2>2. HlContent(u) = m
    BY <1>3, <2>1, SameContent
  <2> QED
    BY <1>1, <1>2, <1>4, <2>2 DEF Emplacement, PutIfAbsent, p
<1>5. CASE k \notin DOMAIN m
  <2>1. HlHeld(u) = H \cup {<<k, v>>}
    BY <1>1, <1>2, <1>5 DEF Emplacement
  <2>2. HlContent(u) = Put(m, k, v)
    <3>1. Maps(Put(m, k, v), HlHeld(u))
      BY <1>2, <1>5, <2>1, MapsAdded
    <3> QED
      BY <1>3, <3>1, ContentIs
  <2>3. Put(m, k, v) = PutIfAbsent(m, k, v)
    BY <1>5 DEF Put, PutIfAbsent
  <2> QED
    BY <1>1, <1>2, <1>5, <2>2, <2>3 DEF Emplacement, p
<1> QED
  BY <1>4, <1>5

(* ... insert_or_assign() does, ...                                        *)
LEMMA AssignedContent ==
  ASSUME HlAssumption, NEW tb, HlGood(tb), tb.n > 0, HlSmall(tb), NEW k \in Keys, NEW v \in Mapped
  PROVE  HlContent(HlAssigned(tb, k, v)) = Put(HlContent(tb), k, v)
<1> DEFINE u == HlAssigned(tb, k, v)
           H == HlHeld(tb)
           m == HlContent(tb)
<1>1. HlSound(tb) /\ tb.filled \in Nat /\ MostBuckets \in Nat
  BY GoodFacts, Capacities
<1>2. 8 * (tb.filled + 1) <= MostBuckets
  BY <1>1 DEF HlSmall
<1>3. /\ Maps(m, H) /\ Keyed(H) /\ H \subseteq HlElements /\ DOMAIN m = KeysOf(H)
      /\ HasKey(tb, k) <=> k \in KeysOf(H)
  BY ContentFacts
<1>4. HlGood(u)
  BY HlAssignKind DEF SameKind
<1>5. CASE HasKey(tb, k)
  <2>1. PICK x \in H : x[1] = k /\ Replaces(u, tb, x, <<k, v>>)
    BY <1>1, <1>2, <1>5, AssignedFacts
  <2>2. HlHeld(u) = (H \ {x}) \cup {<<x[1], v>>}
    BY <2>1 DEF Replaces
  <2>3. Maps(Put(m, x[1], v), HlHeld(u))
    BY <1>3, <2>2, MapsReplaced
  <2> HIDE DEF u, m
  <2> QED
    BY <1>4, <2>1, <2>3, ContentIs DEF u, m
<1>6. CASE ~ HasKey(tb, k)
  <2>1. u = HlEmplaced(tb, k, v).tb
    BY <1>1, <1>2, <1>6, AssignedFacts
  <2>2. HlContent(u) = PutIfAbsent(m, k, v)
    BY <2>1, EmplacedContent
  <2>3. PutIfAbsent(m, k, v) = Put(m, k, v)
    BY <1>3, <1>6 DEF Put, PutIfAbsent
  <2> QED
    BY <2>2, <2>3
<1> QED
  BY <1>5, <1>6

(* ... and erase() of a key.                                               *)
LEMMA ErasedContent ==
  ASSUME HlAssumption, NEW tb, HlGood(tb), tb.n > 0, NEW k \in Keys
  PROVE  HlContent(HlErased(tb, k)) = Without(HlContent(tb), {k})
<1> DEFINE u == HlErased(tb, k)
           H == HlHeld(tb)
           m == HlContent(tb)
<1>1. HlSound(tb)
  BY GoodFacts
<1>2. /\ Maps(m, H) /\ Keyed(H) /\ DOMAIN m = KeysOf(H) /\ (HasKey(tb, k) <=> k \in KeysOf(H))
  BY ContentFacts
<1>3. CASE HasKey(tb, k)
  <2>1. PICK x \in H : x[1] = k /\ Loses(u, tb, x)
    BY <1>1, <1>3, ErasedFacts
  <2> QED
    BY <2>1, LostContent
<1>4. CASE ~ HasKey(tb, k)
  <2>1. u = tb
    BY <1>1, <1>4, ErasedFacts
  <2>2. KeysOf(H) = DOMAIN m \ {k}
    BY <1>2, <1>4
  <2>3. Maps(Restrict(m, KeysOf(H)), H)
    BY <1>2, MapsSome
  <2>4. Restrict(m, KeysOf(H)) = m
    BY <1>2, <2>3, MapsUnique
  <2> HIDE DEF u, m, H
  <2> QED
    BY <2>1, <2>2, <2>4 DEF Without, u, m
<1> QED
  BY <1>3, <1>4

(* A loop over a table of at least one block visits every element.         *)
LEMMA VisitedFacts ==
  ASSUME HlAssumption, NEW tb, HlSound(tb), tb.n >= ScanBlock
  PROVE  Visited(tb) = HlOccupied(tb)
<1> DEFINE n == tb.n
           B == ScanBlock
<1>1. n \in BucketCounts /\ B \in HlGroups /\ Tidy(tb)
  BY DEF HlSound, Tidy, HlAssumption
<1>2. n \in Nat /\ B \in Nat /\ B > 0 /\ n >= 8 /\ n >= B /\ DOMAIN tb.vals = 0 .. n - 1
  <2>1. n \in Nat /\ n >= 8 /\ DOMAIN tb.vals = 0 .. n - 1
    BY <1>1, TidyFacts
  <2>2. B \in Nat \ {0}
    BY <1>1, PowersFacts DEF HlGroups
  <2> QED
    BY <2>1, <2>2
<1>3. PICK q \in Nat : n = B * q
  <2>1. PICK a \in 3 .. 30 : n = Powers[a]
    BY <1>1 DEF BucketCounts
  <2>2. PICK b \in 0 .. 30 : B = Powers[b]
    BY <1>1 DEF HlGroups
  <2>3. a \in 0 .. 30
    OBVIOUS
  <2>4. CASE b <= a
    BY <2>1, <2>2, <2>3, <2>4, PowersMultiple
  <2>5. CASE a < b
    <3>1. PICK c \in Nat \ {0} : B = 2 * (n * c)
      BY <2>1, <2>2, <2>3, <2>5, PowersTwice
    <3> DEFINE z == n * c
    <3>2. z >= n /\ z \in Nat
      BY <1>2
    <3> HIDE DEF z
    <3>3. B = 2 * z
      BY <3>1 DEF z
    <3> QED
      BY <1>2, <3>2, <3>3
  <2> QED
    BY <2>3, <2>4, <2>5
<1> HIDE DEF n, B
<1>4. ASSUME NEW i \in 0 .. n - 1 PROVE i - (i % B) + B <= n
  <2> DEFINE p == i \div B
             r == i % B
  <2>1. p \in Nat /\ r \in 0 .. B - 1 /\ i = B * p + r
    BY <1>2
  <2> HIDE DEF p, r
  <2>2. p < q
    <3> SUFFICES ASSUME p >= q PROVE FALSE
      BY <1>3, <2>1
    <3>1. B * p >= B * q
      BY <1>2, <1>3, <2>1
    <3> DEFINE bp == B * p
               bq == B * q
    <3>2. bp \in Nat /\ bq \in Nat
      BY <1>2, <1>3, <2>1
    <3> HIDE DEF bp, bq
    <3>3. bp >= bq /\ i = bp + r /\ n = bq
      BY <1>3, <2>1, <3>1 DEF bp, bq
    <3> QED
      BY <1>2, <2>1, <3>2, <3>3
  <2>3. B * (p + 1) <= B * q
    BY <1>2, <1>3, <2>1, <2>2
  <2>4. i - r + B = B * (p + 1)
    BY <1>2, <2>1
  <2> QED
    BY <1>3, <2>3, <2>4 DEF r
<1>5. \A i \in 0 .. n - 1 : Seen(tb, i) <=> tb.ctrl[i] # Empty
  <2>1. \A i \in 0 .. n - 1 : InWholeBlock(tb, i)
    BY <1>4 DEF InWholeBlock, n, B
  <2> QED
    BY <2>1 DEF Seen
<1>6. HlOccupied(tb) = {j \in 0 .. n - 1 : Seen(tb, j)}
  BY <1>2, <1>5 DEF HlOccupied, n
<1> DEFINE begin == CtrlSkipToValid(tb, 0)
<1>7. begin = IF HlOccupied(tb) = {} THEN n ELSE FirstOf(HlOccupied(tb))
  <2> DEFINE aligned == IF 0 % B = 0 THEN 0 ELSE 0 - (0 % B) + B
             seen == {j \in 0 .. n - 1 : IF j < aligned THEN tb.ctrl[j] = "low" ELSE Seen(tb, j)}
  <2>1. aligned = 0
    BY <1>2
  <2> HIDE DEF aligned
  <2>2. seen = HlOccupied(tb)
    BY <1>2, <1>6, <2>1
  <2>3. begin = IF seen = {} THEN tb.n ELSE FirstOf(seen)
    BY DEF CtrlSkipToValid, aligned, n, B
  <2> HIDE DEF seen, begin
  <2> QED
    BY <2>2, <2>3 DEF n
<1>8. Visited(tb) = {j \in 0 .. n - 1 : j = begin \/ (j > begin /\ Seen(tb, j))}
  BY DEF Visited, n
<1> HIDE DEF begin
<1>9. CASE HlOccupied(tb) = {}
  BY <1>2, <1>6, <1>7, <1>8, <1>9
<1>10. CASE HlOccupied(tb) # {}
  <2>1. HlOccupied(tb) \subseteq Nat
    BY <1>2, <1>6
  <2>2. begin \in HlOccupied(tb) /\ \A j \in HlOccupied(tb) : begin <= j
    BY <1>7, <1>10, <2>1, FirstOne
  <2>3. \A j \in 0 .. n - 1 : (j = begin \/ (j > begin /\ Seen(tb, j))) <=> Seen(tb, j)
    BY <1>2, <1>6, <2>2
  <2> QED
    BY <1>6, <1>8, <2>3
<1> QED
  BY <1>9, <1>10

(* The calls on the client's table agree with those on its map.            *)
LEMMA HlInvAgree ==
  ASSUME HlAssumption, HlInv
  PROVE  HlCallsAgree
<1> DEFINE m == HlContent(hl)
<1>0. HlGood(hl) /\ HlSmall(hl)
  BY DEF HlInv
<1>1. ASSUME hl.n > 0, NEW k \in Keys
      PROVE  /\ HlBucket(hl, k) # hl.n <=> k \in DOMAIN m
             /\ HlContent(HlErased(hl, k)) = Without(m, {k})
             /\ \A v \in Mapped : HlContent(HlAssigned(hl, k, v)) = Put(m, k, v)
  <2>1. HlSound(hl)
    BY <1>0, <1>1, GoodFacts
  <2>2. /\ HasKey(hl, k) => HlBucket(hl, k) \in HlOccupied(hl)
        /\ ~ HasKey(hl, k) => HlBucket(hl, k) = hl.n
    BY <2>1, BucketFacts
  <2>3. hl.n \notin HlOccupied(hl)
    BY <1>0, GoodFacts
  <2>4. HasKey(hl, k) <=> k \in DOMAIN m
    BY <1>0, ContentFacts
  <2>5. HlContent(HlErased(hl, k)) = Without(m, {k})
    BY <1>0, <1>1, ErasedContent
  <2>6. \A v \in Mapped : HlContent(HlAssigned(hl, k, v)) = Put(m, k, v)
    BY <1>0, <1>1, AssignedContent
  <2> QED
    BY <2>2, <2>3, <2>4, <2>5, <2>6
<1>2. ASSUME NEW k \in Keys, NEW v \in Mapped
      PROVE  \E put \in {HlEmplaced(hl, k, v)} :
                /\ HlContent(put.tb) = PutIfAbsent(m, k, v)
                /\ put.inserted <=> k \notin DOMAIN m
                /\ put.tb.vals[put.pos][1] = k
  BY <1>0, EmplacedContent
<1>3. ASSUME NEW i \in HlOccupied(hl) PROVE HlContent(HlErasedAt(hl, i)) = Without(m, {hl.vals[i][1]})
  <2> DEFINE x == hl.vals[i]
  <2>1. Loses(HlErasedAt(hl, i), hl, x) /\ x \in HlHeld(hl)
    BY <1>0, HlEraseAtKind DEF HlHeld
  <2> HIDE DEF x
  <2>2. HlContent(HlErasedAt(hl, i)) = Without(HlContent(hl), {x[1]})
    BY <1>0, <2>1, LostContent
  <2> QED
    BY <2>2 DEF x
<1>4. ASSUME NEW n \in Counts PROVE HlContent(HlRehashed(hl, n)) = m
  <2>1. HlGood(HlRehashed(hl, n)) /\ HlHeld(HlRehashed(hl, n)) = HlHeld(hl)
    BY <1>0, HlRehashKind DEF SameKind, KeepsElements
  <2> QED
    BY <1>0, <2>1, SameContent
<1>5. hl.n >= ScanBlock => Visited(hl) = HlOccupied(hl)
  <2> SUFFICES ASSUME hl.n >= ScanBlock PROVE Visited(hl) = HlOccupied(hl)
    OBVIOUS
  <2>1. hl.n > 0
    <3>1. ScanBlock \in Nat \ {0} /\ hl.n \in Nat
      BY <1>0, GoodFacts, PowersFacts DEF HlAssumption, HlGroups
    <3> QED
      BY <3>1
  <2>2. HlSound(hl)
    BY <1>0, <2>1, GoodFacts
  <2> QED
    BY <2>2, VisitedFacts
<1> HIDE DEF m
<1> QED
  BY <1>1, <1>2, <1>3, <1>4, <1>5 DEF HlCallsAgree, m

(* The contents of two merged tables, from what became of their elements.  *)
LEMMA MergedContent ==
  ASSUME HlAssumption, NEW to, HlGood(to), NEW from, HlGood(from),
         NEW b, Merging(b, to, from)
  PROVE  MergedMaps(HlContent(to), HlContent(from), HlContent(b.to), HlContent(b.from))
<1> DEFINE H == HlHeld(to)
           G == HlHeld(from)
           F == HlHeld(b.from)
<1>1. HlGood(b.to) /\ HlGood(b.from)
  BY DEF Merging, HlGood
<1>2. Maps(HlContent(to), H) /\ Maps(HlContent(from), G) /\ Keyed(G)
  BY ContentFacts
<1>3. Maps(HlContent(b.to), HlHeld(b.to)) /\ Maps(HlContent(b.from), F)
  BY <1>1, ContentFacts
<1>4. F \subseteq G /\ HlHeld(b.to) = H \cup (G \ F)
  BY DEF Merging
<1>5. \A x \in G \ F : x[1] \notin KeysOf(H)
  <2>1. \A x \in G \ F : ~ HasKey(to, x[1])
    BY DEF Merging
  <2> QED
    BY <2>1 DEF KeysOf, HasKey
<1> HIDE DEF H, G, F
<1> QED
  BY <1>2, <1>3, <1>4, <1>5, MapsOfMerged

(* A merge loses nothing.                                                  *)
LEMMA HlInvMerge ==
  ASSUME HlAssumption, HlInv
  PROVE  HlMergeLosesNothing
<1> SUFFICES ASSUME hl.n > 0
             PROVE  \E both \in {HlMerged(hl, hl_other)} :
                      NothingLost(HlContent(hl), HlContent(hl_other), HlContent(both.to), HlContent(both.from))
  BY DEF HlMergeLosesNothing
<1> DEFINE b == HlMerged(hl, hl_other)
<1>1. HlGood(hl) /\ HlGood(hl_other) /\ HlSmall(hl) /\ HlSmall(hl_other)
  BY DEF HlInv
<1>2. Merging(b, hl, hl_other)
  BY <1>1, HlMergeKind
<1>3. MergedMaps(HlContent(hl), HlContent(hl_other), HlContent(b.to), HlContent(b.from))
  BY <1>1, <1>2, MergedContent
<1> HIDE DEF b
<1>4. NothingLost(HlContent(hl), HlContent(hl_other), HlContent(b.to), HlContent(b.from))
  BY <1>3 DEF MergedMaps, NothingLost
<1> QED
  BY <1>4 DEF b

-----------------------------------------------------------------------------
(* The tables implement maps.                                              *)

(* A table with fewer elements holds what is left of the map, ...          *)
LEMMA RemovedMaps ==
  ASSUME HlAssumption, NEW tb, HlGood(tb), NEW u, HlGood(u), HlHeld(u) \subseteq HlHeld(tb)
  PROVE  RemoveStep(HlContent(tb), HlContent(u))
  BY ContentFacts, MapsRemoved

(* ... and one with more the map and what has come to it.                  *)
LEMMA FilledMaps ==
  ASSUME HlAssumption, NEW tb, HlGood(tb), NEW u, HlGood(u), HlHeld(tb) \subseteq HlHeld(u)
  PROVE  FillStep(HlContent(tb), HlContent(u), Keys, Mapped)
<1>1. Maps(HlContent(tb), HlHeld(tb)) /\ Maps(HlContent(u), HlHeld(u)) /\ HlHeld(u) \subseteq Keys \X Mapped
  BY ContentFacts DEF HlElements
<1> QED
  BY <1>1, MapsFilled

(* Where there is no table there are no keys.                              *)
LEMMA NoneContent ==
  ASSUME HlAssumption, NEW g \in HlGroups
  PROVE  HlContent(HlNoTable(g)) = NoKeys
<1>1. HlGood(HlNoTable(g)) /\ HlHeld(HlNoTable(g)) = {}
  BY HlNoneKind, NoneUnbroken
<1>2. KeysOf({}) = {}
  BY DEF KeysOf
<1>3. Maps(NoKeys, {})
  BY <1>2 DEF Maps, NoKeys
<1> QED
  BY <1>1, <1>3, ContentIs

(* Both maps are maps.                                                     *)
LEMMA HlInvMaps ==
  ASSUME HlAssumption, HlInv
  PROVE  MapsIn(HlContent(hl), Keys, Mapped) /\ MapsIn(HlContent(hl_other), Keys, Mapped)
  BY FilledMaps DEF HlInv, FillStep

(* Every step of the client is one of a map's client, or leaves the maps   *)
(* as they are.                                                            *)
LEMMA HlStepMaps ==
  ASSUME HlAssumption, HlInv, HlInv', HlNext
  PROVE  \/ MapStep(HlContent(hl), HlContent(hl_other), HlContent(hl)', HlContent(hl_other)', Keys, Mapped)
         \/ HlContent(hl)' = HlContent(hl) /\ HlContent(hl_other)' = HlContent(hl_other)
<1> DEFINE a == HlContent(hl)
           b == HlContent(hl_other)
           Same == a' = a /\ b' = b
           Done == MapStep(a, b, a', b', Keys, Mapped) \/ Same
<1>0. HlGood(hl) /\ HlGood(hl_other) /\ hl.g = hl_other.g /\ HlSmall(hl) /\ HlSmall(hl_other)
  BY DEF HlInv
<1>1. hl.g \in HlGroups /\ hl.n \in Nat /\ hl_other.n \in Nat
  BY <1>0, GoodFacts
<1>2. HlGood(hl') /\ HlGood(hl_other')
  BY DEF HlInv
<1>3. a' = HlContent(hl') /\ b' = HlContent(hl_other')
  OBVIOUS
<1>4. HlContent(HlNoTable(hl.g)) = NoKeys /\ HlHeld(HlNoTable(hl.g)) = {}
  BY <1>1, NoneContent, NoneUnbroken
<1> HIDE DEF a, b
<1>5. ASSUME NEW u, hl' = u, hl_other' = hl_other PROVE a' = HlContent(u) /\ b' = b
  BY <1>3, <1>5 DEF b
<1>6. ASSUME NEW k \in Keys, NEW v \in Mapped, HlEmplace(k, v) PROVE Done
  <2> DEFINE u == HlEmplaced(hl, k, v).tb
  <2>1. HlContent(u) = PutIfAbsent(a, k, v)
    BY <1>0, EmplacedContent DEF a
  <2>2. hl' = u /\ hl_other' = hl_other
    BY <1>6 DEF HlEmplace, HlBecomes
  <2> HIDE DEF u
  <2>3. a' = PutIfAbsent(a, k, v) /\ b' = b
    BY <1>5, <2>1, <2>2
  <2>4. PutIfAbsent(a, k, v) = a \/ PutIfAbsent(a, k, v) = Put(a, k, v)
    BY DEF PutIfAbsent, Put
  <2> QED
    BY <2>3, <2>4 DEF MapStep, OneStep, PutStep
<1>7. ASSUME NEW k \in Keys, NEW v \in Mapped, HlInsertOrAssign(k, v) PROVE Done
  <2> DEFINE u == HlAssigned(hl, k, v)
  <2>1. HlContent(u) = Put(a, k, v)
    BY <1>0, <1>7, AssignedContent DEF a, HlInsertOrAssign
  <2>2. hl' = u /\ hl_other' = hl_other
    BY <1>7 DEF HlInsertOrAssign, HlBecomes
  <2> HIDE DEF u
  <2>3. a' = Put(a, k, v) /\ b' = b
    BY <1>5, <2>1, <2>2
  <2> QED
    BY <2>3 DEF MapStep, OneStep, PutStep
<1>8. ASSUME HlHeld(hl) \subseteq HlHeld(hl'), hl_other' = hl_other PROVE Done
  <2>1. FillStep(a, HlContent(hl'), Keys, Mapped)
    BY <1>0, <1>2, <1>8, FilledMaps DEF a
  <2>2. b' = b
    BY <1>3, <1>8 DEF b
  <2>3. FillStep(a, a', Keys, Mapped)
    BY <1>3, <2>1
  <2> QED
    BY <2>2, <2>3 DEF MapStep, OneStep
<1>9. ASSUME HlHeld(hl') \subseteq HlHeld(hl), hl_other' = hl_other PROVE Done
  <2>1. RemoveStep(a, HlContent(hl'))
    BY <1>0, <1>2, <1>9, RemovedMaps DEF a
  <2>2. b' = b
    BY <1>3, <1>9 DEF b
  <2>3. RemoveStep(a, a')
    BY <1>3, <2>1
  <2> QED
    BY <2>2, <2>3 DEF MapStep, OneStep
<1>10. ASSUME NEW s \in HlLists, HlInsertRange(s) PROVE Done
  <2>1. HlHeld(hl) \subseteq HlHeld(HlInsertedRange(hl, s))
    BY <1>0, HlInsertKind DEF Includes
  <2> QED
    BY <1>8, <1>10, <2>1 DEF HlInsertRange, HlBecomes
<1>11. ASSUME NEW k \in Keys, HlEraseKey(k) PROVE Done
  <2>1. HlSound(hl)
    BY <1>0, <1>11, GoodFacts DEF HlEraseKey
  <2>2. HlHeld(HlErased(hl, k)) \subseteq HlHeld(hl)
    BY <2>1, ErasedFacts DEF Loses
  <2> QED
    BY <1>9, <1>11, <2>2 DEF HlEraseKey, HlBecomes
<1>12. ASSUME NEW i \in HlOccupied(hl), HlEraseAt(i) PROVE Done
  <2>1. HlHeld(HlErasedAt(hl, i)) \subseteq HlHeld(hl)
    BY <1>0, HlEraseAtKind DEF Loses
  <2> QED
    BY <1>9, <1>12, <2>1 DEF HlEraseAt, HlBecomes
<1>13. ASSUME HlClear PROVE Done
  <2>1. HlHeld(HlCleared(hl)) = {}
    BY <1>0, <1>13, HlClearKind DEF HlClear
  <2> QED
    BY <1>9, <1>13, <2>1 DEF HlClear, HlBecomes
<1>14. ASSUME NEW n \in Counts, HlRehash(n) PROVE Done
  <2>1. HlHeld(HlRehashed(hl, n)) = HlHeld(hl)
    BY <1>0, HlRehashKind DEF KeepsElements
  <2> QED
    BY <1>9, <1>14, <2>1 DEF HlRehash, HlBecomes
<1>15. ASSUME NEW n \in Counts, HlReserve(n) PROVE Done
  <2>1. HlHeld(HlReserved(hl, n)) = HlHeld(hl)
    BY <1>0, HlRehashKind DEF KeepsElements
  <2> QED
    BY <1>9, <1>15, <2>1 DEF HlReserve, HlBecomes
<1>16. ASSUME NEW s \in HlLists, HlConstruct(s) PROVE Done
  <2>1. hl_other.n = 0 /\ hl' = hl
    BY <1>16 DEF HlConstruct, HlAlone
  <2>2. HlHeld(hl_other) = {}
    <3>1. HlOccupied(hl_other) \subseteq {}
      BY <1>0, <2>1, GoodFacts
    <3> QED
      BY <3>1 DEF HlHeld
  <2>3. FillStep(b, HlContent(hl_other'), Keys, Mapped)
    BY <1>0, <1>2, <2>2, FilledMaps DEF b
  <2>4. FillStep(b, b', Keys, Mapped) /\ a' = a
    BY <1>3, <2>1, <2>3 DEF a
  <2> QED
    BY <2>4 DEF MapStep, OneStep
<1>17. ASSUME HlCopyConstruct PROVE Done
  <2>1. hl_other' = hl /\ hl' = hl
    BY <1>17 DEF HlCopyConstruct
  <2>2. b' = a /\ a' = a
    BY <1>3, <2>1 DEF a
  <2> QED
    BY <2>2 DEF MapStep
<1>18. ASSUME HlMoveConstruct PROVE Done
  <2>1. hl_other' = hl /\ hl' = HlNoTable(hl.g)
    BY <1>18 DEF HlMoveConstruct
  <2>2. b' = a /\ a' = NoKeys
    BY <1>3, <1>4, <2>1 DEF a
  <2> QED
    BY <2>2 DEF MapStep
<1>19. ASSUME HlCopyAssign PROVE Done
  <2>1. hl' = hl_other /\ hl_other' = hl_other
    BY <1>19 DEF HlCopyAssign
  <2>2. a' = b /\ b' = b
    BY <1>3, <2>1 DEF b
  <2> QED
    BY <2>2 DEF MapStep
<1>20. ASSUME HlMoveAssign PROVE Done
  <2>1. hl' = hl_other /\ hl_other' = HlNoTable(hl.g)
    BY <1>20 DEF HlMoveAssign
  <2>2. a' = b /\ b' = NoKeys
    BY <1>3, <1>4, <2>1 DEF b
  <2> QED
    BY <2>2 DEF MapStep
<1>21. ASSUME HlSwap PROVE Done
  <2>1. hl' = hl_other /\ hl_other' = hl
    BY <1>21 DEF HlSwap
  <2>2. a' = b /\ b' = a
    BY <1>3, <2>1 DEF a, b
  <2> QED
    BY <2>2 DEF MapStep
<1>22. ASSUME HlMerge PROVE Done
  <2> DEFINE c == HlMerged(hl, hl_other)
  <2>1. hl.n > 0 /\ hl' = c.to /\ hl_other' = c.from
    BY <1>22 DEF HlMerge
  <2>2. Merging(c, hl, hl_other)
    BY <1>0, <2>1, HlMergeKind
  <2> HIDE DEF c
  <2>3. MergedMaps(a, b, HlContent(c.to), HlContent(c.from))
    BY <1>0, <2>2, MergedContent DEF a, b
  <2>4. MergedMaps(a, b, a', b')
    BY <1>3, <2>1, <2>3
  <2> QED
    BY <2>4 DEF MapStep
<1>23. ASSUME HlDestroy PROVE Done
  <2>1. hl_other' = HlNoTable(hl.g) /\ hl' = hl
    BY <1>23 DEF HlDestroy
  <2>2. HlHeld(hl_other') = {}
    BY <1>4, <2>1
  <2>3. RemoveStep(b, HlContent(hl_other'))
    BY <1>0, <1>2, <2>2, RemovedMaps DEF b
  <2>4. RemoveStep(b, b') /\ a' = a
    BY <1>3, <2>1, <2>3 DEF a
  <2> QED
    BY <2>4 DEF MapStep, OneStep
<1>24. Done
  <2> HIDE DEF Done
  <2> QED
    BY <1>6, <1>7, <1>10, <1>11, <1>12, <1>13, <1>14, <1>15, <1>16, <1>17, <1>18, <1>19, <1>20, <1>21, <1>22, <1>23
       DEF HlNext
<1> QED
  BY <1>24 DEF a, b
==============================================================================
