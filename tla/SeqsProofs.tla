------------------------------- MODULE SeqsProofs -------------------------------
(***************************************************************************)
(* Lemmas about the sequences of Seqs and the sizes of Alloc, which the    *)
(* proofs about the containers share: where the elements of a sequence are *)
(* after a call, and induction over how many there are.                    *)
(***************************************************************************)
EXTENDS Seqs, Alloc, MapCalls, SequenceTheorems, WellFoundedInduction, NaturalsInduction, TLAPS

(* UpTo() gives the elements before a position.                            *)
LEMMA UpToFacts ==
  ASSUME NEW X, NEW s \in Seq(X), NEW i \in 0 .. Len(s)
  PROVE  /\ UpTo(s, i) \in Seq(X) /\ Len(UpTo(s, i)) = i
         /\ \A j \in 1 .. i : UpTo(s, i)[j] = s[j]
BY SubSeqProperties DEF UpTo

(* After() gives the elements behind a position.                           *)
LEMMA AfterFacts ==
  ASSUME NEW X, NEW s \in Seq(X), NEW i \in 0 .. Len(s)
  PROVE  /\ After(s, i) \in Seq(X) /\ Len(After(s, i)) = Len(s) - i
         /\ \A j \in 1 .. Len(s) - i : After(s, i)[j] = s[i + j]
<1>1. \A k \in i + 1 .. Len(s) : s[k] \in X
  OBVIOUS
<1>2. /\ SubSeq(s, i + 1, Len(s)) \in Seq(X)
      /\ Len(SubSeq(s, i + 1, Len(s))) = IF i + 1 <= Len(s) THEN Len(s) - (i + 1) + 1 ELSE 0
      /\ \A j \in 1 .. Len(s) - (i + 1) + 1 : SubSeq(s, i + 1, Len(s))[j] = s[i + 1 + j - 1]
  BY <1>1, SubSeqProperties
<1> QED
  BY <1>2 DEF After

(* Repeated() gives one value so many times, and none if asked for less.   *)
LEMMA RepeatedFacts ==
  ASSUME NEW X, NEW v \in X, NEW n \in Int
  PROVE  /\ Repeated(n, v) \in Seq(X) /\ Len(Repeated(n, v)) = IF n > 0 THEN n ELSE 0
         /\ \A i \in 1 .. n : Repeated(n, v)[i] = v
<1>1. \A m \in Nat : [i \in 1 .. m |-> v] \in Seq(X) /\ Len([i \in 1 .. m |-> v]) = m
  <2> TAKE m \in Nat
  <2>1. [i \in 1 .. m |-> v] \in [1 .. m -> X]
    OBVIOUS
  <2> QED
    BY <2>1
<1>2. CASE n > 0
  BY <1>1, <1>2 DEF Repeated
<1>3. CASE n <= 0
  <2>1. 1 .. n = 1 .. 0
    BY <1>3
  <2>2. Repeated(n, v) = [i \in 1 .. 0 |-> v]
    BY <2>1 DEF Repeated
  <2>3. Repeated(n, v) \in Seq(X) /\ Len(Repeated(n, v)) = 0
    BY <1>1, <2>2
  <2> QED
    BY <1>3, <2>3
<1> QED
  BY <1>2, <1>3

(* What is put in place of a part, and where the rest is then.             *)
LEMMA InsertedFacts ==
  ASSUME NEW X, NEW s \in Seq(X), NEW i \in 0 .. Len(s), NEW j \in i .. Len(s), NEW t \in Seq(X)
  PROVE  LET r == UpTo(s, i) \o t \o After(s, j) IN
         /\ r \in Seq(X) /\ Len(r) = i + Len(t) + (Len(s) - j)
         /\ \A k \in 1 .. i : r[k] = s[k]
         /\ \A k \in 1 .. Len(t) : r[i + k] = t[k]
         /\ \A k \in 1 .. Len(s) - j : r[(i + Len(t)) + k] = s[j + k]
<1>1. j \in 0 .. Len(s)
  OBVIOUS
<1> DEFINE a == UpTo(s, i)
           c == After(s, j)
           b == a \o t
<1>2. /\ a \in Seq(X) /\ Len(a) = i
      /\ \A k \in 1 .. i : a[k] = s[k]
  BY UpToFacts
<1>3. /\ c \in Seq(X) /\ Len(c) = Len(s) - j
      /\ \A k \in 1 .. Len(s) - j : c[k] = s[j + k]
  BY <1>1, AfterFacts
<1> HIDE DEF a, c
<1>4. /\ b \in Seq(X) /\ Len(b) = i + Len(t)
      /\ \A k \in 1 .. i + Len(t) : b[k] = IF k <= i THEN a[k] ELSE t[k - i]
  BY <1>2, ConcatProperties
<1> HIDE DEF b
<1>5. /\ b \o c \in Seq(X) /\ Len(b \o c) = (i + Len(t)) + (Len(s) - j)
      /\ \A k \in 1 .. (i + Len(t)) + (Len(s) - j) :
            (b \o c)[k] = IF k <= i + Len(t) THEN b[k] ELSE c[k - (i + Len(t))]
  <2>1. b \in Seq(X) /\ c \in Seq(X)
    BY <1>3, <1>4
  <2>2. /\ b \o c \in Seq(X) /\ Len(b \o c) = Len(b) + Len(c)
        /\ \A k \in 1 .. Len(b) + Len(c) : (b \o c)[k] = IF k <= Len(b) THEN b[k] ELSE c[k - Len(b)]
    BY <2>1, ConcatProperties
  <2> QED
    BY <1>3, <1>4, <2>2
<1>6. ASSUME NEW k \in 1 .. i PROVE (b \o c)[k] = s[k]
  BY <1>2, <1>4, <1>5
<1>7. ASSUME NEW k \in 1 .. Len(t) PROVE (b \o c)[i + k] = t[k]
  <2>1. i + k \in 1 .. (i + Len(t)) + (Len(s) - j) /\ i + k <= i + Len(t) /\ ~ (i + k <= i) /\ (i + k) - i = k
    BY <1>1
  <2>2. (b \o c)[i + k] = b[i + k]
    BY <1>5, <2>1
  <2>3. i + k \in 1 .. i + Len(t)
    BY <2>1
  <2> QED
    BY <1>4, <2>1, <2>2, <2>3
<1>8. ASSUME NEW k \in 1 .. Len(s) - j PROVE (b \o c)[(i + Len(t)) + k] = s[j + k]
  <2>1. /\ (i + Len(t)) + k \in 1 .. (i + Len(t)) + (Len(s) - j)
        /\ ~ ((i + Len(t)) + k <= i + Len(t)) /\ ((i + Len(t)) + k) - (i + Len(t)) = k
    BY <1>1
  <2> QED
    BY <1>3, <1>5, <2>1
<1> QED
  BY <1>5, <1>6, <1>7, <1>8 DEF a, b, c

(* What is left without a part, and without a part that is empty.          *)
LEMMA WithoutFacts ==
  ASSUME NEW X, NEW s \in Seq(X), NEW i \in 0 .. Len(s), NEW j \in i .. Len(s)
  PROVE  /\ WithoutPart(s, i, j) \in Seq(X) /\ Len(WithoutPart(s, i, j)) = i + (Len(s) - j)
         /\ \A k \in 1 .. i : WithoutPart(s, i, j)[k] = s[k]
         /\ \A k \in 1 .. Len(s) - j : WithoutPart(s, i, j)[i + k] = s[j + k]
         /\ i = j => WithoutPart(s, i, j) = s
<1> DEFINE a == UpTo(s, i)
           c == After(s, j)
<1>0. Len(s) \in Nat /\ i \in Nat /\ j \in Nat /\ i <= j /\ j <= Len(s) /\ j \in 0 .. Len(s)
  BY LenProperties
<1>1. /\ a \in Seq(X) /\ Len(a) = i
      /\ \A k \in 1 .. i : a[k] = s[k]
  BY UpToFacts
<1>2. /\ c \in Seq(X) /\ Len(c) = Len(s) - j
      /\ \A k \in 1 .. Len(s) - j : c[k] = s[j + k]
  BY <1>0, AfterFacts
<1>3. WithoutPart(s, i, j) = a \o c
  BY DEF WithoutPart
<1> HIDE DEF a, c
<1>4. /\ a \o c \in Seq(X) /\ Len(a \o c) = Len(a) + Len(c)
      /\ \A k \in 1 .. Len(a) + Len(c) : (a \o c)[k] = IF k <= Len(a) THEN a[k] ELSE c[k - Len(a)]
  BY <1>1, <1>2, ConcatProperties
<1>5. ASSUME NEW k \in 1 .. i PROVE (a \o c)[k] = s[k]
  BY <1>0, <1>1, <1>2, <1>4
<1>6. ASSUME NEW k \in 1 .. Len(s) - j PROVE (a \o c)[i + k] = s[j + k]
  <2>1. i + k \in 1 .. Len(a) + Len(c) /\ ~ (i + k <= Len(a)) /\ (i + k) - Len(a) = k
    BY <1>0, <1>1, <1>2
  <2> QED
    BY <1>2, <1>4, <2>1
<1>7. ASSUME i = j PROVE a \o c = s
  <2>1. Len(a \o c) = Len(s)
    BY <1>0, <1>1, <1>2, <1>4, <1>7
  <2>2. ASSUME NEW k \in 1 .. Len(s) PROVE (a \o c)[k] = s[k]
    <3>0. k \in Nat /\ k >= 1 /\ k <= Len(s) /\ (k <= i \/ k > i)
      BY <1>0
    <3>1. CASE k <= i
      <4>1. k \in 1 .. i
        BY <1>0, <3>0, <3>1
      <4> QED
        BY <1>5, <4>1
    <3>2. CASE k > i
      <4>1. k - i \in 1 .. Len(s) - j /\ i + (k - i) = k /\ j + (k - i) = k
        BY <1>0, <1>7, <3>0, <3>2
      <4>2. (a \o c)[i + (k - i)] = s[j + (k - i)]
        BY <1>6, <4>1
      <4> QED
        BY <4>1, <4>2
    <3> QED
      BY <3>0, <3>1, <3>2
  <2> QED
    BY <1>4, <2>1, <2>2, SeqEqual
<1> QED
  BY <1>1, <1>2, <1>3, <1>4, <1>5, <1>6, <1>7

(* Natural induction, for the numbers in a set.                            *)
LEMMA Induction ==
  ASSUME NEW S \in SUBSET Nat, 0 \in S, \A n \in S : n + 1 \in S
  PROVE  S = Nat
<1> DEFINE T == Nat \ S
           R == {ss \in Nat \X Nat : ss[1] < ss[2]}
<1> SUFFICES ASSUME T # {} PROVE FALSE
  OBVIOUS
<1>1. IsWellFoundedOn(R, Nat)
  BY NatLessThanWellFounded, Zenon DEF OpToRel
<1> HIDE DEF R
<1>2. \E x \in T : \A y \in T : ~ (<<y, x>> \in R)
  BY <1>1, WFMin
<1>3. PICK x \in T : \A y \in T : ~ (<<y, x>> \in R)
  BY <1>2
<1>4. x \in Nat /\ x # 0 /\ x - 1 \in Nat
  BY <1>3
<1>5. <<x - 1, x>> \in R
  BY <1>4 DEF R
<1>6. x - 1 \notin T
  BY <1>3, <1>5
<1>7. (x - 1) + 1 = x
  BY <1>4
<1> QED
  BY <1>3, <1>4, <1>6, <1>7

(* Of some numbers up to a bound there is a last one.                      *)
LEMMA LastOne ==
  ASSUME NEW m \in Nat, NEW S \in SUBSET (0 .. m), S # {}
  PROVE  \E x \in S : \A y \in S : y <= x
<1> DEFINE Has(T) == \E x \in T : \A y \in T : y <= x
           K == {k \in Nat : \A T \in SUBSET (0 .. k) : T # {} => Has(T)}
<1>1. 0 \in K
  <2> SUFFICES ASSUME NEW T \in SUBSET (0 .. 0), T # {} PROVE Has(T)
    OBVIOUS
  <2>1. PICK x : x \in T
    OBVIOUS
  <2>2. \A y \in T : y = 0
    OBVIOUS
  <2>3. \A y \in T : y <= x
    BY <2>1, <2>2
  <2> QED
    BY <2>1, <2>3
<1>2. ASSUME NEW k \in K PROVE k + 1 \in K
  <2> SUFFICES ASSUME NEW T \in SUBSET (0 .. k + 1), T # {} PROVE Has(T)
    OBVIOUS
  <2>1. CASE k + 1 \in T
    <3>1. \A y \in T : y <= k + 1
      OBVIOUS
    <3> QED
      BY <2>1, <3>1
  <2>2. CASE k + 1 \notin T
    <3>1. T \in SUBSET (0 .. k)
      <4>1. ASSUME NEW y \in T PROVE y \in 0 .. k
        <5>1. y \in 0 .. k + 1 /\ y # k + 1
          BY <2>2
        <5> QED
          BY <5>1
      <4> QED
        BY <4>1
    <3> HIDE DEF Has
    <3> QED
      BY <3>1
  <2> QED
    BY <2>1, <2>2
<1> HIDE DEF Has
<1>3. K \in SUBSET Nat
  OBVIOUS
<1> HIDE DEF K
<1>4. K = Nat
  BY <1>1, <1>2, <1>3, Induction
<1> USE DEF K
<1>5. Has(S)
  BY <1>4
<1> QED
  BY <1>5 DEF Has

(* get_growth_size() is not less than what is asked for.                   *)
LEMMA GrowthSizeFacts ==
  ASSUME NEW size \in Nat, NEW least \in Nat
  PROVE  /\ GrowthSize(size, least) \in Nat
         /\ GrowthSize(size, least) >= least /\ GrowthSize(size, least) >= 2 * size
<1> DEFINE S == {2 * size, 8, least}
<1>1. \E n \in S : \A m \in S : n >= m
  <2>1. CASE 2 * size >= 8 /\ 2 * size >= least
    BY <2>1
  <2>2. CASE 8 >= 2 * size /\ 8 >= least
    BY <2>2
  <2>3. CASE least >= 8 /\ least >= 2 * size
    BY <2>3
  <2> QED
    BY <2>1, <2>2, <2>3
<1>2. /\ GrowthSize(size, least) \in S
      /\ \A m \in S : GrowthSize(size, least) >= m
  BY <1>1 DEF GrowthSize
<1> QED
  BY <1>2

(* What is put in at a position, and where the elements behind it are then. *)
LEMMA WithInsertedFacts ==
  ASSUME NEW X, NEW s \in Seq(X), NEW i \in 0 .. Len(s), NEW t \in Seq(X)
  PROVE  LET r == WithInserted(s, i, t) IN
         /\ r \in Seq(X) /\ Len(r) = Len(s) + Len(t)
         /\ \A k \in 1 .. i : r[k] = s[k]
         /\ \A k \in 1 .. Len(t) : r[i + k] = t[k]
         /\ \A k \in i + 1 .. Len(s) : r[k + Len(t)] = s[k]
<1> DEFINE r == WithInserted(s, i, t)
           q == UpTo(s, i) \o t \o After(s, i)
<1>1. r = q
  BY DEF WithInserted
<1>2. i \in i .. Len(s) /\ Len(s) \in Nat /\ Len(t) \in Nat
  BY LenProperties
<1>3. /\ q \in Seq(X) /\ Len(q) = i + Len(t) + (Len(s) - i)
      /\ \A k \in 1 .. i : q[k] = s[k]
      /\ \A k \in 1 .. Len(t) : q[i + k] = t[k]
      /\ \A k \in 1 .. Len(s) - i : q[(i + Len(t)) + k] = s[i + k]
  BY <1>2, InsertedFacts, ZenonT(40)
<1> HIDE DEF q, r
<1>4. ASSUME NEW k \in i + 1 .. Len(s) PROVE r[k + Len(t)] = s[k]
  <2>1. k - i \in 1 .. Len(s) - i /\ (i + Len(t)) + (k - i) = k + Len(t) /\ i + (k - i) = k
    BY <1>2
  <2>2. q[(i + Len(t)) + (k - i)] = s[i + (k - i)]
    BY <1>3, <2>1
  <2> QED
    BY <1>1, <2>1, <2>2
<1>5. i + Len(t) + (Len(s) - i) = Len(s) + Len(t)
  BY <1>2
<1> QED
  BY <1>1, <1>3, <1>4, <1>5 DEF r

(* Where the elements behind a part are when it has been taken out.        *)
LEMMA WithoutPartFacts ==
  ASSUME NEW X, NEW s \in Seq(X), NEW i \in 0 .. Len(s), NEW j \in i .. Len(s)
  PROVE  LET r == WithoutPart(s, i, j) IN
         /\ r \in Seq(X) /\ Len(r) = Len(s) - (j - i)
         /\ \A k \in 1 .. i : r[k] = s[k]
         /\ \A k \in j + 1 .. Len(s) : r[k - (j - i)] = s[k]
<1> DEFINE r == WithoutPart(s, i, j)
<1>1. /\ r \in Seq(X) /\ Len(r) = i + (Len(s) - j)
      /\ \A k \in 1 .. i : r[k] = s[k]
      /\ \A k \in 1 .. Len(s) - j : r[i + k] = s[j + k]
  BY WithoutFacts
<1> HIDE DEF r
<1>2. Len(s) \in Nat /\ i \in Nat /\ j \in Nat /\ i <= j /\ j <= Len(s)
  BY LenProperties
<1>3. ASSUME NEW k \in j + 1 .. Len(s) PROVE r[k - (j - i)] = s[k]
  <2>1. k - j \in 1 .. Len(s) - j /\ i + (k - j) = k - (j - i) /\ j + (k - j) = k
    BY <1>2
  <2>2. r[i + (k - j)] = s[j + (k - j)]
    BY <1>1, <2>1
  <2> QED
    BY <2>1, <2>2
<1>4. i + (Len(s) - j) = Len(s) - (j - i)
  BY <1>2
<1> QED
  BY <1>1, <1>3, <1>4 DEF r

(* A sequence cut off or made longer: what it keeps and what is new.       *)
LEMMA ResizedFacts ==
  ASSUME NEW X, NEW s \in Seq(X), NEW n \in Nat, NEW v \in X
  PROVE  LET r == Resized(s, n, v) IN
         /\ r \in Seq(X) /\ Len(r) = n
         /\ \A k \in 1 .. n : r[k] = IF k <= Len(s) THEN s[k] ELSE v
<1> DEFINE r == Resized(s, n, v)
<1>0. Len(s) \in Nat
  BY LenProperties
<1>1. CASE n <= Len(s)
  <2>1. n \in 0 .. Len(s)
    BY <1>0, <1>1
  <2>2. UpTo(s, n) \in Seq(X) /\ Len(UpTo(s, n)) = n /\ \A j \in 1 .. n : UpTo(s, n)[j] = s[j]
    BY <2>1, UpToFacts
  <2>3. \A k \in 1 .. n : k <= Len(s)
    BY <1>0, <1>1
  <2>4. r = UpTo(s, n)
    BY <1>1 DEF Resized
  <2> HIDE DEF r
  <2> QED
    BY <2>2, <2>3, <2>4 DEF r
<1>2. CASE ~ (n <= Len(s))
  <2> DEFINE q == Repeated(n - Len(s), v)
  <2>1. n - Len(s) \in Int /\ n - Len(s) > 0
    BY <1>0, <1>2
  <2>2. q \in Seq(X) /\ Len(q) = n - Len(s) /\ \A k \in 1 .. n - Len(s) : q[k] = v
    BY <2>1, RepeatedFacts
  <2>3. r = s \o q
    BY <1>2 DEF Resized
  <2> HIDE DEF q, r
  <2>4. /\ s \o q \in Seq(X) /\ Len(s \o q) = Len(s) + Len(q)
        /\ \A k \in 1 .. Len(s) + Len(q) : (s \o q)[k] = IF k <= Len(s) THEN s[k] ELSE q[k - Len(s)]
    BY <2>2, ConcatProperties
  <2>5. Len(s) + Len(q) = n
    BY <1>0, <2>2
  <2>6. \A k \in 1 .. n : k > Len(s) => k - Len(s) \in 1 .. n - Len(s)
    BY <1>0
  <2> QED
    BY <1>0, <2>2, <2>3, <2>4, <2>5, <2>6 DEF r
<1> QED
  BY <1>1, <1>2

(* A function is given by what it is at 0 and by the step from each of its *)
(* values to the next.                                                     *)
IsStep(step, D, N) == step \in [1 .. N -> [D -> D]]

Follows(f, f0, step, D, N) == f \in [0 .. N -> D] /\ f[0] = f0 /\ \A n \in 1 .. N : f[n] = step[n][f[n - 1]]

(* There is such a function.                                               *)
LEMMA RecursionExists ==
  ASSUME NEW D, NEW N \in Nat, NEW f0 \in D, NEW step, IsStep(step, D, N)
  PROVE  \E f : Follows(f, f0, step, D, N)
<1>0. step \in [1 .. N -> [D -> D]]
  BY DEF IsStep
<1> DEFINE Is(f, m) == f \in [0 .. m -> D] /\ f[0] = f0 /\ \A n \in 1 .. m : f[n] = step[n][f[n - 1]]
           K == {m \in Nat : m <= N => \E f : Is(f, m)}
<1>1. 0 \in K
  <2>1. Is([n \in 0 .. 0 |-> f0], 0)
    OBVIOUS
  <2> QED
    BY <2>1
<1>2. ASSUME NEW m \in K PROVE m + 1 \in K
  <2>a. m \in Nat /\ m + 1 \in Nat /\ (m <= N => \E f : Is(f, m))
    OBVIOUS
  <2> SUFFICES ASSUME m + 1 <= N PROVE \E f : Is(f, m + 1)
    <3> HIDE DEF Is
    <3> QED
      BY <2>a
  <2>0. m \in Nat /\ m <= N
    BY <2>a
  <2>1. PICK f : Is(f, m)
    BY <2>a, <2>0
  <2> DEFINE g == [n \in 0 .. m + 1 |-> IF n <= m THEN f[n] ELSE step[n][f[n - 1]]]
  <2>2. m + 1 \in 1 .. N /\ f[m] \in D
    BY <2>0, <2>1
  <2>3. step[m + 1][f[m]] \in D
    BY <1>0, <2>2
  <2>4. g \in [0 .. m + 1 -> D]
    <3>1. ASSUME NEW n \in 0 .. m + 1 PROVE (IF n <= m THEN f[n] ELSE step[n][f[n - 1]]) \in D
      <4>1. CASE n <= m
        BY <2>0, <2>1, <4>1
      <4>2. CASE ~ (n <= m)
        <5>1. n = m + 1 /\ n - 1 = m
          BY <2>0, <4>2
        <5> QED
          BY <2>3, <4>2, <5>1
      <4> QED
        BY <4>1, <4>2
    <3> QED
      BY <3>1
  <2>5. g[0] = f0
    BY <2>0, <2>1
  <2>6. ASSUME NEW n \in 1 .. m + 1 PROVE g[n] = step[n][g[n - 1]]
    <3>1. n \in 0 .. m + 1 /\ n - 1 \in 0 .. m + 1 /\ n - 1 <= m
      BY <2>0
    <3>2. g[n - 1] = f[n - 1]
      BY <3>1
    <3>3. CASE n <= m
      BY <2>0, <2>1, <3>1, <3>2, <3>3
    <3>4. CASE ~ (n <= m)
      BY <3>1, <3>2, <3>4
    <3> QED
      BY <3>3, <3>4
  <2>7. Is(g, m + 1)
    BY <2>4, <2>5, <2>6
  <2> QED
    BY <2>7
<1> HIDE DEF Is
<1>3. K = Nat
  <2>1. K \in SUBSET Nat
    OBVIOUS
  <2> HIDE DEF K
  <2> QED
    BY <1>1, <1>2, <2>1, Induction
<1>4. PICK f : Is(f, N)
  <2>1. N \in K
    BY <1>3
  <2>2. N <= N
    OBVIOUS
  <2> QED
    BY <2>1, <2>2
<1>5. f \in [0 .. N -> D] /\ f[0] = f0 /\ \A n \in 1 .. N : f[n] = step[n][f[n - 1]]
  BY <1>4 DEF Is
<1> QED
  BY <1>5 DEF Follows

(* What holds of 0, and of each number up to a bound if of the one before, *)
(* holds of all of them.                                                   *)
LEMMA InductionUpTo ==
  ASSUME NEW N \in Nat, NEW S, 0 \in S, \A n \in 1 .. N : n - 1 \in S => n \in S
  PROVE  \A n \in 0 .. N : n \in S
<1> DEFINE K == {n \in Nat : n <= N => n \in S}
<1>1. 0 \in K
  OBVIOUS
<1>2. ASSUME NEW n \in K PROVE n + 1 \in K
  <2> SUFFICES ASSUME n + 1 <= N PROVE n + 1 \in S
    OBVIOUS
  <2>1. n \in Nat /\ n \in S /\ n + 1 \in 1 .. N /\ (n + 1) - 1 = n
    OBVIOUS
  <2> QED
    BY <2>1
<1>3. K = Nat
  <2>1. K \in SUBSET Nat
    OBVIOUS
  <2> HIDE DEF K
  <2> QED
    BY <1>1, <1>2, <2>1, Induction
<1> QED
  BY <1>3

-----------------------------------------------------------------------------
(* Remainders.                                                             *)

(* A number has one quotient and one remainder.                            *)
LEMMA DivisionUnique ==
  ASSUME NEW n \in Nat, n > 0, NEW x \in Int, NEW q \in Int, NEW r \in 0 .. n - 1, x = n * q + r
  PROVE  x % n = r /\ x \div n = q
<1> DEFINE p == x \div n
           s == x % n
<1>1. p \in Int /\ s \in 0 .. n - 1 /\ x = n * p + s
  OBVIOUS
<1> HIDE DEF p, s
<1>2. n * (p - q) = r - s
  BY <1>1
<1>3. CASE p - q >= 1
  <2>1. n * (p - q) >= n
    BY <1>1, <1>3
  <2> QED
    BY <1>1, <1>2, <2>1
<1>4. CASE p - q <= -1
  <2>1. n * (q - p) >= n
    BY <1>1, <1>4
  <2>2. n * (q - p) = s - r
    BY <1>1
  <2> QED
    BY <1>1, <2>1, <2>2
<1>5. CASE p = q
  BY <1>1, <1>5 DEF p, s
<1> QED
  BY <1>1, <1>3, <1>4, <1>5

(* Whole rounds leave the remainder as it is.                              *)
LEMMA RoundsVanish ==
  ASSUME NEW n \in Nat, n > 0, NEW x \in Int, NEW q \in Int
  PROVE  (x + n * q) % n = x % n
<1> DEFINE p == x \div n
           s == x % n
<1>1. p \in Int /\ s \in 0 .. n - 1 /\ x = n * p + s
  OBVIOUS
<1> HIDE DEF p, s
<1>2. x + n * q = n * (p + q) + s /\ p + q \in Int /\ x + n * q \in Int
  BY <1>1
<1>3. (x + n * q) % n = s
  BY <1>1, <1>2, DivisionUnique
<1> QED
  BY <1>3 DEF s

-----------------------------------------------------------------------------
(* The sizes of tables.                                                    *)

(* Powers of two.                                                          *)
LEMMA PowersFacts ==
  /\ Powers[0] = 1
  /\ \A e \in 1 .. 30 : Powers[e] = 2 * Powers[e - 1]
  /\ \A e \in 0 .. 30 : Powers[e] \in Nat \ {0}
<1> DEFINE D == Nat
           step == [i \in 1 .. 30 |-> [x \in D |-> 2 * x]]
           Is(f) == f = [i \in 0 .. 30 |-> IF i = 0 THEN 1 ELSE 2 * f[i - 1]]
<1>1. IsStep(step, D, 30) /\ 1 \in D
  BY DEF IsStep
<1>2. PICK f : Follows(f, 1, step, D, 30)
  <2> HIDE DEF D, step, Is
  <2> QED
    BY <1>1, RecursionExists
<1>3. ASSUME NEW i \in 0 .. 30 PROVE f[i] = IF i = 0 THEN 1 ELSE 2 * f[i - 1]
  BY <1>2 DEF Follows
<1>4. Is(f)
  BY <1>2, <1>3 DEF Follows
<1>5. Powers = CHOOSE g : Is(g)
  BY DEF Powers
<1>6. Is(Powers)
  <2> HIDE DEF Is
  <2> QED
    BY <1>4, <1>5
<1>7. \A i \in 0 .. 30 : Powers[i] = IF i = 0 THEN 1 ELSE 2 * Powers[i - 1]
  BY <1>6
<1> HIDE DEF Is
<1>8. Powers[0] = 1 /\ \A e \in 1 .. 30 : Powers[e] = 2 * Powers[e - 1]
  BY <1>7
<1>9. \A e \in 0 .. 30 : Powers[e] \in Nat \ {0}
  <2> DEFINE S == {e \in 0 .. 30 : Powers[e] \in Nat \ {0}}
  <2>1. 0 \in S
    BY <1>8
  <2>2. ASSUME NEW e \in 1 .. 30, e - 1 \in S PROVE e \in S
    BY <1>8, <2>2
  <2> HIDE DEF S
  <2>3. \A e \in 0 .. 30 : e \in S
    BY <2>1, <2>2, InductionUpTo
  <2> QED
    BY <2>3 DEF S
<1> QED
  BY <1>8, <1>9

(* A power is a multiple of each smaller one.                              *)
LEMMA PowersDivide ==
  ASSUME NEW a \in 0 .. 30, NEW d \in 0 .. 30 - a
  PROVE  Powers[a + d] = Powers[a] * Powers[d]
<1> DEFINE S == {x \in 0 .. 30 - a : Powers[a + x] = Powers[a] * Powers[x]}
<1>1. 0 \in S
  BY PowersFacts
<1>2. ASSUME NEW x \in 1 .. 30 - a, x - 1 \in S PROVE x \in S
  <2>1. /\ Powers[a + x] = 2 * Powers[a + (x - 1)] /\ Powers[x] = 2 * Powers[x - 1]
        /\ Powers[a] \in Nat /\ Powers[x - 1] \in Nat /\ Powers[a + (x - 1)] = Powers[a] * Powers[x - 1]
    <3>1. a + x \in 1 .. 30 /\ x \in 1 .. 30 /\ x - 1 \in 0 .. 30 /\ (a + x) - 1 = a + (x - 1)
      OBVIOUS
    <3>2. Powers[a + x] = 2 * Powers[(a + x) - 1]
      BY <3>1, PowersFacts
    <3> QED
      BY <1>2, <3>1, <3>2, PowersFacts
  <2>2. Powers[a + x] = Powers[a] * Powers[x]
    BY <2>1
  <2> QED
    BY <2>2
<1> HIDE DEF S
<1>3. 30 - a \in Nat
  OBVIOUS
<1>4. \A x \in 0 .. 30 - a : x \in S
  BY <1>1, <1>2, <1>3, InductionUpTo
<1> QED
  BY <1>4 DEF S

(* The larger of two powers is a multiple of the smaller one, ...          *)
LEMMA PowersMultiple ==
  ASSUME NEW a \in 0 .. 30, NEW b \in 0 .. 30, a <= b
  PROVE  \E q \in Nat \ {0} : Powers[b] = Powers[a] * q
<1>1. b - a \in 0 .. 30 - a /\ b = a + (b - a) /\ b - a \in 0 .. 30
  OBVIOUS
<1> QED
  BY <1>1, PowersDivide, PowersFacts

(* ... and, if they differ, of twice the smaller one.                      *)
LEMMA PowersTwice ==
  ASSUME NEW a \in 0 .. 30, NEW b \in 0 .. 30, a < b
  PROVE  \E q \in Nat \ {0} : Powers[b] = 2 * (Powers[a] * q)
<1>1. b - a \in 0 .. 30 - a /\ b = a + (b - a) /\ b - a \in 1 .. 30 /\ b - a - 1 \in 0 .. 30
  OBVIOUS
<1>2. Powers[b] = Powers[a] * Powers[b - a]
  BY <1>1, PowersDivide
<1>3. Powers[b - a] = 2 * Powers[b - a - 1] /\ Powers[b - a - 1] \in Nat \ {0}
  BY <1>1, PowersFacts
<1> DEFINE q == Powers[b - a - 1]
<1>4. Powers[b] = Powers[a] * (2 * q) /\ q \in Nat \ {0} /\ Powers[a] \in Nat
  BY <1>2, <1>3, PowersFacts
<1> HIDE DEF q
<1>5. Powers[b] = 2 * (Powers[a] * q)
  BY <1>4
<1> QED
  BY <1>4, <1>5

(* There is a first of some numbers.                                       *)
LEMMA FirstOne ==
  ASSUME NEW S \in SUBSET Nat, S # {}
  PROVE  FirstOf(S) \in S /\ \A d \in S : FirstOf(S) <= d
<1>1. ASSUME ~ \E c \in S : \A d \in S : c <= d PROVE FALSE
  <2> DEFINE K == {m \in Nat : \A d \in S : d > m}
  <2>1. 0 \in K
    BY <1>1
  <2>2. ASSUME NEW m \in K PROVE m + 1 \in K
    <3>1. \A d \in S : d \in Nat /\ m + 1 <= d
      OBVIOUS
    <3>2. m + 1 \notin S
      BY <1>1, <3>1
    <3> QED
      BY <3>1, <3>2
  <2>3. K \subseteq Nat
    OBVIOUS
  <2> HIDE DEF K
  <2>4. K = Nat
    BY <2>1, <2>2, <2>3, Induction
  <2>5. PICK d \in S : TRUE
    OBVIOUS
  <2>6. d \in K
    BY <2>4
  <2> QED
    BY <2>5, <2>6 DEF K
<1> QED
  BY <1>1 DEF FirstOf

(* The larger of two powers has the larger exponent, ...                  *)
LEMMA PowersOrdered ==
  ASSUME NEW a \in 0 .. 30, NEW b \in 0 .. 30, a <= b
  PROVE  Powers[a] <= Powers[b]
<1>1. PICK q \in Nat \ {0} : Powers[b] = Powers[a] * q
  BY PowersMultiple
<1>2. Powers[a] \in Nat
  BY PowersFacts
<1> QED
  BY <1>1, <1>2

(* ... and is at least twice the smaller one.                              *)
LEMMA PowersDoubled ==
  ASSUME NEW a \in 0 .. 30, NEW b \in 0 .. 30, Powers[a] < Powers[b]
  PROVE  2 * Powers[a] <= Powers[b]
<1>1. Powers[a] \in Nat /\ Powers[b] \in Nat
  BY PowersFacts
<1>2. ASSUME b <= a PROVE FALSE
  <2>1. Powers[b] <= Powers[a]
    BY <1>2, PowersOrdered
  <2> QED
    BY <1>1, <2>1
<1>3. a < b
  BY <1>2
<1>4. PICK q \in Nat \ {0} : Powers[b] = 2 * (Powers[a] * q)
  BY <1>3, PowersTwice
<1>5. Powers[a] * q >= Powers[a]
  BY <1>1
<1> QED
  BY <1>1, <1>4, <1>5

(* How many buckets a table may have.                                      *)
BucketCounts == {Powers[e] : e \in 3 .. 30}

MostBuckets == Powers[30]

(* They are numbers from 8 on, each at least twice a smaller one.          *)
LEMMA Capacities ==
  /\ MostBuckets \in Nat
  /\ \A n \in BucketCounts : n \in Nat /\ n >= 8 /\ n <= MostBuckets
  /\ \A n, m \in BucketCounts : n < m => 2 * n <= m
<1>1. Powers[3] = 8
  <2>1. Powers[1] = 2 * Powers[0] /\ Powers[2] = 2 * Powers[1] /\ Powers[3] = 2 * Powers[2] /\ Powers[0] = 1
    <3>1. 1 \in 1 .. 30 /\ 2 \in 1 .. 30 /\ 3 \in 1 .. 30 /\ 1 - 1 = 0 /\ 2 - 1 = 1 /\ 3 - 1 = 2
      OBVIOUS
    <3> QED
      BY <3>1, PowersFacts
  <2> QED
    BY <2>1
<1>2. MostBuckets \in Nat
  BY PowersFacts DEF MostBuckets
<1>3. ASSUME NEW n \in BucketCounts PROVE n \in Nat /\ n >= 8 /\ n <= MostBuckets
  <2>1. PICK e \in 3 .. 30 : n = Powers[e]
    BY DEF BucketCounts
  <2>2. Powers[3] <= Powers[e] /\ Powers[e] <= Powers[30]
    <3>1. 3 \in 0 .. 30 /\ e \in 0 .. 30 /\ 30 \in 0 .. 30 /\ 3 <= e /\ e <= 30
      OBVIOUS
    <3>2. Powers[3] <= Powers[e]
      BY <3>1, PowersOrdered
    <3>3. Powers[e] <= Powers[30]
      BY <3>1, PowersOrdered
    <3> QED
      BY <3>2, <3>3
  <2>3. Powers[e] \in Nat
    BY PowersFacts
  <2> QED
    BY <1>1, <2>1, <2>2, <2>3 DEF MostBuckets
<1>4. ASSUME NEW n \in BucketCounts, NEW m \in BucketCounts, n < m PROVE 2 * n <= m
  <2>1. PICK a \in 3 .. 30 : n = Powers[a]
    BY DEF BucketCounts
  <2>2. PICK b \in 3 .. 30 : m = Powers[b]
    BY DEF BucketCounts
  <2>3. a \in 0 .. 30 /\ b \in 0 .. 30
    OBVIOUS
  <2>4. Powers[a] < Powers[b] => 2 * Powers[a] <= Powers[b]
    BY <2>3, PowersDoubled
  <2> QED
    BY <1>4, <2>1, <2>2, <2>4
<1> QED
  BY <1>2, <1>3, <1>4

(* What get_growth_size_aligned gives is such a number, and enough.        *)
LEMMA AlignedFacts ==
  ASSUME NEW x \in Nat, x <= MostBuckets
  PROVE  GrowthSizeAligned(x) \in BucketCounts /\ GrowthSizeAligned(x) >= x
<1> DEFINE S == {e \in Nat : e \in 3 .. 30 /\ Powers[e] >= x}
           P(p) == p >= x /\ (p = 8 \/ p \div 2 < x)
<1>1. \A e \in 0 .. 30 : Powers[e] \in Nat
  BY PowersFacts
<1>2. 30 \in S
  BY <1>1 DEF MostBuckets
<1>3. PICK e \in S : \A d \in S : e <= d
  <2>1. S \in SUBSET Nat /\ S # {}
    BY <1>2
  <2> HIDE DEF S
  <2> QED
    BY <2>1, FirstOne
<1>4. e \in 3 .. 30 /\ Powers[e] >= x
  OBVIOUS
<1>5. P(Powers[e])
  <2>1. CASE e = 3
    <3>1. Powers[3] \in BucketCounts
      BY DEF BucketCounts
    <3>2. Powers[1] = 2 * Powers[0] /\ Powers[2] = 2 * Powers[1] /\ Powers[3] = 2 * Powers[2] /\ Powers[0] = 1
      <4>1. 1 \in 1 .. 30 /\ 2 \in 1 .. 30 /\ 3 \in 1 .. 30 /\ 1 - 1 = 0 /\ 2 - 1 = 1 /\ 3 - 1 = 2
        OBVIOUS
      <4> QED
        BY <4>1, PowersFacts
    <3> QED
      BY <1>4, <2>1, <3>2
  <2>2. CASE e # 3
    <3>1. e - 1 \notin S
      BY <1>3, <1>4
    <3>2. e - 1 \in 3 .. 30 /\ e - 1 \in Nat /\ e \in 1 .. 30
      BY <1>4, <2>2
    <3>3. Powers[e - 1] < x
      BY <1>1, <3>1, <3>2
    <3>4. Powers[e] = 2 * Powers[e - 1] /\ Powers[e - 1] \in Nat
      BY <1>1, <3>2, PowersFacts
    <3>5. Powers[e] \div 2 = Powers[e - 1]
      BY <3>4
    <3> QED
      BY <1>4, <3>3, <3>5
  <2> QED
    BY <2>1, <2>2
<1>6. Powers[e] \in BucketCounts
  BY <1>4 DEF BucketCounts
<1>7. GrowthSizeAligned(x) = CHOOSE p \in BucketCounts : P(p)
  BY DEF GrowthSizeAligned, BucketCounts
<1>8. GrowthSizeAligned(x) \in BucketCounts /\ P(GrowthSizeAligned(x))
  <2> HIDE DEF P
  <2> QED
    BY <1>5, <1>6, <1>7
<1> QED
  BY <1>8

-----------------------------------------------------------------------------
(* Functions defined by recursion whose values are in a set of their own   *)
(* at every argument.                                                      *)

Leads(step, Inv, N) == \A n \in 1 .. N : \A x \in Inv[n - 1] : step[n][x] \in Inv[n]

Walks(f, f0, step, Inv, N) ==
  /\ f = [n \in 0 .. N |-> f[n]] /\ f[0] = f0
  /\ \A n \in 1 .. N : f[n] = step[n][f[n - 1]] /\ f[n - 1] \in Inv[n - 1]

(* There is one if every step leads from one set to the next.              *)
LEMMA WalkExists ==
  ASSUME NEW N \in Nat, NEW Inv, NEW f0 \in Inv[0], NEW step, Leads(step, Inv, N)
  PROVE  \E f : Walks(f, f0, step, Inv, N)
<1> DEFINE D == UNION {Inv[n] : n \in 0 .. N}
           s == [n \in 1 .. N |-> [x \in D |-> IF x \in Inv[n - 1] THEN step[n][x] ELSE f0]]
<1>0. 0 \in 0 .. N /\ f0 \in D
  OBVIOUS
<1>1. ASSUME NEW n \in 1 .. N, NEW x \in D PROVE (IF x \in Inv[n - 1] THEN step[n][x] ELSE f0) \in D
  <2>1. x \in Inv[n - 1] => step[n][x] \in Inv[n]
    BY DEF Leads
  <2>2. n \in 0 .. N
    OBVIOUS
  <2> QED
    BY <1>0, <2>1, <2>2
<1>2. IsStep(s, D, N)
  BY <1>1 DEF IsStep
<1>3. PICK f : Follows(f, f0, s, D, N)
  <2> HIDE DEF D, s
  <2> QED
    BY <1>0, <1>2, RecursionExists
<1>4. f \in [0 .. N -> D] /\ f[0] = f0 /\ \A n \in 1 .. N : f[n] = s[n][f[n - 1]]
  BY <1>3 DEF Follows
<1> DEFINE S == {n \in 0 .. N : f[n] \in Inv[n]}
<1>5. \A n \in 0 .. N : n \in S
  <2>1. 0 \in S
    BY <1>4
  <2>2. ASSUME NEW n \in 1 .. N, n - 1 \in S PROVE n \in S
    <3>1. f[n - 1] \in Inv[n - 1] /\ n - 1 \in 0 .. N /\ n \in 0 .. N
      BY <2>2
    <3>2. f[n - 1] \in D
      BY <1>4, <3>1
    <3>3. f[n] = step[n][f[n - 1]]
      BY <1>4, <3>1, <3>2
    <3> QED
      BY <3>1, <3>3 DEF Leads
  <2>3. S \subseteq 0 .. N
    OBVIOUS
  <2> HIDE DEF S
  <2> QED
    BY <2>1, <2>2, <2>3, InductionUpTo
<1>6. ASSUME NEW n \in 1 .. N PROVE f[n] = step[n][f[n - 1]] /\ f[n - 1] \in Inv[n - 1]
  <2>1. n - 1 \in 0 .. N
    OBVIOUS
  <2>2. f[n - 1] \in Inv[n - 1] /\ f[n - 1] \in D
    BY <1>4, <1>5, <2>1
  <2> QED
    BY <1>4, <2>2
<1> QED
  BY <1>4, <1>6 DEF Walks

-----------------------------------------------------------------------------
(* The maps that tables hold.                                             *)

(* Pairs of which no two have the same key, and the map they make.         *)
Keyed(H) == \A x, y \in H : x[1] = y[1] => x = y

KeysOf(H) == {x[1] : x \in H}

Maps(m, H) == m = [k \in KeysOf(H) |-> m[k]] /\ \A x \in H : m[x[1]] = x[2]

(* There is one such map.                                                  *)
LEMMA MapsUnique ==
  ASSUME NEW H, NEW m, NEW w, Maps(m, H), Maps(w, H)
  PROVE  m = w
<1>1. ASSUME NEW k \in KeysOf(H) PROVE m[k] = w[k]
  <2>1. PICK x \in H : k = x[1]
    BY DEF KeysOf
  <2> QED
    BY <2>1 DEF Maps
<1>2. m = [k \in KeysOf(H) |-> m[k]] /\ w = [k \in KeysOf(H) |-> w[k]]
  BY DEF Maps
<1> QED
  BY <1>1, <1>2

(* One element more, ...                                                   *)
LEMMA MapsAdded ==
  ASSUME NEW H, Keyed(H), NEW m, Maps(m, H), NEW k, NEW v, k \notin KeysOf(H)
  PROVE  Maps(Put(m, k, v), H \cup {<<k, v>>})
<1> DEFINE w == Put(m, k, v)
           G == H \cup {<<k, v>>}
<1>1. KeysOf(G) = KeysOf(H) \cup {k}
  <2> DEFINE y == <<k, v>>
  <2>1. y[1] = k
    OBVIOUS
  <2> HIDE DEF y
  <2>2. KeysOf(H \cup {y}) = KeysOf(H) \cup {y[1]}
    BY DEF KeysOf
  <2> QED
    BY <2>1, <2>2 DEF y
<1>2. DOMAIN m = KeysOf(H)
  BY DEF Maps
<1>3. w = [x \in KeysOf(G) |-> IF x = k THEN v ELSE m[x]]
  BY <1>1, <1>2 DEF Put
<1> HIDE DEF w
<1>4. \A x \in H : x[1] \in KeysOf(H)
  BY DEF KeysOf
<1>5. ASSUME NEW x \in G PROVE w[x[1]] = x[2]
  <2>1. CASE x \in H
    BY <1>1, <1>3, <1>4, <2>1 DEF Maps
  <2>2. CASE x = <<k, v>>
    BY <1>1, <1>3, <2>2
  <2> QED
    BY <2>1, <2>2
<1>6. w = [x \in KeysOf(G) |-> w[x]]
  BY <1>3
<1> QED
  BY <1>5, <1>6 DEF Maps, w

(* ... one with another value, ...                                         *)
LEMMA MapsReplaced ==
  ASSUME NEW H, Keyed(H), NEW m, Maps(m, H), NEW x \in H, NEW v
  PROVE  Maps(Put(m, x[1], v), (H \ {x}) \cup {<<x[1], v>>})
<1> DEFINE k == x[1]
           w == Put(m, k, v)
           G == (H \ {x}) \cup {<<k, v>>}
<1>1. k \in KeysOf(H) /\ DOMAIN m = KeysOf(H)
  BY DEF Maps, KeysOf
<1>2. \A y \in H : y # x => y[1] # k
  BY DEF Keyed
<1> HIDE DEF k
<1>3. KeysOf(G) = KeysOf(H)
  <2>1. \A y \in H : y[1] \in KeysOf(G)
    <3> SUFFICES ASSUME NEW y \in H PROVE y[1] \in KeysOf(G)
      OBVIOUS
    <3>1. CASE y = x
      <4>1. <<k, v>> \in G /\ <<k, v>>[1] = y[1]
        BY <3>1 DEF k
      <4> QED
        BY <4>1 DEF KeysOf
    <3>2. CASE y # x
      BY <3>2 DEF KeysOf
    <3> QED
      BY <3>1, <3>2
  <2>2. \A y \in G : y[1] \in KeysOf(H)
    BY <1>1 DEF KeysOf
  <2> QED
    BY <2>1, <2>2 DEF KeysOf
<1>4. w = [y \in KeysOf(G) |-> IF y = k THEN v ELSE m[y]]
  BY <1>1, <1>3 DEF Put
<1> HIDE DEF w
<1>5. ASSUME NEW y \in G PROVE w[y[1]] = y[2]
  <2>1. y[1] \in KeysOf(G)
    BY DEF KeysOf
  <2>2. CASE y \in H /\ y # x
    BY <1>2, <1>4, <2>1, <2>2 DEF Maps
  <2>3. CASE y = <<k, v>>
    BY <1>4, <2>1, <2>3
  <2> QED
    BY <2>2, <2>3
<1>6. w = [y \in KeysOf(G) |-> w[y]]
  BY <1>4
<1> QED
  BY <1>5, <1>6 DEF Maps, w, k

(* ... and some of them alone.                                             *)
LEMMA MapsSome ==
  ASSUME NEW H, Keyed(H), NEW m, Maps(m, H), NEW G, G \subseteq H
  PROVE  Maps(Restrict(m, KeysOf(G)), G)
<1> DEFINE w == Restrict(m, KeysOf(G))
<1>1. w = [k \in KeysOf(G) |-> m[k]]
  BY DEF Restrict
<1> HIDE DEF w
<1>2. ASSUME NEW x \in G PROVE w[x[1]] = x[2]
  <2>1. x[1] \in KeysOf(G)
    BY DEF KeysOf
  <2> QED
    BY <1>1, <2>1 DEF Maps
<1>3. w = [k \in KeysOf(G) |-> w[k]]
  BY <1>1
<1> QED
  BY <1>2, <1>3 DEF Maps, w

(* The keys of some of the elements.                                       *)
LEMMA KeysSome ==
  ASSUME NEW H, Keyed(H), NEW G, G \subseteq H
  PROVE  KeysOf(G) \subseteq KeysOf(H) /\ KeysOf(H \ G) = KeysOf(H) \ KeysOf(G)
  BY DEF KeysOf, Keyed

(* Elements that come to those there are, with keys of their own.          *)
LEMMA MapsMerged ==
  ASSUME NEW H, NEW m, Maps(m, H), NEW G, NEW o, Maps(o, G), KeysOf(H) \cap KeysOf(G) = {}
  PROVE  Maps(MergedInto(m, o), H \cup G)
<1> DEFINE w == MergedInto(m, o)
<1>1. KeysOf(H \cup G) = KeysOf(H) \cup KeysOf(G)
  BY DEF KeysOf
<1>2. DOMAIN m = KeysOf(H) /\ DOMAIN o = KeysOf(G)
  BY DEF Maps
<1>3. w = [k \in KeysOf(H \cup G) |-> IF k \in KeysOf(H) THEN m[k] ELSE o[k]]
  BY <1>1, <1>2 DEF MergedInto
<1> HIDE DEF w
<1>4. ASSUME NEW x \in H \cup G PROVE w[x[1]] = x[2]
  <2>1. CASE x \in H
    <3>1. x[1] \in KeysOf(H)
      BY <2>1 DEF KeysOf
    <3> QED
      BY <1>1, <1>3, <2>1, <3>1 DEF Maps
  <2>2. CASE x \in G
    <3>1. x[1] \in KeysOf(G) /\ x[1] \notin KeysOf(H)
      BY <2>2 DEF KeysOf
    <3> QED
      BY <1>1, <1>3, <2>2, <3>1 DEF Maps
  <2> QED
    BY <2>1, <2>2
<1>5. w = [k \in KeysOf(H \cup G) |-> w[k]]
  BY <1>3
<1> QED
  BY <1>4, <1>5 DEF Maps, w

-----------------------------------------------------------------------------
(* What calls do to maps with keys in K and values in V.                   *)

MapsIn(m, K, V) == DOMAIN m \subseteq K /\ \A k \in DOMAIN m : m[k] \in V

PutStep(a, a2, K, V) == \E k \in K, v \in V : a2 = Put(a, k, v)

RemoveStep(a, a2) == a2 = Restrict(a, DOMAIN a \cap DOMAIN a2)

FillStep(a, a2, K, V) == MapsIn(a2, K, V) /\ a2 = MergedInto(a, a2)

OneStep(a, a2, K, V) == PutStep(a, a2, K, V) \/ RemoveStep(a, a2) \/ FillStep(a, a2, K, V)

(* What a merge makes of two maps: the first keeps what it had and takes   *)
(* all that the other loses, and the other loses no key of the first.      *)
MergedMaps(m, o, to, from) ==
  /\ to = MergedInto(m, Without(o, DOMAIN from))
  /\ from = Without(o, DOMAIN to \ DOMAIN m)
  /\ DOMAIN from \subseteq DOMAIN o /\ DOMAIN m \cap DOMAIN o \subseteq DOMAIN from
  /\ from = Restrict(o, DOMAIN from)

MapStep(a, b, a2, b2, K, V) ==
  \/ OneStep(a, a2, K, V) /\ b2 = b
  \/ OneStep(b, b2, K, V) /\ a2 = a
  \/ a2 = b /\ b2 \in {a, b, NoKeys}
  \/ b2 = a /\ a2 \in {a, NoKeys}
  \/ MergedMaps(a, b, a2, b2)

(* Fewer elements are what is left of the map, ...                         *)
LEMMA MapsRemoved ==
  ASSUME NEW H, Keyed(H), NEW m, Maps(m, H), NEW G, G \subseteq H, NEW w, Maps(w, G)
  PROVE  RemoveStep(m, w)
<1>1. DOMAIN m = KeysOf(H) /\ DOMAIN w = KeysOf(G)
  BY DEF Maps
<1>2. Maps(Restrict(m, KeysOf(G)), G)
  BY MapsSome
<1>3. w = Restrict(m, KeysOf(G))
  BY <1>2, MapsUnique
<1>4. KeysOf(H) \cap KeysOf(G) = KeysOf(G)
  BY DEF KeysOf
<1> QED
  BY <1>1, <1>3, <1>4 DEF RemoveStep

(* ... more of them the map and what has come to it, ...                   *)
LEMMA MapsFilled ==
  ASSUME NEW K, NEW V, NEW H, NEW m, Maps(m, H), NEW G, G \subseteq K \X V, H \subseteq G, NEW w, Maps(w, G)
  PROVE  FillStep(m, w, K, V)
<1>1. DOMAIN m = KeysOf(H) /\ DOMAIN w = KeysOf(G)
  BY DEF Maps
<1>2. \A k \in KeysOf(H) : k \in KeysOf(G) /\ m[k] = w[k]
  BY DEF KeysOf, Maps
<1>3. MergedInto(m, w) = [k \in KeysOf(G) |-> w[k]]
  <2>1. KeysOf(H) \cup KeysOf(G) = KeysOf(G)
    BY <1>2
  <2>2. MergedInto(m, w) = [k \in KeysOf(G) |-> IF k \in KeysOf(H) THEN m[k] ELSE w[k]]
    BY <1>1, <2>1 DEF MergedInto
  <2> QED
    BY <1>2, <2>2
<1>4. w = [k \in KeysOf(G) |-> w[k]]
  BY DEF Maps
<1>5. MapsIn(w, K, V)
  <2>1. \A x \in G : x[1] \in K /\ x[2] \in V /\ w[x[1]] = x[2]
    BY DEF Maps
  <2>2. \A k \in KeysOf(G) : k \in K /\ w[k] \in V
    BY <2>1 DEF KeysOf
  <2> QED
    BY <1>1, <2>2 DEF MapsIn
<1> QED
  BY <1>3, <1>4, <1>5 DEF FillStep

(* ... and those of two that were merged are theirs.                       *)
LEMMA MapsOfMerged ==
  ASSUME NEW H, NEW m, Maps(m, H), NEW G, Keyed(G), NEW o, Maps(o, G), NEW F, F \subseteq G,
         \A x \in G \ F : x[1] \notin KeysOf(H),
         NEW m2, Maps(m2, H \cup (G \ F)), NEW o2, Maps(o2, F)
  PROVE  MergedMaps(m, o, m2, o2)
<1> DEFINE L == G \ F
<1>2. DOMAIN m = KeysOf(H) /\ DOMAIN o = KeysOf(G) /\ DOMAIN m2 = KeysOf(H \cup L) /\ DOMAIN o2 = KeysOf(F)
  BY DEF Maps
<1>4. KeysOf(H) \cap KeysOf(L) = {}
  BY DEF KeysOf
<1>5. KeysOf(F) \subseteq KeysOf(G) /\ KeysOf(L) = KeysOf(G) \ KeysOf(F)
  BY KeysSome
<1>6. KeysOf(H \cup L) = KeysOf(H) \cup KeysOf(L)
  BY DEF KeysOf
<1>7. Maps(Restrict(o, KeysOf(L)), L) /\ Maps(Restrict(o, KeysOf(F)), F)
  <2>1. L \subseteq G
    OBVIOUS
  <2> HIDE DEF L
  <2> QED
    BY <2>1, MapsSome
<1>0. Maps(m2, H \cup L)
  OBVIOUS
<1> HIDE DEF L
<1>8. m2 = MergedInto(m, Restrict(o, KeysOf(L)))
  <2> DEFINE w == Restrict(o, KeysOf(L))
  <2>1. Maps(w, L)
    BY <1>7
  <2> HIDE DEF w
  <2>2. Maps(MergedInto(m, w), H \cup L)
    BY <1>2, <1>4, <2>1, MapsMerged
  <2>3. m2 = MergedInto(m, w)
    BY <1>0, <2>2, MapsUnique
  <2> QED
    BY <2>3 DEF w
<1>9. o2 = Restrict(o, KeysOf(F))
  BY <1>7, MapsUnique
<1>10. m2 = MergedInto(m, Without(o, DOMAIN o2))
  <2>1. DOMAIN o \ DOMAIN o2 = KeysOf(L)
    BY <1>2, <1>5
  <2> QED
    BY <1>8, <2>1 DEF Without
<1>11. o2 = Without(o, DOMAIN m2 \ DOMAIN m)
  <2>1. DOMAIN o \ (DOMAIN m2 \ DOMAIN m) = KeysOf(F)
    BY <1>2, <1>4, <1>5, <1>6
  <2> QED
    BY <1>9, <2>1 DEF Without
<1>12. DOMAIN o2 \subseteq DOMAIN o /\ DOMAIN m \cap DOMAIN o \subseteq DOMAIN o2
  BY <1>2, <1>4, <1>5
<1>13. o2 = Restrict(o, DOMAIN o2)
  BY <1>2, <1>9
<1> QED
  BY <1>10, <1>11, <1>12, <1>13 DEF MergedMaps
==============================================================================
