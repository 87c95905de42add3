--------------------------------- MODULE Seqs ---------------------------------
(* What acul's sequence containers promise: a container holds a sequence,   *)
(* and a call replaces it by the one these operators give, whatever nodes,  *)
(* blocks or buffers the container is made of.  Positions are those before  *)
(* which something stands: 0 is the front, Len(s) the end.                  *)
EXTENDS Integers, Sequences

UpTo(s, i) == SubSeq(s, 1, i)

After(s, i) == SubSeq(s, i + 1, Len(s))

Repeated(n, v) == [i \in 1 .. n |-> v]

WithInserted(s, i, t) == UpTo(s, i) \o t \o After(s, i)

WithoutPart(s, i, j) == UpTo(s, i) \o After(s, j)

Resized(s, n, v) == IF n <= Len(s) THEN UpTo(s, n) ELSE s \o Repeated(n - Len(s), v)

WithoutValue(s, v) == SelectSeq(s, LAMBDA x : x # v)

(* An element stays unless it equals the one before it.                     *)
Deduplicated(s) ==
  LET kept == SelectSeq([i \in 1 .. Len(s) |-> i], LAMBDA i : i = 1 \/ s[i] # s[i - 1])
  IN [j \in 1 .. Len(kept) |-> s[kept[j]]]

Reversed(s) == [i \in 1 .. Len(s) |-> s[Len(s) + 1 - i]]

InOrder(s) == \A i \in 1 .. Len(s) - 1 : s[i] <= s[i + 1]

SameElements(s, t) ==
  LET Times(q, v) == Len(SelectSeq(q, LAMBDA x : x = v))
  IN Len(s) = Len(t) /\ \A i \in 1 .. Len(s) : Times(s, s[i]) = Times(t, s[i])

(* A merge keeps every element and gives an ordered sequence of two.        *)
IsMergeOf(r, s, t) == SameElements(r, s \o t) /\ (InOrder(s) /\ InOrder(t) => InOrder(r))
=============================================================================
