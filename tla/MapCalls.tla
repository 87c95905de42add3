------------------------------- MODULE MapCalls -------------------------------
(* What the calls on acul's associative containers make of the finite map  *)
(* from keys to values that a container holds, whatever buckets, chains or *)
(* probe sequences the container is made of.                               *)
EXTENDS Functions

NoKeys == [k \in {} |-> {}]

(* emplace, insert and operator[] leave a value that exists alone ...      *)
PutIfAbsent(m, k, v) == IF k \in DOMAIN m THEN m ELSE [x \in DOMAIN m \cup {k} |-> IF x = k THEN v ELSE m[x]]

(* ... insert_or_assign replaces it.                                       *)
Put(m, k, v) == [x \in DOMAIN m \cup {k} |-> IF x = k THEN v ELSE m[x]]

Without(m, ks) == Restrict(m, DOMAIN m \ ks)

(* What the first of two merged containers holds, and what is left.        *)
MergedInto(m, from) == [k \in DOMAIN m \cup DOMAIN from |-> IF k \in DOMAIN m THEN m[k] ELSE from[k]]

LeftBehind(m, from) == Restrict(from, DOMAIN from \cap DOMAIN m)
=============================================================================
