-------------------------------- MODULE Alloc --------------------------------
(* The sizes that acul's containers grow to (memory/alloc.hpp).            *)
EXTENDS Integers

(* What a search from below comes to first.                                *)
FirstOf(S) == CHOOSE c \in S : \A d \in S : c <= d

(* get_growth_size: twice what there is, at least 8, at least enough.      *)
GrowthSize(size, least) ==
  CHOOSE n \in {2 * size, 8, least} : \A m \in {2 * size, 8, least} : n >= m

(* get_growth_size_aligned: 8, or the power of two that is large enough    *)
(* (the bound stands for 31, which TLC's integers do not reach).           *)
Powers == LET power[e \in 0 .. 30] == IF e = 0 THEN 1 ELSE 2 * power[e - 1] IN power

GrowthSizeAligned(x) == CHOOSE p \in {Powers[e] : e \in 3 .. 30} : p >= x /\ (p = 8 \/ p \div 2 < x)
=============================================================================
