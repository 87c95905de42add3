------------------------------- MODULE HlTable -------------------------------
(***************************************************************************)
(* acul::detail::raw_hl_hashtable, the open-addressed table behind         *)
(* hl_hashmap and hl_hashset.  A control byte per bucket is EMPTY or a tag *)
(* of the key's hash; a probe starts at the key's home bucket and reads    *)
(* the control bytes a group at a time, wrapping round through a mirror of *)
(* the first group behind the last bucket; a removal shifts the elements   *)
(* behind it back.                                                         *)
(*                                                                         *)
(* A tag only decides which candidates are compared, and two keys are      *)
(* compared before one is taken for the other, so a tag stands here for    *)
(* what else depends on it: whether it is below EMPTY, as the loops that   *)
(* test `< 0x7F' take for granted.  The lookups read the control bytes of  *)
(* a moved-from table and are not called on one.                           *)
(***************************************************************************)
EXTENDS Alloc, MapCalls, Sequences, FiniteSets

CONSTANTS Keys, Mapped,
          Home,             (* the hash of every key, as shifted for h1     *)
          HighTags,         (* the keys with a tag above EMPTY              *)
          GroupSizes,       (* AHM_HL_GROUP_SIZE, 32: a smaller one stands  *)
                            (* for a table of several groups                *)
          ScanBlock,        (* CTRL_SCAN_BLOCK_SIZE: 16 (SSE2) or 32 (AVX2) *)
          FirstLists,       (* the lists tables are constructed from        *)
          HlLists,            (* the lists others are, and insert() is given  *)
          FreeBucket,       (* no element                                   *)
          Counts,           (* what rehash() and reserve() are called with  *)
          MaxBuckets,       (* bound: the client asks for no more           *)
          MaxElements       (* bound: elements of the table                 *)

HlLoadFactor == 80          (* AHM_HL_LOAD_FACTOR                           *)

VARIABLES hl,               (* the client's table                           *)
          hl_other          (* a second one, while a call of two needs it   *)

hl_vars == <<hl, hl_other>>

-----------------------------------------------------------------------------
(* A table: its elements by bucket and its control bytes.  Those behind    *)
(* the mirror are EMPTY for good.                                          *)

Empty == "EMPTY"

Tag(k) == IF k \in HighTags THEN "high" ELSE "low"

HlEmptyTable(n, g) ==
  [vals |-> [i \in 0 .. n - 1 |-> FreeBucket], ctrl |-> [i \in 0 .. n + g - 1 |-> Empty],
   n |-> n, g |-> g, filled |-> 0]

HlNoTable(g) == [vals |-> <<>>, ctrl |-> <<>>, n |-> 0, g |-> g, filled |-> 0]

Ctrl(tb, i) == IF i < tb.n + tb.g THEN tb.ctrl[i] ELSE Empty

HomeOf(tb, k) == Home[k] % tb.n

GroupBase(tb, i) == i - (i % tb.g)

(* Mutant: the mirror of the first group is left as it was.                *)
SetCtrlUnmirrored(tb, i, tag) == [tb EXCEPT !.ctrl[i] = tag]

(* set_ctrl, and the two writes that clear a control byte.                 *)
SetCtrl(tb, i, tag) ==
  IF i < tb.g THEN [tb EXCEPT !.ctrl[i] = tag, !.ctrl[tb.n + i] = tag] ELSE [tb EXCEPT !.ctrl[i] = tag]

PutAt(tb, i, k, v) == SetCtrl([tb EXCEPT !.vals[i] = <<k, v>>], i, Tag(k))

ClearAt(tb, i) == SetCtrl([tb EXCEPT !.vals[i] = FreeBucket], i, Empty)

HlOccupied(tb) == {i \in DOMAIN tb.vals : tb.ctrl[i] # Empty}

-----------------------------------------------------------------------------
(* Probing.  masks64_tag_empty gives the control bytes of two groups, the   *)
(* second of which may reach over the end of the table; the next two begin *)
(* where these end.  The bytes before the home bucket are left out.        *)

GroupAt(tb, k, j) == ((GroupBase(tb, HomeOf(tb, k)) + 2 * tb.g * (j \div 2)) % tb.n) + ((j % 2) * tb.g)

GroupBytes(tb, k, j) ==
  LET b == GroupAt(tb, k, j) IN (IF j = 0 THEN b + (HomeOf(tb, k) % tb.g) ELSE b) .. b + tb.g - 1

Empties(tb, k, j) == {c \in GroupBytes(tb, k, j) : Ctrl(tb, c) = Empty}

Matches(tb, k, j) ==
  {c \in GroupBytes(tb, k, j) :
     Ctrl(tb, c) = Tag(k) /\ tb.vals[c % tb.n] # FreeBucket /\ tb.vals[c % tb.n][1] = k}

BeforeFirstEmpty(tb, k, j) == {c \in Matches(tb, k, j) : \A d \in Empties(tb, k, j) : c < d}

(* A probe goes on until a group shows the key or an EMPTY, at most to the *)
(* last group it reads.                                                    *)
Decides(tb, k, j) == Matches(tb, k, j) # {} \/ Empties(tb, k, j) # {}

ProbeEnd(tb, k, last) ==
  CHOOSE j \in 0 .. last : (j = last \/ Decides(tb, k, j)) /\ \A i \in 0 .. j - 1 : ~ Decides(tb, k, i)

(* bucket(): where a key is, or the number of buckets.  Behind the first   *)
(* two groups, find_fallback_primary looks for the key before it looks for *)
(* an EMPTY, and goes on until it has walked further than the table.       *)
HlBucket(tb, k) ==
  LET j == ProbeEnd(tb, k, 2 * (tb.n \div (2 * tb.g)) + 3)
      found == IF j < 2 THEN BeforeFirstEmpty(tb, k, j) ELSE Matches(tb, k, j)
  IN IF found = {} THEN tb.n ELSE FirstOf(found) % tb.n

-----------------------------------------------------------------------------
(* Growing and inserting.                                                  *)

HlGetNextCapacity(tb) == IF tb.n < 16384 THEN tb.n * 4 ELSE tb.n + 1

(* The first free bucket from the home bucket on: what the free masks of   *)
(* rehash() give.                                                          *)
FirstFreeFrom(tb, pos) ==
  (pos + FirstOf({d \in 0 .. tb.n - 1 : tb.ctrl[(pos + d) % tb.n] = Empty})) % tb.n

(* rehash: the elements of the old buckets, in their order.                *)
HlTaken(tb, e) == [PutAt(tb, FirstFreeFrom(tb, HomeOf(tb, e[1])), e[1], e[2]) EXCEPT !.filled = @ + 1]

HlMoves(tb, n) ==
  LET moved[i \in 0 .. tb.n] ==
        IF i = 0 THEN HlEmptyTable(n, tb.g)
        ELSE IF tb.ctrl[i - 1] = Empty THEN moved[i - 1] ELSE HlTaken(moved[i - 1], tb.vals[i - 1])
  IN moved

HlRehashed(tb, required) ==
  HlMoves(tb, GrowthSizeAligned(IF required < tb.filled THEN tb.filled ELSE required))[tb.n]

HlGrown(tb) == HlRehashed(tb, HlGetNextCapacity(tb))

(* reserve.                                                                *)
HlReserved(tb, n) ==
  LET need == (n * 100 + HlLoadFactor - 1) \div HlLoadFactor
  IN IF n = 0 THEN tb ELSE HlRehashed(tb, IF need < 8 THEN 8 ELSE need)

(* The loop of emplace_impl ends in the group that decides, ...            *)
HlProbed(tb, k, v, j) ==
  LET found == BeforeFirstEmpty(tb, k, j)
      at == FirstOf(IF found # {} THEN found ELSE Empties(tb, k, j)) % tb.n
  IN IF found # {} THEN [tb |-> tb, pos |-> at, inserted |-> FALSE]
     ELSE [tb |-> [PutAt(tb, at, k, v) EXCEPT !.filled = @ + 1], pos |-> at, inserted |-> TRUE]

(* ... but when it is back at the first, the table grows, and one that has *)
(* just grown shows an EMPTY.                                              *)
LastGroup(tb) == IF tb.n <= 2 * tb.g THEN 1 ELSE tb.n \div tb.g - 1

HlEmplaceImpl(tb, k, v) ==
  LET j == ProbeEnd(tb, k, LastGroup(tb))
      grown == HlGrown(tb)
  IN IF Decides(tb, k, j) THEN HlProbed(tb, k, v, j)
     ELSE HlProbed(grown, k, v, ProbeEnd(grown, k, LastGroup(grown)))

(* emplace(), which insert() and operator[] call.                          *)
HlEmplaced(tb, k, v) ==
  HlEmplaceImpl(IF (tb.filled + 1) * 100 >= tb.n * HlLoadFactor THEN HlGrown(tb) ELSE tb, k, v)

(* insert_or_assign: a key that is there is assigned before the table may  *)
(* grow.                                                                   *)
HlAssigned(tb, k, v) ==
  LET at == HlBucket(tb, k)
  IN IF at # tb.n THEN [tb EXCEPT !.vals[at] = <<@[1], v>>] ELSE HlEmplaced(tb, k, v).tb

(* insert() of a range or a list.                                          *)
HlInserts(tb, s) ==
  LET into[i \in 0 .. Len(s)] == IF i = 0 THEN tb ELSE HlEmplaced(into[i - 1], s[i][1], s[i][2]).tb IN into

HlInsertedRange(tb, s) == HlInserts(tb, s)[Len(s)]

(* The constructors from a list or a range.                                *)
HlConstructed(g, s) ==
  HlInsertedRange(HlReserved(HlNoTable(g), IF Len(s) > 8 THEN Len(s) ELSE 8), s)

-----------------------------------------------------------------------------
(* Removal by backward shift.                                              *)

Distance(tb, i) == (i - HomeOf(tb, tb.vals[i][1])) % tb.n

Refilled(s) == ClearAt(PutAt(s.tb, s.hole, s.tb.vals[s.i][1], s.tb.vals[s.i][2]), s.i)

(* Mutant: an element at its distance from home is not shifted.            *)
ShiftBackStrict(s) ==
  LET next == (s.i + 1) % s.tb.n
      gap == (s.i - s.hole) % s.tb.n
  IN IF s.tb.ctrl[s.i] = Empty THEN s
     ELSE IF Distance(s.tb, s.i) > gap THEN [tb |-> Refilled(s), hole |-> s.i, i |-> next]
     ELSE [s EXCEPT !.i = next]

(* One round of the loop of erase() and extract(), which ends at an EMPTY: *)
(* the next element that may be as near to its home as the hole is moves   *)
(* into it and leaves a hole.                                              *)
ShiftBack(s) ==
  LET next == (s.i + 1) % s.tb.n
      gap == (s.i - s.hole) % s.tb.n
  IN IF s.tb.ctrl[s.i] = Empty THEN s
     ELSE IF Distance(s.tb, s.i) >= gap THEN [tb |-> Refilled(s), hole |-> s.i, i |-> next]
     ELSE [s EXCEPT !.i = next]

(* How far the elements are from home.  Every move takes one of them       *)
(* nearer, by as many buckets as the loop has gone since the move before;  *)
(* so the loop has ended after as many rounds, and once round the table.   *)
Away(tb) == UNION {{<<tb.vals[i][1], d>> : d \in 1 .. Distance(tb, i)} : i \in HlOccupied(tb)}

ShiftRounds(tb, at) ==
  LET round[r \in 0 .. Cardinality(Away(tb)) + tb.n] ==
        IF r = 0 THEN [tb |-> tb, hole |-> at, i |-> (at + 1) % tb.n] ELSE ShiftBack(round[r - 1])
  IN round

HlShifted(tb, at) == ShiftRounds(tb, at)[Cardinality(Away(tb)) + tb.n].tb

HlErasedAt(tb, i) == [HlShifted(ClearAt(tb, i), i) EXCEPT !.filled = @ - 1]

(* erase(key) and extract().                                               *)
HlErased(tb, k) == LET at == HlBucket(tb, k) IN IF at = tb.n THEN tb ELSE HlErasedAt(tb, at)

-----------------------------------------------------------------------------
(* Iteration: a whole block is compared with EMPTY, the bytes before an    *)
(* aligned one and behind the last whole one are tested with "<".          *)

InWholeBlock(tb, i) == i - (i % ScanBlock) + ScanBlock <= tb.n

Seen(tb, i) == tb.ctrl[i] # Empty /\ (InWholeBlock(tb, i) \/ tb.ctrl[i] = "low")

(* ctrl_skip_to_valid.                                                     *)
CtrlSkipToValid(tb, i) ==
  LET aligned == IF i % ScanBlock = 0 THEN i ELSE i - (i % ScanBlock) + ScanBlock
      seen == {j \in i .. tb.n - 1 : IF j < aligned THEN tb.ctrl[j] = "low" ELSE Seen(tb, j)}
  IN IF seen = {} THEN tb.n ELSE FirstOf(seen)

(* What a loop from begin() to end() visits: begin(), then every bucket    *)
(* that ctrl_init_mask_from_current and ctrl_block_mask show.              *)
Visited(tb) ==
  LET begin == CtrlSkipToValid(tb, 0) IN {j \in 0 .. tb.n - 1 : j = begin \/ (j > begin /\ Seen(tb, j))}

(* merge(): the loop goes on at the next bucket although extract() may     *)
(* have shifted an element into this one.                                  *)
HlMergeOne(both, i) ==
  LET e == both.from.vals[i]
      stays == both.from.ctrl[i] # "low" \/ HlBucket(both.to, e[1]) < both.to.n
  IN IF stays THEN both
     ELSE [to |-> HlEmplaced(both.to, e[1], e[2]).tb, from |-> HlErased(both.from, e[1])]

HlMerges(to, from) ==
  LET both[i \in 0 .. from.n] ==
        IF i = 0 THEN [to |-> to, from |-> from] ELSE HlMergeOne(both[i - 1], i - 1)
  IN both

HlMerged(to, from) == HlMerges(to, from)[from.n]

(* clear().                                                                *)
HlCleared(tb) == HlEmptyTable(tb.n, tb.g)

-----------------------------------------------------------------------------
(* The client, as of ChainedTable.                                         *)

HlFits(tb) == tb.n <= MaxBuckets /\ tb.filled <= MaxElements

HlAlone == hl_other.n = 0

HlInit ==
  \E g \in GroupSizes :
    hl \in {HlConstructed(g, s) : s \in FirstLists} /\ hl_other = HlNoTable(g)

HlBecomes(tb) == HlAlone /\ HlFits(tb) /\ hl' = tb /\ UNCHANGED hl_other

HlEmplace(k, v) == HlBecomes(HlEmplaced(hl, k, v).tb)

HlInsertOrAssign(k, v) == hl.n > 0 /\ HlBecomes(HlAssigned(hl, k, v))

HlInsertRange(s) == HlBecomes(HlInsertedRange(hl, s))

HlEraseKey(k) == hl.n > 0 /\ HlBecomes(HlErased(hl, k))

HlEraseAt(i) == HlBecomes(HlErasedAt(hl, i))

HlClear == hl.n > 0 /\ HlBecomes(HlCleared(hl))

HlRehash(n) == HlBecomes(HlRehashed(hl, n))

HlReserve(n) == HlBecomes(HlReserved(hl, n))

HlConstruct(s) == HlAlone /\ hl_other' = HlConstructed(hl.g, s) /\ UNCHANGED hl

(* The copy constructor, for a value_type that is copied bytewise.         *)
HlCopyConstruct == HlAlone /\ hl.n > 0 /\ hl_other' = hl /\ UNCHANGED hl

HlMoveConstruct == HlAlone /\ hl.n > 0 /\ hl_other' = hl /\ hl' = HlNoTable(hl.g)

HlCopyAssign == ~ HlAlone /\ hl' = hl_other /\ UNCHANGED hl_other

HlMoveAssign == ~ HlAlone /\ hl' = hl_other /\ hl_other' = HlNoTable(hl.g)

HlSwap == ~ HlAlone /\ hl' = hl_other /\ hl_other' = hl

HlMerge ==
  /\ ~ HlAlone /\ hl.n > 0
  /\ \E both \in {HlMerged(hl, hl_other)} : HlFits(both.to) /\ hl' = both.to /\ hl_other' = both.from

HlDestroy == ~ HlAlone /\ hl_other' = HlNoTable(hl.g) /\ UNCHANGED hl

HlNext ==
  \/ \E k \in Keys, v \in Mapped : HlEmplace(k, v) \/ HlInsertOrAssign(k, v)
  \/ \E s \in HlLists : HlInsertRange(s)
  \/ \E k \in Keys : HlEraseKey(k)
  \/ \E i \in HlOccupied(hl) : HlEraseAt(i)
  \/ HlClear
  \/ \E n \in Counts : HlRehash(n) \/ HlReserve(n)
  \/ \E s \in HlLists : HlConstruct(s)
  \/ HlCopyConstruct \/ HlMoveConstruct \/ HlCopyAssign \/ HlMoveAssign \/ HlSwap \/ HlMerge \/ HlDestroy

HlSpec == HlInit /\ [][HlNext]_hl_vars
-----------------------------------------------------------------------------
(* Properties.                                                             *)

HlContent(tb) ==
  [k \in {tb.vals[i][1] : i \in HlOccupied(tb)} |->
     tb.vals[CHOOSE i \in HlOccupied(tb) : tb.vals[i][1] = k][2]]

(* What every probe relies on: the control bytes say which buckets hold an *)
(* element, the mirror repeats those of the first group, the elements are  *)
(* counted, no key is there twice, and no bucket between an element and    *)
(* its home is EMPTY.                                                      *)
ProbesUnbroken(tb) ==
  /\ \A i \in DOMAIN tb.vals : tb.ctrl[i] = IF tb.vals[i] = FreeBucket THEN Empty ELSE Tag(tb.vals[i][1])
  /\ \A i \in DOMAIN tb.ctrl : i >= tb.n => tb.ctrl[i] = IF i - tb.n < tb.n THEN tb.ctrl[i - tb.n] ELSE Empty
  /\ tb.filled = Cardinality(HlOccupied(tb))
  /\ \A i, j \in HlOccupied(tb) : tb.vals[i][1] = tb.vals[j][1] => i = j
  /\ \A i \in HlOccupied(tb) :
       LET home == HomeOf(tb, tb.vals[i][1])
       IN \A d \in 0 .. (i - home) % tb.n : tb.ctrl[(home + d) % tb.n] # Empty

HlProbesUnbroken == ProbesUnbroken(hl) /\ ProbesUnbroken(hl_other)

(* Every call has exactly the effect on the map that its arguments ask     *)
(* for: a lookup that reads groups, wraps round through the mirror and     *)
(* stops at the first EMPTY misses no key and finds none that was removed, *)
(* and a loop over a table of at least one block visits every element.     *)
HlCallsAgree ==
  LET m == HlContent(hl) IN
  /\ hl.n > 0 => \A k \in Keys :
       /\ HlBucket(hl, k) # hl.n <=> k \in DOMAIN m
       /\ HlContent(HlErased(hl, k)) = Without(m, {k})
       /\ \A v \in Mapped : HlContent(HlAssigned(hl, k, v)) = Put(m, k, v)
  /\ \A k \in Keys, v \in Mapped :
       \E put \in {HlEmplaced(hl, k, v)} :
          /\ HlContent(put.tb) = PutIfAbsent(m, k, v)
          /\ put.inserted <=> k \notin DOMAIN m
          /\ put.tb.vals[put.pos][1] = k
  /\ \A i \in HlOccupied(hl) : HlContent(HlErasedAt(hl, i)) = Without(m, {hl.vals[i][1]})
  /\ \A n \in Counts : HlContent(HlRehashed(hl, n)) = m
  /\ hl.n >= ScanBlock => Visited(hl) = HlOccupied(hl)

(* What a merge makes of the maps m and o: the first takes all that the    *)
(* second loses, and the second keeps all that the first did not take.     *)
NothingLost(m, o, to, from) ==
  /\ to = MergedInto(m, Without(o, DOMAIN from))
  /\ from = Without(o, DOMAIN to \ DOMAIN m)

(* merge() takes nothing that is here already, and what it does not take   *)
(* stays in the other table: it may leave more behind than it has to, but  *)
(* never loses or doubles an element.                                      *)
HlMergeLosesNothing ==
  hl.n > 0 => \E both \in {HlMerged(hl, hl_other)} :
                NothingLost(HlContent(hl), HlContent(hl_other), HlContent(both.to), HlContent(both.from))
=============================================================================
