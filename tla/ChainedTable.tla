----------------------------- MODULE ChainedTable -----------------------------
(***************************************************************************)
(* acul::detail::raw_hashtable, the table behind hashmap and hashset: one  *)
(* array of buckets in which the elements of a main bucket form a chain.   *)
(* The chain starts in the main bucket itself and its last element points  *)
(* to itself, so an element that sits in somebody else's main bucket is    *)
(* kicked out when that bucket's first key arrives.                        *)
(*                                                                         *)
(* The calls are sequential.  A table is a record; a moved-from table has  *)
(* no buckets.  The lookups that dereference the bucket array of such a    *)
(* table (bucket, find, contains, count, at) are not called on it.         *)
(***************************************************************************)
EXTENDS Alloc, MapCalls, Sequences, FiniteSets

CONSTANTS Keys, Values,
          Background,       (* bound: keys no call but a constructor's names *)
          Hash,             (* hasher: the hash of every key                *)
          Initials,         (* the lists tables are constructed from        *)
          Ranges,           (* the lists that insert(range) is given        *)
          Free,             (* AHM_INACTIVE                                 *)
          Sizes,            (* what rehash() and reserve() are called with  *)
          MaxBuckets,       (* bound: the client asks for no more           *)
          MaxElements       (* bound: other elements of the table           *)

LoadFactor == 75            (* AHM_LOAD_FACTOR                              *)

VARIABLES tab,              (* the client's table                           *)
          tab_other         (* a second one, while a call of two needs it   *)

vars == <<tab, tab_other>>

-----------------------------------------------------------------------------
(* The buckets.  A bucket is Free or holds an element and the index of the *)
(* next bucket of its chain.                                               *)

EmptyTable(n) == [slot |-> [i \in 0 .. n - 1 |-> Free], n |-> n, filled |-> 0, last |-> 0]

NoTable == EmptyTable(0)

GetNextCapacity(tb) == IF tb.n < 256 THEN tb.n * 4 ELSE tb.n + 1

Full(tb, count) == count * 100 >= tb.n * LoadFactor

KeyToBucket(tb, k) == Hash[k] % tb.n

IsEmpty(tb, i) == tb.slot[i] = Free

Occupied(tb) == {i \in DOMAIN tb.slot : ~ IsEmpty(tb, i)}

MainBucket(tb, i) == KeyToBucket(tb, tb.slot[i].k)

NextBucket(tb, i) == tb.slot[i].nx

IsTail(tb, i) == NextBucket(tb, i) = i

Node(k, v, nx) == [k |-> k, v |-> v, nx |-> nx]

Link(tb, i, nx) == [tb EXCEPT !.slot[i].nx = nx]

ClearBucket(tb, i) == [tb EXCEPT !.slot[i] = Free]

Relocate(tb, from, to, nx) ==
  ClearBucket([tb EXCEPT !.slot[to] = Node(tb.slot[from].k, tb.slot[from].v, nx)], from)

(* The walk along a chain from b on, to a bucket of goal or the tail; the  *)
(* tail points to itself, and the guards of the loops bound the walk.      *)
WalkOn(tb, i, goal) == IF i \in goal \/ IsEmpty(tb, i) \/ IsTail(tb, i) THEN i ELSE NextBucket(tb, i)

Walk(tb, b, goal) ==
  LET at[m \in 0 .. tb.n] == IF m = 0 THEN b ELSE WalkOn(tb, at[m - 1], goal) IN at

WalkTo(tb, b, goal) == Walk(tb, b, goal)[tb.n]

TailOf(tb, b) == WalkTo(tb, b, {})

(* The elements of a main bucket.                                          *)
Sharing(tb, b) == {i \in Occupied(tb) : MainBucket(tb, i) = b}

(* bucket(): where a key is, or the number of buckets.                     *)
Bucket(tb, k) ==
  LET holding == {i \in Occupied(tb) : tb.slot[i].k = k}
      at == WalkTo(tb, KeyToBucket(tb, k), holding)
  IN IF at \in holding THEN at ELSE tb.n

(* find_next_bucket, advance and find_first_bucket.                        *)
FindNextBucket(tb, i) == FirstOf({j \in i + 1 .. tb.n : j = tb.n \/ ~ IsEmpty(tb, j)})

FindFirstBucket(tb) == FindNextBucket(tb, -1)

(* find_prev_bucket: the bucket of the chain of kmain that points to i.    *)
FindPrevBucket(tb, kmain, i) ==
  LET before == {j \in Occupied(tb) : j # i /\ NextBucket(tb, j) = i}
      at == WalkTo(tb, kmain, before)
  IN IF i # kmain /\ at \in before THEN at ELSE Free

(* The first of some candidates that is free and not barred; Free if none. *)
FirstEmpty(tb, candidates, barred) ==
  LET good == {j \in DOMAIN candidates :
                 IsEmpty(tb, candidates[j] % tb.n) /\ candidates[j] % tb.n \notin barred}
  IN IF good = {} THEN Free ELSE candidates[FirstOf(good)] % tb.n

(* find_empty_bucket: the near candidates of a hint, then the scan that    *)
(* _last carries over from one call to the next.                           *)
NearCandidates(from, s) == << from + 1, from + 2, s, s + 1, s + 2, s + 4, s + 5, s + 6, s + 9, s + 11 >>

ScanCandidates(tb) ==
  [j \in 1 .. 2 * tb.n |-> IF j % 2 = 1 THEN tb.last + (j + 1) \div 2 ELSE tb.n \div 2 + tb.last + j \div 2]

NearOrScanned(tb, near, scanned) ==
  IF near # Free THEN [pos |-> near, last |-> tb.last] ELSE [pos |-> scanned, last |-> scanned]

FindEmptyBucket(tb, from, hint) ==
  NearOrScanned(tb, FirstEmpty(tb, NearCandidates(from, from + 1 + hint \div 2), {}),
                    FirstEmpty(tb, ScanCandidates(tb), {}))

-----------------------------------------------------------------------------
(* Insertion.                                                              *)

(* The tail of the chain from t on points to first.                        *)
TailTo(tb, t, first) ==
  LET tail == TailOf(tb, t) IN IF IsTail(tb, tail) THEN Link(tb, tail, first) ELSE tb

(* kickout_bucket: the element in b belongs to the chain of kmain, and     *)
(* moves to a free bucket with its place in that chain.  An element that   *)
(* is not on the chain goes in front of it.                                *)
KickoutTo(tb, kmain, b, free, prev) ==
  LET old_next == NextBucket(tb, b)
      new == free.pos
      first == NextBucket(tb, kmain)
      stays == IF old_next = b THEN new ELSE old_next
      moved(nx) == [Relocate(tb, b, new, nx) EXCEPT !.last = free.last]
  IN IF prev # Free THEN Link(moved(stays), prev, new)
     ELSE IF old_next # b /\ first # kmain
       THEN TailTo(Link(moved(old_next), kmain, new), old_next, first)
       ELSE Link(moved(IF old_next = b /\ first # kmain THEN first ELSE stays), kmain, new)

KickoutBucket(tb, kmain, b) ==
  KickoutTo(tb, kmain, b, FindEmptyBucket(tb, NextBucket(tb, b), 2), FindPrevBucket(tb, kmain, b))

(* find_slot for a key that is not there: the bucket it goes to and the    *)
(* bucket that will point to it, after the bucket's tenant has left.       *)
BehindTail(tb, free, tail) == [tb |-> [tb EXCEPT !.last = free.last], pos |-> free.pos, from |-> tail]

FreeSlot(tb, k) ==
  LET b0 == KeyToBucket(tb, k)
      kmain == MainBucket(tb, b0)
      tail == TailOf(tb, b0)
  IN IF IsEmpty(tb, b0) THEN [tb |-> tb, pos |-> b0, from |-> b0]
     ELSE IF kmain # b0 /\ IsEmpty(tb, kmain)
       THEN [tb |-> Relocate(tb, b0, kmain, IF IsTail(tb, b0) THEN kmain ELSE NextBucket(tb, b0)),
             pos |-> b0, from |-> b0]
     ELSE IF kmain # b0 THEN [tb |-> KickoutBucket(tb, kmain, b0), pos |-> b0, from |-> b0]
     ELSE BehindTail(tb, FindEmptyBucket(tb, tail, Cardinality(Sharing(tb, b0)) - 1), tail)

(* place_kv_at.                                                            *)
PlaceKvAt(tb, pos, from, k, v) ==
  [tb EXCEPT !.slot = [i \in DOMAIN @ |-> IF i = pos THEN Node(k, v, pos)
                                          ELSE IF i = from THEN [@[i] EXCEPT !.nx = pos] ELSE @[i]],
             !.filled = @ + 1]

(* insert_kv: the table, the bucket of the key, whether it was inserted.   *)
FoundOrPlaced(tb, found, free, k, v) ==
  IF found # tb.n THEN [tb |-> tb, pos |-> found, inserted |-> FALSE]
  ELSE [tb |-> PlaceKvAt(free.tb, free.pos, free.from, k, v), pos |-> free.pos, inserted |-> TRUE]

InsertKv(tb, k, v) == FoundOrPlaced(tb, Bucket(tb, k), FreeSlot(tb, k), k, v)

-----------------------------------------------------------------------------
(* Rehashing.                                                              *)

(* Mutant: the second pass may put an element in a main bucket that is     *)
(* still to be filled.                                                     *)
RehashFindAnyEmpty(tb, reserved, scan, hint) ==
  [pos |-> FirstEmpty(tb, [j \in 1 .. tb.n |-> hint + j], {}), scan |-> scan]

(* rehash_view::find_empty: free and nobody's main bucket; scan is the     *)
(* place where the last resort, a walk over all buckets, goes on.          *)
RehashFindEmpty(tb, reserved, scan, hint) ==
  LET near == FirstEmpty(tb, NearCandidates(hint, hint + 2), reserved)
      walked == FirstEmpty(tb, [j \in 1 .. tb.n |-> scan + j - 1], reserved)
  IN IF near # Free THEN [pos |-> near, scan |-> scan] ELSE [pos |-> walked, scan |-> (walked + 1) % tb.n]

(* One round of rehash_move_pass: an element goes to its main bucket, or   *)
(* behind the tail of the chain that has begun there.                      *)
MoveBehind(tb, free, tail, e) == [tb |-> PlaceKvAt(tb, free.pos, tail, e.k, e.v), scan |-> free.scan]

MoveOne(into, reserved, e) ==
  LET tb == into.tb
      b0 == KeyToBucket(tb, e.k)
      tail == TailOf(tb, b0)
  IN IF IsEmpty(tb, b0) THEN [into EXCEPT !.tb = PlaceKvAt(tb, b0, b0, e.k, e.v)]
     ELSE MoveBehind(tb, RehashFindEmpty(tb, reserved, into.scan, tail), tail, e)

(* rehash_reserve_heads and rehash_move_pass: the elements in the order of *)
(* their buckets.                                                          *)
Moves(tb, n) ==
  LET to == EmptyTable(n)
      reserved == {KeyToBucket(to, tb.slot[i].k) : i \in Occupied(tb)}
      moved[i \in 0 .. tb.n] ==
        IF i = 0 THEN [tb |-> to, scan |-> 0]
        ELSE IF IsEmpty(tb, i - 1) THEN moved[i - 1] ELSE MoveOne(moved[i - 1], reserved, tb.slot[i - 1])
  IN moved

MoveAll(tb, n) == Moves(tb, n)[tb.n].tb

(* rehash.                                                                 *)
Rehashed(tb, required) ==
  MoveAll(tb, GrowthSizeAligned(IF required < tb.filled THEN tb.filled ELSE required))

(* reserve.                                                                *)
Reserved(tb, n) == IF n = 0 \/ n * 100 <= tb.n * LoadFactor THEN tb ELSE Rehashed(tb, n)

GrownFor(tb, more) == IF Full(tb, tb.filled + more) THEN Rehashed(tb, GetNextCapacity(tb)) ELSE tb

(* emplace, which insert(), operator[] and insert_or_assign() call: a      *)
(* table at its limit grows even if the key is there already.              *)
Emplaced(tb, k, v) == InsertKv(GrownFor(tb, 1), k, v)

(* insert_or_assign.                                                       *)
WithValue(res, v) == IF res.inserted THEN res ELSE [res EXCEPT !.tb.slot[res.pos].v = v]

Assigned(tb, k, v) == WithValue(Emplaced(tb, k, v), v)

(* insert() of a range or a list: one test of the load, then no more.      *)
RangeInserts(tb, s) ==
  LET into[i \in 0 .. Len(s)] ==
        IF i = 0 THEN GrownFor(tb, Len(s)) ELSE InsertKv(into[i - 1], s[i][1], s[i][2]).tb
  IN into

InsertedRange(tb, s) == RangeInserts(tb, s)[Len(s)]

(* The constructors from a list or a range.                                *)
Emplacements(s) ==
  LET into[i \in 0 .. Len(s)] ==
        IF i = 0 THEN Reserved(NoTable, IF Len(s) > 8 THEN Len(s) ELSE 8)
        ELSE Emplaced(into[i - 1], s[i][1], s[i][2]).tb
  IN into

Constructed(s) == Emplacements(s)[Len(s)]

-----------------------------------------------------------------------------
(* Removal.                                                                *)

(* The head of a chain goes and the second element takes its place.        *)
EraseHead(tb, b) ==
  LET nb == NextBucket(tb, b)
      nx == NextBucket(tb, nb)
  IN IF nb = b THEN ClearBucket(tb, b) ELSE Relocate(tb, nb, b, IF nx = nb THEN b ELSE nx)

(* Another element of a chain goes.                                        *)
Unlink(tb, b, prev) ==
  ClearBucket(Link(tb, prev, IF IsTail(tb, b) THEN prev ELSE NextBucket(tb, b)), b)

(* erase(key) and extract().                                               *)
Erased(tb, k) ==
  LET at == Bucket(tb, k)
      b0 == KeyToBucket(tb, k)
  IN IF tb.n = 0 \/ at = tb.n THEN tb
     ELSE [IF at = b0 THEN EraseHead(tb, b0) ELSE Unlink(tb, at, FindPrevBucket(tb, b0, at))
           EXCEPT !.filled = @ - 1]

(* The element in i goes; without a predecessor it is not on its chain.    *)
UnlinkOrClear(tb, i, prev) ==
  LET kmain == MainBucket(tb, i)
      first == NextBucket(tb, kmain)
      linked == IF IsTail(tb, i) THEN tb
                ELSE Link(IF first # kmain THEN TailTo(tb, NextBucket(tb, i), first) ELSE tb,
                          kmain, NextBucket(tb, i))
  IN IF i = kmain THEN EraseHead(tb, i)
     ELSE IF prev # Free THEN Unlink(tb, i, prev) ELSE ClearBucket(linked, i)

FromHereOn(tb, i) == [tb |-> tb, at |-> IF IsEmpty(tb, i) THEN FindNextBucket(tb, i) ELSE i]

(* erase(iterator): the table and the bucket of the iterator it returns,   *)
(* the same one when the next element of the chain has moved into it.      *)
ErasedAt(tb, i) ==
  IF i >= tb.n THEN [tb |-> tb, at |-> tb.n]
  ELSE IF IsEmpty(tb, i) THEN FromHereOn(tb, i)
  ELSE FromHereOn([UnlinkOrClear(tb, i, FindPrevBucket(tb, MainBucket(tb, i), i)) EXCEPT !.filled = @ - 1], i)

(* erase(first, end()): every round erases an element, until the iterator  *)
(* is at the end.  With another end the loop may step over it.             *)
EraseRounds(tb, i) ==
  LET round[r \in 0 .. tb.filled] ==
        IF r = 0 THEN [tb |-> tb, at |-> i] ELSE ErasedAt(round[r - 1].tb, round[r - 1].at)
  IN round

ErasedFrom(tb, i) == EraseRounds(tb, i)[tb.filled].tb

(* clear() and the destructor.                                             *)
Cleared(tb) == EmptyTable(tb.n)

(* Mutant: the walk goes on behind the bucket an element has moved into.   *)
MergeSkipping(both) ==
  LET e == both.from.slot[both.at]
      res == Emplaced(both.to, e.k, e.v)
      rest == IF res.inserted THEN ErasedAt(both.from, both.at).tb ELSE both.from
  IN IF both.at >= both.from.n THEN both
     ELSE [to |-> res.tb, from |-> rest, at |-> FindNextBucket(rest, both.at)]

(* One round of merge(): an element of the other table is emplaced here    *)
(* and, if it is new, erased there.                                        *)
MergeOne(both) ==
  LET e == both.from.slot[both.at]
      res == Emplaced(both.to, e.k, e.v)
      rest == IF res.inserted THEN ErasedAt(both.from, both.at)
              ELSE [tb |-> both.from, at |-> FindNextBucket(both.from, both.at)]
  IN IF both.at >= both.from.n THEN both ELSE [to |-> res.tb, from |-> rest.tb, at |-> rest.at]

(* merge(): a round erases an element or goes on to a later bucket.        *)
MergeRounds(to, from) ==
  LET round[r \in 0 .. from.n + from.filled] ==
        IF r = 0 THEN [to |-> Reserved(to, to.filled + from.filled), from |-> from,
                       at |-> FindFirstBucket(from)]
        ELSE MergeOne(round[r - 1])
  IN round

Merged(to, from) == MergeRounds(to, from)[from.n + from.filled]

-----------------------------------------------------------------------------
(* The client.  It has one table, and from time to time a second one: a    *)
(* new table, a copy of the first or what the first has moved to.          *)

Foreground == Keys \ Background

Named(tb) == {i \in Occupied(tb) : tb.slot[i].k \in Foreground}

Room(tb, more) == Cardinality(Named(tb)) + more <= MaxElements

Fits(tb) == tb.n <= MaxBuckets /\ Room(tb, 0)

Init == tab \in {Constructed(s) : s \in Initials} /\ tab_other = NoTable

Becomes(tb) == tab_other = NoTable /\ Fits(tb) /\ tab' = tb /\ UNCHANGED tab_other

Emplace(k, v) == Becomes(Emplaced(tab, k, v).tb)

InsertOrAssign(k, v) == Becomes(Assigned(tab, k, v).tb)

(* find_empty_bucket never ends in a table that is full: the client gives  *)
(* no more than one step of growth has room for.                           *)
InsertRange(s) ==
  /\ tab.filled + Len(s) <= GrownFor(tab, Len(s)).n
  /\ Becomes(InsertedRange(tab, s))

EraseKey(k) == Becomes(Erased(tab, k))

EraseAt(i) == Becomes(ErasedAt(tab, i).tb)

EraseRange == Becomes(ErasedFrom(tab, FindFirstBucket(tab)))

Clear == Becomes(Cleared(tab))

Rehash(n) == Becomes(Rehashed(tab, n))

Reserve(n) == Becomes(Reserved(tab, n))

Construct(s) == tab_other = NoTable /\ tab_other' = Constructed(s) /\ UNCHANGED tab

(* The copy and the move constructor: every bucket is copied or the        *)
(* arrays change hands.                                                    *)
CopyConstruct == tab_other = NoTable /\ tab_other' = tab /\ UNCHANGED tab

MoveConstruct == tab_other = NoTable /\ tab_other' = tab /\ tab' = NoTable

CopyAssign == tab_other # NoTable /\ tab' = tab_other /\ UNCHANGED tab_other

MoveAssign == tab_other # NoTable /\ tab' = tab_other /\ tab_other' = NoTable

Swap == tab_other # NoTable /\ tab' = tab_other /\ tab_other' = tab

Merge ==
  /\ tab_other # NoTable
  /\ \E both \in {Merged(tab, tab_other)} : Fits(both.to) /\ tab' = both.to /\ tab_other' = both.from

Destroy == tab_other # NoTable /\ tab_other' = NoTable /\ UNCHANGED tab

Next ==
  \/ \E k \in Foreground, v \in Values : Emplace(k, v) \/ InsertOrAssign(k, v)
  \/ \E s \in Ranges : InsertRange(s)
  \/ \E k \in Foreground : EraseKey(k)
  \/ \E i \in Named(tab) \cup {tab.n} : EraseAt(i)
  \/ EraseRange
  \/ Clear
  \/ \E n \in Sizes : Rehash(n) \/ Reserve(n)
  \/ \E s \in Ranges : Construct(s)
  \/ CopyConstruct \/ MoveConstruct \/ CopyAssign \/ MoveAssign \/ Swap \/ Merge \/ Destroy

Spec == Init /\ [][Next]_vars

-----------------------------------------------------------------------------
(* Properties.                                                             *)

(* The map a table holds, and what it is to be.                            *)
Content(tb) ==
  [k \in {tb.slot[i].k : i \in Occupied(tb)} |->
     tb.slot[CHOOSE i \in Occupied(tb) : tb.slot[i].k = k].v]

(* The shape every lookup and removal relies on: the elements are counted, *)
(* no key is there twice, the main bucket of every element holds one of    *)
(* its own, a chain stays among the elements of its main bucket, the walk  *)
(* from there comes to every one of them, and it ends in a bucket that     *)
(* points to itself.                                                       *)
WellFormed(tb) ==
  /\ tb.filled = Cardinality(Occupied(tb))
  /\ \A i, j \in Occupied(tb) : tb.slot[i].k = tb.slot[j].k => i = j
  /\ \A i \in Occupied(tb) :
       LET b == MainBucket(tb, i) IN
       /\ {b, NextBucket(tb, i)} \subseteq Sharing(tb, b)
       /\ WalkTo(tb, b, {i}) = i
       /\ IsTail(tb, TailOf(tb, i))

ChainsWellFormed == WellFormed(tab) /\ WellFormed(tab_other)

(* Every call has exactly the effect on the map that its arguments ask     *)
(* for: whatever the history of a table, an element is found where it was  *)
(* put, none is lost when another one moves, a removal takes one key, and  *)
(* the iterator erase() returns is at an element or at the end.            *)
ChainedCallsAgree ==
  LET m == Content(tab) IN
  /\ tab.n > 0 => \A k \in Keys : Bucket(tab, k) # tab.n <=> k \in DOMAIN m
  /\ \A k \in Foreground :
       /\ Content(Erased(tab, k)) = Without(m, {k})
       /\ \A v \in Values :
            /\ Content(Assigned(tab, k, v).tb) = Put(m, k, v)
            /\ \E put \in {Emplaced(tab, k, v)} :
                 /\ Content(put.tb) = PutIfAbsent(m, k, v)
                 /\ put.inserted <=> k \notin DOMAIN m
                 /\ put.tb.slot[put.pos].k = k
  /\ \A i \in Named(tab) :
       \E gone \in {ErasedAt(tab, i)} :
          /\ Content(gone.tb) = Without(m, {tab.slot[i].k})
          /\ gone.at \in Occupied(gone.tb) \cup {tab.n}
  /\ \A n \in Sizes : Content(Rehashed(tab, n)) = m

(* merge() empties the other table into this one, but for the keys that    *)
(* are in both, although every erase may move the elements it iterates     *)
(* over.                                                                   *)
MergeMovesAll ==
  LET both == Merged(tab, tab_other)
      m == Content(tab)
      o == Content(tab_other)
  IN Content(both.to) = MergedInto(m, o) /\ Content(both.from) = LeftBehind(m, o)
=============================================================================
