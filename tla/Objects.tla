-------------------------------- MODULE Objects --------------------------------
(***************************************************************************)
(* The objects of a client that share nothing with one another: pointers,  *)
(* functions, a disposal_queue, strings, vectors, streams and tables.      *)
(* subject is the kind a client uses, and the variables of the others stay *)
(* unused.                                                                 *)
(*                                                                         *)
(* Each instance is of components with what is proved of them; the         *)
(* theorems say that it holds of the client's objects, for any sizes, sets *)
(* of names, texts and values.                                             *)
(***************************************************************************)
EXTENDS TLAPS

CONSTANTS Owners, Watchers,
          PointerBlocks,    (* bound: the control blocks                    *)
          FunctionNames, Small, Large,
          TargetBlocks,     (* bound: the targets in memory                 *)
          Threads, Pushes, Buffers,
          Chars, Sso, Pieces, Lengths, MaxLength, MaxBlock,
          VectorValues, VectorDefault, VectorRanges, VectorSizes,
          VectorMost,       (* bound: the elements of a vector              *)
          VectorMostOther,  (* bound: those of the second vector            *)
          ScalarWidth, ByteBase, StreamItems,
          StreamMost,       (* bound: the items written to a stream         *)
          HlKeys, HlValues, HlHome, HlHighTags, HlGroupSizes, HlScanBlock,
          HlFirst, HlOthers, HlCounts,
          HlBuckets,        (* bound: the client asks an hl_hashmap for no more *)
          HlMost,           (* bound: the elements of an hl_hashmap         *)
          ChKeys, ChValues, ChBackground, ChHash, ChInitials, ChRanges, ChSizes,
          ChBuckets,        (* bound: the client asks a hashmap for no more *)
          ChMost,           (* bound: its elements that calls name          *)
          Free, HlFree, Null, Raw, Gone, End, Junk, Unused

VARIABLES subject,
          ctrl, shared, weak,
          calls, holds,
          queue, data, log,
          str, str_other,
          vec, vec_other,
          stream, written, next, got,
          hl, hl_other,
          tab, tab_other

M == INSTANCE MemoryProofs WITH
       Blocks <- PointerBlocks, Names <- FunctionNames, NullPointer <- Null, Idle <- Null

D == INSTANCE StorageProofs WITH
       Values <- VectorValues, Default <- VectorDefault, Ranges <- VectorRanges, Sizes <- VectorSizes,
       MaxSize <- VectorMost, MaxOther <- VectorMostOther,
       Width <- ScalarWidth, Base <- ByteBase, Items <- StreamItems, MaxItems <- StreamMost, Nothing <- Null

H == INSTANCE HlTableProofs WITH
       Keys <- HlKeys, Mapped <- HlValues, Home <- HlHome, HighTags <- HlHighTags,
       GroupSizes <- HlGroupSizes, ScanBlock <- HlScanBlock, FirstLists <- HlFirst, HlLists <- HlOthers,
       FreeBucket <- HlFree, Counts <- HlCounts, MaxBuckets <- HlBuckets, MaxElements <- HlMost

C == INSTANCE ChainedTableProofs WITH
       Keys <- ChKeys, Values <- ChValues, Background <- ChBackground, Hash <- ChHash,
       Initials <- ChInitials, Ranges <- ChRanges, Sizes <- ChSizes,
       MaxBuckets <- ChBuckets, MaxElements <- ChMost

(* What the proofs need of the constants.                                  *)
ASSUME ObjectsAssumption ==
  /\ M!PointersAssumption /\ M!CallableAssumption /\ M!QueueAssumption
  /\ D!StringAssumption /\ D!VectorAssumption /\ D!StreamAssumption
  /\ H!HlAssumption /\ C!ChainedAssumption

-----------------------------------------------------------------------------
pointer_vars == <<ctrl, shared, weak>>

function_vars == <<calls, holds>>

disposal_vars == <<queue, data, log>>

string_vars == <<str, str_other>>

vector_vars == <<vec, vec_other>>

stream_vars == <<stream, written, next, got>>

hl_vars == <<hl, hl_other>>

table_vars == <<tab, tab_other>>

object_vars ==
  <<pointer_vars, function_vars, disposal_vars, string_vars, vector_vars, stream_vars, hl_vars,
    table_vars>>

ObjectsInit ==
  /\ IF subject = "shared_ptr" THEN M!PtrInit ELSE ctrl = Unused /\ shared = Unused /\ weak = Unused
  /\ IF subject = "function" THEN M!FunctionInit ELSE calls = Unused /\ holds = Unused
  /\ IF subject = "disposal" THEN M!QueueInit ELSE queue = Unused /\ data = Unused /\ log = Unused
  /\ IF subject = "string" THEN D!StringInit ELSE str = Unused /\ str_other = Unused
  /\ IF subject = "vector" THEN D!VectorInit ELSE vec = Unused /\ vec_other = Unused
  /\ IF subject = "stream" THEN D!Init ELSE stream = Unused /\ written = Unused /\ next = Unused /\ got = Unused
  /\ IF subject = "hl" THEN H!HlInit ELSE hl = Unused /\ hl_other = Unused
  /\ IF subject = "chained" THEN C!Init ELSE tab = Unused /\ tab_other = Unused

ObjectsNext ==
  /\ UNCHANGED subject
  /\ \/ /\ subject = "shared_ptr" /\ M!PtrStep
        /\ UNCHANGED <<function_vars, disposal_vars, string_vars, vector_vars, stream_vars, hl_vars, table_vars>>
     \/ /\ subject = "function" /\ M!FunctionStep
        /\ UNCHANGED <<pointer_vars, disposal_vars, string_vars, vector_vars, stream_vars, hl_vars, table_vars>>
     \/ /\ subject = "disposal" /\ M!QueueStep
        /\ UNCHANGED <<pointer_vars, function_vars, string_vars, vector_vars, stream_vars, hl_vars, table_vars>>
     \/ /\ subject = "string" /\ D!StringStep
        /\ UNCHANGED <<pointer_vars, function_vars, disposal_vars, vector_vars, stream_vars, hl_vars, table_vars>>
     \/ /\ subject = "vector" /\ D!VectorStep
        /\ UNCHANGED <<pointer_vars, function_vars, disposal_vars, string_vars, stream_vars, hl_vars, table_vars>>
     \/ /\ subject = "stream" /\ D!Step
        /\ UNCHANGED <<pointer_vars, function_vars, disposal_vars, string_vars, vector_vars, hl_vars, table_vars>>
     \/ /\ subject = "hl" /\ H!HlNext
        /\ UNCHANGED <<pointer_vars, function_vars, disposal_vars, string_vars, vector_vars, stream_vars, table_vars>>
     \/ /\ subject = "chained" /\ C!Next
        /\ UNCHANGED <<pointer_vars, function_vars, disposal_vars, string_vars, vector_vars, stream_vars, hl_vars>>

ObjectsSpec == ObjectsInit /\ [][ObjectsNext]_<<subject, object_vars>>
-----------------------------------------------------------------------------
(* Properties.                                                             *)

(* What pointers and functions own lives exactly as long as they say: see  *)
(* SharedPtr and Callable.                                                 *)
OwnershipExact ==
  CASE subject = "shared_ptr" -> M!TypeOK /\ M!CountsExact
    [] subject = "function" -> M!TargetsOwned
    [] OTHER -> TRUE

(* disposal_queue: see DisposalQueue.                                      *)
BuffersFreedOnce == subject = "disposal" => M!EachFreedOnce

(* string: see BasicString.                                                *)
StringsTerminated == subject = "string" => D!StringsTerminated

StringCallsAgree == subject = "string" => D!StringCallsAgree

(* vector: see Vector.                                                     *)
VectorElementsAlive == subject = "vector" => D!VectorElementsAlive

VectorCallsAgree == subject = "vector" => D!VectorCallsAgree

(* bin_stream: see BinStream.                                              *)
StreamsReadBack == subject = "stream" => D!ReadsWhatWasWritten

(* hl_hashmap and hl_hashset: see HlTable.                                 *)
HlmapProbesUnbroken == subject = "hl" => H!HlProbesUnbroken

HlmapCallsAgree == subject = "hl" => H!HlCallsAgree /\ H!HlMergeLosesNothing

(* hashmap and hashset: see ChainedTable.  Its chains are well formed, and  *)
(* every call on a table, a merge of two included, changes the maps they   *)
(* hold as it should.                                                      *)
HashmapCallsAgree == subject = "chained" => C!ChainsWellFormed /\ C!ChainedCallsAgree /\ C!MergeMovesAll

HeldMaps ==
  CASE subject = "chained" -> [one |-> C!Content(tab), other |-> C!Content(tab_other)]
    [] subject = "hl" -> [one |-> H!HlContent(hl), other |-> H!HlContent(hl_other)]
    [] OTHER -> [one |-> <<>>, other |-> <<>>]

Maps ==
  INSTANCE KeyMap WITH
    Keys <- ChKeys \cup HlKeys, Values <- ChValues \cup HlValues, Owners <- {"one", "other"}, maps <- HeldMaps

(* The tables implement maps: every step of a client is one of KeyMap.     *)
TablesImplementMap == Maps!KMSpec
-----------------------------------------------------------------------------
(* Theorems.                                                               *)

(* The invariant of the kind of object there is.                           *)
ObjectsInv ==
  /\ subject = "shared_ptr" => M!PointersInv
  /\ subject = "function" => M!CallsInv
  /\ subject = "disposal" => M!QueueInv
  /\ subject = "string" => D!StringsInv
  /\ subject = "vector" => D!VectorsInv
  /\ subject = "stream" => D!StreamInv
  /\ subject = "hl" => H!HlInv
  /\ subject = "chained" => C!ChInv

(* A client uses one kind of object, and a step of it is one of its        *)
(* component's.                                                            *)
THEOREM ObjectsInvariance == ObjectsSpec => []ObjectsInv
<1>1. ObjectsInit => ObjectsInv
  BY ObjectsAssumption, M!PointersInvInit, M!CallsInvInit, M!QueueInvInit, D!StringsInvInit,
     D!VectorsInvInit, D!StreamInvInit, H!HlInvInit, C!ChInvInit
     DEF ObjectsInit, ObjectsInv
<1>2. ObjectsInv /\ [ObjectsNext]_<<subject, object_vars>> => ObjectsInv'
  <2> SUFFICES ASSUME ObjectsInv, [ObjectsNext]_<<subject, object_vars>> PROVE ObjectsInv'
    OBVIOUS
  <2>1. /\ UNCHANGED subject
        /\ subject = "shared_ptr" => [M!PtrStep]_pointer_vars
        /\ subject = "function" => [M!FunctionStep]_function_vars
        /\ subject = "disposal" => [M!QueueStep]_disposal_vars
        /\ subject = "string" => [D!StringStep]_string_vars
        /\ subject = "vector" => [D!VectorStep]_vector_vars
        /\ subject = "stream" => [D!Step]_stream_vars
        /\ subject = "hl" => [H!HlNext]_hl_vars
        /\ subject = "chained" => [C!Next]_table_vars
    BY DEF ObjectsNext, object_vars
  <2>2. ASSUME subject = "shared_ptr" PROVE M!PointersInv'
    <3>1. M!PointersInv /\ [M!PtrStep]_M!ptr_vars
      BY <2>1, <2>2 DEF ObjectsInv, pointer_vars, M!ptr_vars
    <3> QED
      BY <3>1, ObjectsAssumption, M!PointersInvStep
  <2>3. ASSUME subject = "function" PROVE M!CallsInv'
    <3>1. M!CallsInv /\ [M!FunctionStep]_M!function_vars
      BY <2>1, <2>3 DEF ObjectsInv, function_vars, M!function_vars
    <3> QED
      BY <3>1, ObjectsAssumption, M!CallsInvStep
  <2>4. ASSUME subject = "disposal" PROVE M!QueueInv'
    <3>1. M!QueueInv /\ [M!QueueStep]_M!queue_vars
      BY <2>1, <2>4 DEF ObjectsInv, disposal_vars, M!queue_vars
    <3> QED
      BY <3>1, ObjectsAssumption, M!QueueInvStep
  <2>5. ASSUME subject = "string" PROVE D!StringsInv'
    <3>1. D!StringsInv /\ [D!StringStep]_D!string_vars
      BY <2>1, <2>5 DEF ObjectsInv, string_vars, D!string_vars
    <3> QED
      BY <3>1, ObjectsAssumption, D!StringsInvStep
  <2>6. ASSUME subject = "vector" PROVE D!VectorsInv'
    <3>1. D!VectorsInv /\ [D!VectorStep]_D!vector_vars
      BY <2>1, <2>6 DEF ObjectsInv, vector_vars, D!vector_vars
    <3> QED
      BY <3>1, ObjectsAssumption, D!VectorsInvStep
  <2>7. ASSUME subject = "stream" PROVE D!StreamInv'
    <3>1. D!StreamInv /\ [D!Step]_D!vars
      BY <2>1, <2>7 DEF ObjectsInv, stream_vars, D!vars
    <3> QED
      BY <3>1, ObjectsAssumption, D!StreamInvStep
  <2>8. ASSUME subject = "hl" PROVE H!HlInv'
    <3>1. H!HlInv /\ [H!HlNext]_H!hl_vars
      BY <2>1, <2>8 DEF ObjectsInv, hl_vars, H!hl_vars
    <3> QED
      BY <3>1, ObjectsAssumption, H!HlInvStep
  <2>9. ASSUME subject = "chained" PROVE C!ChInv'
    <3>1. C!ChInv /\ [C!Next]_C!vars
      BY <2>1, <2>9 DEF ObjectsInv, table_vars, C!vars
    <3> QED
      BY <3>1, ObjectsAssumption, C!ChInvStep
  <2> QED
    BY <2>1, <2>2, <2>3, <2>4, <2>5, <2>6, <2>7, <2>8, <2>9 DEF ObjectsInv
<1> QED
  BY <1>1, <1>2, PTL DEF ObjectsSpec

(* Shared pointers count exactly who shares and who watches, and functions *)
(* own the targets they were given, through any calls.                     *)
THEOREM OwnershipExactHolds == ObjectsSpec => []OwnershipExact
<1>1. ObjectsInv => OwnershipExact
  BY ObjectsAssumption, M!PointersInvImplies, M!CallsInvImplies DEF ObjectsInv, OwnershipExact
<1> QED
  BY <1>1, ObjectsInvariance, PTL

(* Every buffer that was pushed is freed once and in its turn, by whichever *)
(* thread, unless an exception drops it.                                   *)
THEOREM BuffersFreedOnceHolds == ObjectsSpec => []BuffersFreedOnce
<1>1. ObjectsInv => BuffersFreedOnce
  BY ObjectsAssumption, M!QueueInvImplies DEF ObjectsInv, BuffersFreedOnce
<1> QED
  BY <1>1, ObjectsInvariance, PTL

(* A string has its terminator behind its text, wherever the text is.      *)
THEOREM StringsStayTerminated == ObjectsSpec => []StringsTerminated
<1>1. ObjectsInv => StringsTerminated
  BY DEF ObjectsInv, StringsTerminated, D!StringsInv
<1> QED
  BY <1>1, ObjectsInvariance, PTL

(* The calls on a string make the texts they say.                          *)
THEOREM StringCallsStayExact == ObjectsSpec => []StringCallsAgree
<1>1. ObjectsInv => StringCallsAgree
  BY ObjectsAssumption, D!StringsAgree DEF ObjectsInv, StringCallsAgree
<1> QED
  BY <1>1, ObjectsInvariance, PTL

(* The elements of a vector are built and have their values, and nothing   *)
(* is built behind them.                                                   *)
THEOREM VectorElementsStayAlive == ObjectsSpec => []VectorElementsAlive
<1>1. ObjectsInv => VectorElementsAlive
  BY DEF ObjectsInv, VectorElementsAlive, D!VectorsInv
<1> QED
  BY <1>1, ObjectsInvariance, PTL

(* The calls on a vector make the sequences they say.                      *)
THEOREM VectorCallsStayExact == ObjectsSpec => []VectorCallsAgree
<1>1. ObjectsInv => VectorCallsAgree
  BY ObjectsAssumption, D!VectorsAgree DEF ObjectsInv, VectorCallsAgree
<1> QED
  BY <1>1, ObjectsInvariance, PTL

(* What was written to a stream and is wholly there is read as it was      *)
(* written, wherever the stream was cut.                                   *)
THEOREM StreamsStayReadable == ObjectsSpec => []StreamsReadBack
<1>1. ObjectsInv => StreamsReadBack
  BY DEF ObjectsInv, StreamsReadBack, D!StreamInv
<1> QED
  BY <1>1, ObjectsInvariance, PTL

(* No bucket between an element of an hl_hashmap and the home of its key   *)
(* is EMPTY, the control bytes and their mirror say which buckets hold an  *)
(* element, and no key is there twice.                                     *)
THEOREM HlmapProbesStayUnbroken == ObjectsSpec => []HlmapProbesUnbroken
<1>1. ObjectsInv => HlmapProbesUnbroken
  BY ObjectsAssumption, H!HlInvUnbroken DEF ObjectsInv, HlmapProbesUnbroken
<1> QED
  BY <1>1, ObjectsInvariance, PTL

(* The calls on an hl_hashmap find, add, replace and remove what they say, *)
(* and a merge loses nothing.                                              *)
THEOREM HlmapCallsStayExact == ObjectsSpec => []HlmapCallsAgree
<1>1. ObjectsInv => HlmapCallsAgree
  BY ObjectsAssumption, H!HlInvAgree, H!HlInvMerge DEF ObjectsInv, HlmapCallsAgree
<1> QED
  BY <1>1, ObjectsInvariance, PTL

(* In every hashmap the walk along the chain of a main bucket comes to     *)
(* every element of it and ends in its tail, no key is there twice, the    *)
(* calls find, add, replace and remove what they say, and a merge moves    *)
(* all that it should.                                                     *)
THEOREM HashmapCallsStayExact == ObjectsSpec => []HashmapCallsAgree
<1>1. ObjectsInv => HashmapCallsAgree
  BY ObjectsAssumption, C!ChInvWellFormed, C!ChInvAgree, C!ChInvMerge DEF ObjectsInv, HashmapCallsAgree
<1> QED
  BY <1>1, ObjectsInvariance, PTL

-----------------------------------------------------------------------------
(* The tables implement maps.                                              *)

PairOf(a, b) == [one |-> a, other |-> b]

(* A pair of maps is read and changed one at a time.                       *)
LEMMA PairFacts ==
  ASSUME NEW a, NEW b, NEW c, NEW d
  PROVE  /\ PairOf(a, b)["one"] = a /\ PairOf(a, b)["other"] = b /\ DOMAIN PairOf(a, b) = {"one", "other"}
         /\ [PairOf(a, b) EXCEPT !["one"] = c] = PairOf(c, b)
         /\ [PairOf(a, b) EXCEPT !["other"] = c] = PairOf(a, c)
         /\ [PairOf(a, b) EXCEPT !["one"] = c, !["other"] = d] = PairOf(c, d)
         /\ [PairOf(a, b) EXCEPT !["other"] = d, !["one"] = c] = PairOf(c, d)
<1>1. PairOf(a, b)["one"] = a /\ PairOf(a, b)["other"] = b /\ DOMAIN PairOf(a, b) = {"one", "other"}
  BY DEF PairOf
<1>2. [PairOf(a, b) EXCEPT !["one"] = c] = PairOf(c, b)
  BY DEF PairOf
<1>3. [PairOf(a, b) EXCEPT !["other"] = c] = PairOf(a, c)
  BY DEF PairOf
<1>4. [PairOf(a, b) EXCEPT !["one"] = c, !["other"] = d] = PairOf(c, d)
  BY DEF PairOf
<1>5. [PairOf(a, b) EXCEPT !["other"] = d, !["one"] = c] = PairOf(c, d)
  BY DEF PairOf
<1> QED
  BY <1>1, <1>2, <1>3, <1>4, <1>5

(* The client's maps go from one pair to the other.                        *)
Passing(a, b, a2, b2) == HeldMaps = PairOf(a, b) /\ HeldMaps' = PairOf(a2, b2)

(* What changes one of the maps is a step of KeyMap, ...                   *)
LEMMA OneStepImplements ==
  ASSUME NEW a, NEW b, NEW a2, NEW b2, Passing(a, b, a2, b2),
         NEW K, K \subseteq ChKeys \cup HlKeys, NEW V, V \subseteq ChValues \cup HlValues,
         (C!OneStep(a, a2, K, V) /\ b2 = b) \/ (C!OneStep(b, b2, K, V) /\ a2 = a)
  PROVE  Maps!KMNext
<1>1. /\ HeldMaps["one"] = a /\ HeldMaps["other"] = b /\ HeldMaps'["one"] = a2 /\ HeldMaps'["other"] = b2
      /\ HeldMaps' = PairOf(a2, b2)
      /\ \A c : [HeldMaps EXCEPT !["one"] = c] = PairOf(c, b) /\ [HeldMaps EXCEPT !["other"] = c] = PairOf(a, c)
  BY PairFacts DEF Passing
<1> DEFINE K2 == ChKeys \cup HlKeys
           V2 == ChValues \cup HlValues
<1>2. PICK o \in {"one", "other"} : /\ C!OneStep(HeldMaps[o], HeldMaps'[o], K, V)
                                    /\ HeldMaps' = [HeldMaps EXCEPT ![o] = HeldMaps'[o]]
  BY <1>1
<1>3. ASSUME C!PutStep(HeldMaps[o], HeldMaps'[o], K, V) PROVE Maps!KMNext
  <2>1. PICK k \in K2, v \in V2 : HeldMaps'[o] = C!Put(HeldMaps[o], k, v)
    BY <1>3 DEF C!PutStep
  <2>2. Maps!KMPut(o, k, v)
    BY <1>2, <2>1 DEF Maps!KMPut, Maps!Put, C!Put
  <2> QED
    BY <2>2 DEF Maps!KMNext
<1>4. ASSUME C!RemoveStep(HeldMaps[o], HeldMaps'[o]) PROVE Maps!KMNext
  <2>1. Maps!KMRemove(o)
    BY <1>2, <1>4 DEF Maps!KMRemove, Maps!Restrict, C!Restrict, C!RemoveStep
  <2> QED
    BY <2>1 DEF Maps!KMNext
<1>5. ASSUME C!FillStep(HeldMaps[o], HeldMaps'[o], K, V) PROVE Maps!KMNext
  <2>1. Maps!IsMap(HeldMaps'[o])
    BY <1>5 DEF C!FillStep, C!MapsIn, Maps!IsMap
  <2>2. Maps!KMFill(o)
    BY <1>2, <1>5, <2>1 DEF Maps!KMFill, Maps!MergedInto, C!MergedInto, C!FillStep
  <2> QED
    BY <2>2 DEF Maps!KMNext
<1> QED
  BY <1>2, <1>3, <1>4, <1>5 DEF C!OneStep

(* ... and so is what changes both.                                        *)
LEMMA MapStepImplements ==
  ASSUME NEW a, NEW b, NEW a2, NEW b2, Passing(a, b, a2, b2),
         NEW K, K \subseteq ChKeys \cup HlKeys, NEW V, V \subseteq ChValues \cup HlValues,
         C!MapStep(a, b, a2, b2, K, V)
  PROVE  Maps!KMNext
<1>1. HeldMaps["one"] = a /\ HeldMaps["other"] = b /\ HeldMaps'["one"] = a2 /\ HeldMaps'["other"] = b2
  BY PairFacts DEF Passing
<1>2. /\ \A c, d : /\ [HeldMaps EXCEPT !["one"] = c] = PairOf(c, b)
                   /\ [HeldMaps EXCEPT !["other"] = c] = PairOf(a, c)
                   /\ [HeldMaps EXCEPT !["one"] = c, !["other"] = d] = PairOf(c, d)
                   /\ [HeldMaps EXCEPT !["other"] = d, !["one"] = c] = PairOf(c, d)
      /\ HeldMaps' = PairOf(a2, b2)
  BY PairFacts DEF Passing
<1>3. C!NoKeys = Maps!NoKeys
  BY DEF C!NoKeys, Maps!NoKeys
<1>4. ASSUME a2 = b, b2 \in {a, b, C!NoKeys} PROVE Maps!KMNext
  <2>1. CASE b2 = b
    <3>1. Maps!KMCopy("one", "other")
      BY <1>1, <1>2, <1>4, <2>1 DEF Maps!KMCopy
    <3> QED
      BY <3>1 DEF Maps!KMNext
  <2>2. CASE b2 = a
    <3>1. Maps!KMSwap("one", "other")
      BY <1>1, <1>2, <1>4, <2>2 DEF Maps!KMSwap
    <3> QED
      BY <3>1 DEF Maps!KMNext
  <2>3. CASE b2 = C!NoKeys
    <3>1. Maps!KMMove("one", "other")
      BY <1>1, <1>2, <1>3, <1>4, <2>3 DEF Maps!KMMove
    <3> QED
      BY <3>1 DEF Maps!KMNext
  <2> QED
    BY <1>4, <2>1, <2>2, <2>3
<1>5. ASSUME b2 = a, a2 \in {a, C!NoKeys} PROVE Maps!KMNext
  <2>1. CASE a2 = a
    <3>1. Maps!KMCopy("other", "one")
      BY <1>1, <1>2, <1>5, <2>1 DEF Maps!KMCopy
    <3> QED
      BY <3>1 DEF Maps!KMNext
  <2>2. CASE a2 = C!NoKeys
    <3>1. Maps!KMMove("other", "one")
      BY <1>1, <1>2, <1>3, <1>5, <2>2 DEF Maps!KMMove
    <3> QED
      BY <3>1 DEF Maps!KMNext
  <2> QED
    BY <1>5, <2>1, <2>2
<1>6. ASSUME C!MergedMaps(a, b, a2, b2) PROVE Maps!KMNext
  <2> DEFINE stay == DOMAIN HeldMaps["other"] \cap DOMAIN HeldMaps'["other"]
  <2>1. /\ a2 = C!MergedInto(a, C!Without(b, DOMAIN b2)) /\ b2 = C!Restrict(b, DOMAIN b2)
        /\ DOMAIN b2 \subseteq DOMAIN b /\ DOMAIN a \cap DOMAIN b \subseteq DOMAIN b2
    BY <1>6 DEF C!MergedMaps
  <2>2. a2 = Maps!MergedInto(a, Maps!Without(b, DOMAIN b2))
    BY <2>1 DEF C!MergedInto, Maps!MergedInto, C!Without, Maps!Without, C!Restrict, Maps!Restrict
  <2>3. b2 = Maps!Restrict(b, DOMAIN b2)
    BY <2>1 DEF C!Restrict, Maps!Restrict
  <2>4. stay = DOMAIN b2
    BY <1>1, <2>1
  <2>5. HeldMaps' = [HeldMaps EXCEPT !["one"] = Maps!MergedInto(HeldMaps["one"], Maps!Without(HeldMaps["other"], stay)),
                                     !["other"] = Maps!Restrict(HeldMaps["other"], stay)]
    BY <1>1, <1>2, <2>2, <2>3, <2>4
  <2>6. DOMAIN Maps!LeftBehind(HeldMaps["one"], HeldMaps["other"]) \subseteq stay
    <3>1. DOMAIN Maps!LeftBehind(a, b) = DOMAIN b \cap DOMAIN a
      BY DEF Maps!LeftBehind, Maps!Restrict
    <3> QED
      BY <1>1, <2>1, <2>4, <3>1
  <2>7. Maps!KMMerge("one", "other")
    BY <2>5, <2>6 DEF Maps!KMMerge
  <2> QED
    BY <2>7 DEF Maps!KMNext
<1>7. ASSUME (C!OneStep(a, a2, K, V) /\ b2 = b) \/ (C!OneStep(b, b2, K, V) /\ a2 = a) PROVE Maps!KMNext
  BY <1>7, OneStepImplements
<1> QED
  BY <1>4, <1>5, <1>6, <1>7 DEF C!MapStep

(* What hl_hashmaps do to maps is what hashmaps do to them.                *)
LEMMA MapStepsAgree ==
  ASSUME NEW a, NEW b, NEW a2, NEW b2, NEW K, NEW V, H!MapStep(a, b, a2, b2, K, V)
  PROVE  C!MapStep(a, b, a2, b2, K, V)
<1>1. ASSUME NEW m, NEW w, H!OneStep(m, w, K, V) PROVE C!OneStep(m, w, K, V)
  <2>1. CASE H!PutStep(m, w, K, V)
    BY <2>1 DEF C!OneStep, H!PutStep, C!PutStep, H!Put, C!Put
  <2>2. CASE H!RemoveStep(m, w)
    BY <2>2 DEF C!OneStep, H!RemoveStep, C!RemoveStep, H!Restrict, C!Restrict
  <2>3. CASE H!FillStep(m, w, K, V)
    BY <2>3 DEF C!OneStep, H!FillStep, C!FillStep, H!MapsIn, C!MapsIn, H!MergedInto, C!MergedInto
  <2> QED
    BY <1>1, <2>1, <2>2, <2>3 DEF H!OneStep
<1>2. H!NoKeys = C!NoKeys
  BY DEF H!NoKeys, C!NoKeys
<1>3. ASSUME H!MergedMaps(a, b, a2, b2) PROVE C!MergedMaps(a, b, a2, b2)
  BY <1>3 DEF H!MergedMaps, C!MergedMaps, H!MergedInto, C!MergedInto, H!Without, C!Without, H!Restrict, C!Restrict
<1> QED
  BY <1>1, <1>2, <1>3 DEF H!MapStep, C!MapStep

(* Two hashmaps, or two hl_hashmaps, of a client implement two maps: what  *)
(* a step does to their buckets is what some step of KeyMap does to the    *)
(* maps.                                                                   *)
THEOREM TablesImplementMaps == ObjectsSpec => TablesImplementMap
<1>1. ObjectsInv => Maps!KMInit
  <2> SUFFICES ASSUME ObjectsInv PROVE Maps!KMInit
    OBVIOUS
  <2>1. ASSUME NEW a, NEW b, HeldMaps = PairOf(a, b), Maps!IsMap(a), Maps!IsMap(b) PROVE Maps!KMInit
    BY <2>1, PairFacts DEF Maps!KMInit
  <2>2. ASSUME subject = "chained" PROVE Maps!KMInit
    <3>1. C!MapsIn(C!Content(tab), ChKeys, ChValues) /\ C!MapsIn(C!Content(tab_other), ChKeys, ChValues)
      BY <2>2, ObjectsAssumption, C!ChInvMaps DEF ObjectsInv
    <3>2. Maps!IsMap(C!Content(tab)) /\ Maps!IsMap(C!Content(tab_other))
      BY <3>1 DEF C!MapsIn, Maps!IsMap
    <3> QED
      BY <2>1, <2>2, <3>2 DEF HeldMaps, PairOf
  <2>3. ASSUME subject = "hl" PROVE Maps!KMInit
    <3>1. H!MapsIn(H!HlContent(hl), HlKeys, HlValues) /\ H!MapsIn(H!HlContent(hl_other), HlKeys, HlValues)
      BY <2>3, ObjectsAssumption, H!HlInvMaps DEF ObjectsInv
    <3>2. Maps!IsMap(H!HlContent(hl)) /\ Maps!IsMap(H!HlContent(hl_other))
      BY <3>1 DEF H!MapsIn, Maps!IsMap
    <3> QED
      BY <2>1, <2>3, <3>2 DEF HeldMaps, PairOf
  <2>4. ASSUME subject # "chained", subject # "hl" PROVE Maps!KMInit
    <3>1. Maps!IsMap(<<>>)
      BY DEF Maps!IsMap
    <3> QED
      BY <2>1, <2>4, <3>1 DEF HeldMaps, PairOf
  <2> QED
    BY <2>2, <2>3, <2>4
<1>2. ObjectsInv /\ ObjectsInv' /\ [ObjectsNext]_<<subject, object_vars>> => [Maps!KMNext]_HeldMaps
  <2> SUFFICES ASSUME ObjectsInv, ObjectsInv', [ObjectsNext]_<<subject, object_vars>>
               PROVE [Maps!KMNext]_HeldMaps
    OBVIOUS
  <2>1. /\ UNCHANGED subject
        /\ subject = "hl" => [H!HlNext]_hl_vars
        /\ subject = "chained" => [C!Next]_table_vars
    BY DEF ObjectsNext, object_vars
  <2>2. ASSUME subject # "chained", subject # "hl" PROVE UNCHANGED HeldMaps
    BY <2>1, <2>2 DEF HeldMaps
  <2>3. ASSUME subject = "hl", UNCHANGED hl_vars PROVE UNCHANGED HeldMaps
    BY <2>1, <2>3 DEF HeldMaps, hl_vars
  <2>4. ASSUME subject = "chained", UNCHANGED table_vars PROVE UNCHANGED HeldMaps
    BY <2>1, <2>4 DEF HeldMaps, table_vars
  <2>5. ASSUME subject = "hl", H!HlNext PROVE [Maps!KMNext]_HeldMaps
    <3> DEFINE a == H!HlContent(hl)
               b == H!HlContent(hl_other)
    <3>1. HeldMaps = PairOf(a, b) /\ HeldMaps' = PairOf(a', b')
      BY <2>1, <2>5 DEF HeldMaps, PairOf
    <3>2. \/ H!MapStep(a, b, a', b', HlKeys, HlValues)
          \/ a' = a /\ b' = b
      BY <2>1, <2>5, ObjectsAssumption, H!HlStepMaps DEF ObjectsInv
    <3> HIDE DEF a, b
    <3>3. ASSUME H!MapStep(a, b, a', b', HlKeys, HlValues) PROVE Maps!KMNext
      <4>1. C!MapStep(a, b, a', b', HlKeys, HlValues)
        BY <3>3, MapStepsAgree
      <4>2. Passing(a, b, a', b')
        BY <3>1 DEF Passing
      <4> QED
        BY <4>1, <4>2, MapStepImplements
    <3> QED
      BY <3>1, <3>2, <3>3
  <2>6. ASSUME subject = "chained", C!Next PROVE [Maps!KMNext]_HeldMaps
    <3> DEFINE a == C!Content(tab)
               b == C!Content(tab_other)
    <3>1. HeldMaps = PairOf(a, b) /\ HeldMaps' = PairOf(a', b')
      BY <2>1, <2>6 DEF HeldMaps, PairOf
    <3>2. \/ C!MapStep(a, b, a', b', ChKeys, ChValues)
          \/ a' = a /\ b' = b
      BY <2>1, <2>6, ObjectsAssumption, C!ChStepMaps DEF ObjectsInv
    <3> HIDE DEF a, b
    <3>3. ASSUME C!MapStep(a, b, a', b', ChKeys, ChValues) PROVE Maps!KMNext
      <4>1. Passing(a, b, a', b')
        BY <3>1 DEF Passing
      <4> QED
        BY <3>3, <4>1, MapStepImplements
    <3> QED
      BY <3>1, <3>2, <3>3
  <2> QED
    BY <2>1, <2>2, <2>3, <2>4, <2>5, <2>6
<1> QED
  BY <1>1, <1>2, ObjectsInvariance, PTL DEF ObjectsSpec, TablesImplementMap, Maps!KMSpec
===============================================================================
