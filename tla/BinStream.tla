------------------------------- MODULE BinStream -------------------------------
(***************************************************************************)
(* acul::bin_stream: bytes that are written behind one another and read    *)
(* from a position.  Nothing in the bytes says what they are: the reader   *)
(* makes the calls that match those of the writer.  It may read a part of  *)
(* the stream that was cut anywhere, and read again what it has read.      *)
(*                                                                         *)
(* A scalar takes Width bytes, the lowest first, and a list begins with    *)
(* its length; text ends with a zero byte and has none.  Sizes and         *)
(* positions stay far below 2^32.                                          *)
(***************************************************************************)
EXTENDS Naturals, SequencesExt

CONSTANTS Width,
          Base,             (* the values of a byte: 0 .. Base - 1          *)
          Items,            (* what is written: a kind and what it is of    *)
          MaxItems,         (* bound: the writer writes no more             *)
          Nothing

VARIABLES stream,           (* _data and _pos                               *)
          written,          (* what was written, where and how long         *)
          next,             (* the item the reader is at                    *)
          got               (* the item the last call read, and what it got *)

vars == <<stream, written, next, got>>

(* What is left of a value behind its first i bytes.                       *)
Rests(v) == LET rest[i \in 0 .. Width] == IF i = 0 THEN v ELSE rest[i - 1] \div Base IN rest

Bytes(v) == [i \in 1 .. Width |-> Rests(v)[i - 1] % Base]

(* The value of the last n bytes.                                          *)
Numbers(b) ==
  LET number[n \in 0 .. Len(b)] == IF n = 0 THEN 0 ELSE b[Len(b) - n + 1] + Base * number[n - 1] IN number

Number(b) == Numbers(b)[Len(b)]

(* What the mask of align_up() does for a power of two, which it is given. *)
AlignUp(x, a) == ((x + a - 1) \div a) * a

-----------------------------------------------------------------------------
(* The bytes each write adds, by kind: the overloads of write, write_pad   *)
(* and write_align.                                                        *)

(* The bytes of a list up to its n-th value.                               *)
Lists(s) ==
  LET list[n \in 0 .. Len(s)] == IF n = 0 THEN Bytes(Len(s)) ELSE list[n - 1] \o Bytes(s[n]) IN list

WriteList(s) == Lists(s)[Len(s)]

Padding(n) == [i \in 1 .. n |-> 0]

Added(size, item) ==
  CASE item.kind = "value" -> Bytes(item.val)
    [] item.kind = "list" -> WriteList(item.val)
    [] item.kind = "string" -> Append(item.val, 0)
    [] item.kind = "raw" -> item.val
    [] item.kind = "pad" -> Padding(item.val)
    [] item.kind = "align" -> Padding(AlignUp(size, item.val) - size)

-----------------------------------------------------------------------------
(* Each read: the stream after it, whether it threw, and what it got.      *)

Result(st, ok, val) == [st |-> st, ok |-> ok, val |-> val]

ReadRaw(st, n) ==
  IF st.pos + n <= Len(st.data)
    THEN Result([st EXCEPT !.pos = @ + n], TRUE, SubSeq(st.data, st.pos + 1, st.pos + n))
    ELSE Result(st, FALSE, Nothing)

(* Mutant: the last value of a stream is not found.                        *)
ReadValueBefore(st) ==
  LET r == ReadRaw(st, Width)
  IN IF r.ok /\ r.st.pos < Len(st.data) THEN [r EXCEPT !.val = Number(@)] ELSE Result(st, FALSE, Nothing)

ReadValue(st) ==
  LET r == ReadRaw(st, Width) IN IF r.ok THEN [r EXCEPT !.val = Number(@)] ELSE r

(* One more value of a list, unless a read has thrown.                     *)
ReadMore(r) ==
  LET x == ReadValue(r.st)
  IN IF r.ok THEN Result(x.st, x.ok, IF x.ok THEN Append(r.val, x.val) ELSE r.val) ELSE r

Reads(st, n) ==
  LET read[i \in 0 .. n] == IF i = 0 THEN Result(st, TRUE, <<>>) ELSE ReadMore(read[i - 1]) IN read

(* A list that is cut leaves the stream behind the values it has.          *)
ReadList(st) ==
  LET count == ReadValue(st) IN IF count.ok THEN Reads(count.st, count.val)[count.val] ELSE count

(* Text goes to its zero byte, or to the end without complaint.            *)
ReadString(st) ==
  LET rest == SubSeq(st.data, st.pos + 1, Len(st.data))
      zero == SelectInSeq(rest, LAMBDA c : c = 0)
  IN IF zero = 0 THEN Result([st EXCEPT !.pos = @ + Len(rest)], TRUE, rest)
     ELSE Result([st EXCEPT !.pos = @ + zero], TRUE, SubSeq(rest, 1, zero - 1))

(* pos(p).                                                                 *)
Moved(st, p) == IF p > Len(st.data) THEN Result(st, FALSE, Nothing) ELSE Result([st EXCEPT !.pos = p], TRUE, Nothing)

Shifted(st, n) == Result([st EXCEPT !.pos = @ + n], TRUE, Nothing)

(* The call that matches an item; padding is skipped.                      *)
ReadItem(st, item) ==
  CASE item.kind = "value" -> ReadValue(st)
    [] item.kind = "list" -> ReadList(st)
    [] item.kind = "string" -> ReadString(st)
    [] item.kind = "raw" -> ReadRaw(st, Len(item.val))
    [] item.kind = "pad" -> Shifted(st, item.val)
    [] item.kind = "align" -> Moved(st, AlignUp(st.pos, item.val))

-----------------------------------------------------------------------------
(* The client.                                                             *)

Init == /\ stream = [data |-> <<>>, pos |-> 0, cut |-> FALSE]
        /\ written = <<>> /\ next = 1 /\ got = Nothing

Write(item) ==
  LET more == Added(Len(stream.data), item) IN
  /\ ~ stream.cut /\ Len(written) < MaxItems
  /\ stream' = [stream EXCEPT !.data = @ \o more]
  /\ written' = Append(written, [kind |-> item.kind, val |-> item.val, at |-> Len(stream.data), len |-> Len(more)])
  /\ got' = Nothing
  /\ UNCHANGED next

(* A stream is built from the first n bytes.                               *)
Cut(n) == /\ stream' = [data |-> SubSeq(stream.data, 1, n), pos |-> 0, cut |-> TRUE]
          /\ next' = 1 /\ got' = Nothing
          /\ UNCHANGED written

(* The reader goes on to the next item when a call does not throw.         *)
Read ==
  /\ next <= Len(written)
  /\ LET r == ReadItem(stream, written[next]) IN
     /\ stream' = r.st
     /\ got' = [item |-> next, ok |-> r.ok, val |-> r.val]
     /\ next' = IF r.ok THEN next + 1 ELSE Len(written) + 1
  /\ UNCHANGED written

(* Where nothing more was written yet a read of a scalar, a list or raw    *)
(* bytes throws, and the reader may try again later.                       *)
ReadTooEarly(item) ==
  /\ ~ stream.cut /\ next = Len(written) + 1 /\ item.kind \in {"value", "list", "raw"}
  /\ LET r == ReadItem(stream, item) IN stream' = r.st /\ got' = [item |-> 0, ok |-> r.ok, val |-> r.val]
  /\ UNCHANGED <<written, next>>

(* pos() of an item that was there before.                                 *)
Rewind(i) ==
  /\ LET r == Moved(stream, written[i].at) IN r.ok /\ stream' = r.st
  /\ next' = i /\ got' = Nothing
  /\ UNCHANGED written

Step ==
  \/ \E item \in Items : Write(item) \/ ReadTooEarly(item)
  \/ \E n \in 0 .. Len(stream.data) : Cut(n)
  \/ Read
  \/ \E i \in 1 .. Len(written) : Rewind(i)

Spec == Init /\ [][Step]_vars
-----------------------------------------------------------------------------
(* Properties.                                                             *)

Skipped == {"pad", "align"}

(* What is wholly there is read as it was written, however writes, reads   *)
(* and returns to earlier positions follow one another; what was cut makes *)
(* the read throw, except text, of which a part is returned; a read that   *)
(* throws before anything was written can be made again.                   *)
ReadsWhatWasWritten ==
  got # Nothing =>
    IF got.item = 0 THEN ~ got.ok /\ stream.pos = Len(stream.data)
    ELSE LET w == written[got.item]
             whole == w.at + w.len <= Len(stream.data)
         IN /\ whole => /\ got.ok /\ stream.pos = w.at + w.len
                        /\ w.kind \notin Skipped => got.val = w.val
            /\ ~ whole /\ w.kind = "string" /\ w.at <= Len(stream.data) => IsPrefix(got.val, w.val)
            /\ ~ whole /\ w.kind \notin Skipped \cup {"string"} => ~ got.ok
=============================================================================
