----------------------------- MODULE BasicString -----------------------------
(***************************************************************************)
(* acul::basic_string: the characters are in the object itself (STACK, up  *)
(* to Sso - 1 of them), in the literal the string was made of (RDATA), or  *)
(* in a block of its own (HEAP).  buf is what is there: characters, the    *)
(* terminator End, and Junk where nothing was written.  It is as long as   *)
(* _lalloc.cap says, or Sso.                                               *)
(*                                                                         *)
(* The object's own characters share their bytes with the pointer and the  *)
(* capacity, so they are lost as soon as the string grows (replace()), and *)
(* a call that exchanges a string in the object for another mixes the two  *)
(* up (swap()): the guards of the client leave these calls out.  No        *)
(* argument is part of the string itself.                                  *)
(*                                                                         *)
(* The client has a second string, which holds one of the pieces.          *)
(***************************************************************************)
EXTENDS Alloc, Seqs, SequencesExt

CONSTANTS Chars,
          End, Junk,
          Sso,              (* _sso_size                                    *)
          Pieces,           (* the texts of literals, views and arguments   *)
          Lengths,          (* what a call that takes a number of them gets *)
          MaxLength,        (* bound: the client makes no longer string     *)
          MaxBlock          (* bound: nor one with a larger block           *)

VARIABLES str, str_other

string_vars == <<str, str_other>>

JunkChars(n) == Repeated(n, Junk)

(* memcpy() to the character at.                                           *)
PutChars(buf, at, t) == [i \in 1 .. Len(buf) |-> IF i > at /\ i <= at + Len(t) THEN t[i - at] ELSE buf[i]]

Terminated(t) == Append(t, End)

Text(s) == UpTo(s.buf, s.size)

Capacity(s) == IF s.flag = "STACK" THEN s.size + 1 ELSE Len(s.buf)

-----------------------------------------------------------------------------
(* Construction, by where the characters are.                              *)

Literal(t) == [flag |-> "RDATA", size |-> Len(t), buf |-> Terminated(t)]

InObject(t) == [flag |-> "STACK", size |-> Len(t), buf |-> PutChars(JunkChars(Sso), 0, Terminated(t))]

InBlock(t) == [flag |-> "HEAP", size |-> Len(t), buf |-> Terminated(t)]

ConstructedString(t) == IF Len(t) >= Sso THEN InBlock(t) ELSE InObject(t)

Empty == [flag |-> "STACK", size |-> 0, buf |-> Repeated(Sso, End)]

(* grow: to a new block with what the old one had.                         *)
Grow(s, n) ==
  [s EXCEPT !.flag = "HEAP",
            !.buf = PutChars(JunkChars(GrowthSize(Capacity(s), n)), 0,
                             IF s.flag = "HEAP" THEN s.buf ELSE UpTo(s.buf, s.size + 1))]

HasRoom(s, n) == s.flag = "HEAP" /\ Len(s.buf) >= n + 1

(* Mutant: the object takes over without the literal's last character.     *)
OwnShort(s) == IF s.flag = "RDATA" THEN InObject(UpTo(s.buf, s.size - 1)) ELSE s

(* A literal's text is copied before it is changed.                        *)
Own(s) == IF s.flag = "RDATA" THEN InObject(Text(s)) ELSE s

(* Where a text of n characters is put together.                           *)
RoomFor(s, n) ==
  IF s.flag # "HEAP" /\ n < Sso THEN Own(s)
  ELSE IF HasRoom(s, n) THEN s ELSE Grow(s, n + 1)

(* The copy constructor.                                                   *)
Copied(s) == IF s.flag = "STACK" THEN InObject(Text(s)) ELSE s

(* operator= of another string.  A block grows at each assignment.         *)
StringCopyAssign(s, o) ==
  IF o.flag = "RDATA" THEN o
  ELSE IF s.flag = "STACK" /\ Capacity(o) <= Sso THEN [o EXCEPT !.buf = PutChars(s.buf, 0, UpTo(o.buf, Capacity(o)))]
  ELSE [Grow(s, Capacity(o)) EXCEPT !.buf = PutChars(@, 0, UpTo(o.buf, Capacity(o))), !.size = o.size]

(* What moving out leaves: the constructor forgets the characters (it is   *)
(* the pointer that becomes null), operator= leaves a short string alone.  *)
MovedFrom(s) == IF s.flag = "STACK" THEN [s EXCEPT !.size = 0] ELSE InObject(<<>>)

MoveAssignedFrom(s) == IF s.flag = "STACK" THEN s ELSE Empty

-----------------------------------------------------------------------------
(* Changes.                                                                *)

(* operator+= and append of a string, a view or a character.               *)
AppendText(s, t) ==
  IF t = <<>> THEN s
  ELSE [RoomFor(s, s.size + Len(t)) EXCEPT !.buf = PutChars(@, s.size, Terminated(t)), !.size = s.size + Len(t)]

(* append of a count or a range: one by one.                               *)
AppendEach(s, t) ==
  LET done[n \in 0 .. Len(t)] == IF n = 0 THEN s ELSE AppendText(done[n - 1], <<t[n]>>)
  IN done[Len(t)]

StringClear(s) == Empty

Assign(s, t) == AppendText(StringClear(s), t)

AssignEach(s, t) == AppendEach(StringClear(s), t)

(* operator+: a new string, except that the left one's block is used when  *)
(* it has room; its terminator is then gone.                               *)
PlusLeft(s, o) == IF s.size + o.size >= Sso /\ HasRoom(s, s.size + o.size)
                    THEN [s EXCEPT !.buf = PutChars(@, s.size, Terminated(Text(o)))] ELSE s

Plus(s, o) ==
  LET n == s.size + o.size IN
  IF n < Sso THEN InObject(Text(s) \o Text(o))
  ELSE IF HasRoom(s, n) THEN [StringCopyAssign(Empty, PlusLeft(s, o)) EXCEPT !.size = n]
  ELSE [Grow(Empty, n + 1) EXCEPT !.buf = PutChars(@, 0, Terminated(Text(s) \o Text(o))), !.size = n]

PlusChar(s, c) ==
  IF s.size + 1 < Sso THEN InObject(Append(Text(s), c))
  ELSE [Grow(Empty, s.size + 2) EXCEPT !.buf = PutChars(@, 0, Terminated(Append(Text(s), c))), !.size = s.size + 1]

(* substr.                                                                 *)
Part(s, pos, n) ==
  IF pos >= s.size THEN Empty
  ELSE ConstructedString(IF n < s.size - pos THEN UpTo(After(Text(s), pos), n) ELSE After(Text(s), pos))

(* Mutant: the terminator is not moved along.                              *)
EraseTextOnly(s, pos, n) ==
  LET own == RoomFor(s, s.size)
      count == IF pos + n > s.size THEN s.size - pos ELSE n
  IN IF count = 0 THEN s
     ELSE [own EXCEPT !.buf = PutChars(@, pos, After(Text(s), pos + count)), !.size = @ - count]

StringErase(s, pos, n) ==
  LET own == RoomFor(s, s.size)
      count == IF pos + n > s.size THEN s.size - pos ELSE n
  IN IF count = 0 THEN s
     ELSE [own EXCEPT !.buf = PutChars(@, pos, Terminated(After(Text(s), pos + count))), !.size = @ - count]

(* replace: the part goes first over what was there, then the tail is      *)
(* moved, from where the text was.                                         *)
Replace(s, pos, len, t) ==
  LET count == IF len < s.size - pos THEN len ELSE s.size - pos
      n == s.size - count + Len(t)
      room == RoomFor(s, n)
      moved == s.flag # "RDATA" /\ room.buf # s.buf
      old == IF s.flag = "RDATA" THEN s.buf ELSE IF moved THEN JunkChars(s.size) ELSE PutChars(s.buf, pos, t)
      tail == After(UpTo(old, s.size), pos + count)
  IN IF pos > s.size THEN s
     ELSE [room EXCEPT !.buf = PutChars(@, 0, UpTo(old, pos) \o t \o tail \o <<End>>), !.size = n]

(* resize: a literal's text always goes to a block.                        *)
StringResize(s, n, c) ==
  LET room == IF (s.flag = "STACK" /\ n < Sso) \/ HasRoom(s, n) THEN s ELSE Grow(s, n + 1)
  IN IF n = s.size THEN s
     ELSE [room EXCEPT !.buf = PutChars(PutChars(@, s.size, Repeated(n - s.size, c)), n, <<End>>), !.size = n]

StringReserve(s, n) == IF n < Sso \/ HasRoom(s, n) THEN s ELSE Grow(s, n + 1)

(* rfind: the last place where t is, up to one that ends at pos.           *)
Rfind(s, t, pos) ==
  LET start == IF pos + 1 < Len(t) \/ pos >= s.size THEN s.size - Len(t) ELSE pos - Len(t) + 1
      At(i) == UpTo(After(s.buf, i), Len(t)) = t
      places == {i \in 0 .. start : At(i)}
  IN IF t = <<>> THEN IF pos > s.size THEN s.size ELSE pos
     ELSE IF Len(t) > s.size \/ places = {} THEN -1
     ELSE CHOOSE i \in places : \A j \in places : j <= i

-----------------------------------------------------------------------------
(* The client.                                                             *)

StringInit == str = Empty /\ str_other = Empty

StringBecomes(s) == s.size <= MaxLength /\ Len(s.buf) <= MaxBlock /\ str' = s /\ UNCHANGED str_other

GivesString(s, o) == Text(o) \in Pieces \cup {<<>>} /\ Len(o.buf) <= MaxBlock /\ str' = s /\ str_other' = o

(* A block no larger than the object would be copied as if it were one.    *)
Assignable(s, o) == s.flag # "STACK" \/ o.flag # "HEAP" \/ Len(o.buf) > Sso

Swappable(s, o) == (s.flag = "STACK") = (o.flag = "STACK")

(* The old text is still there when the new one is put together.           *)
StringReplaceable(s, pos, len, t) ==
  LET count == IF len < s.size - pos THEN len ELSE s.size - pos
      n == s.size - count + Len(t)
  IN \/ s.flag = "RDATA"
     \/ (IF s.flag = "STACK" THEN n < Sso ELSE HasRoom(s, n)) /\ (Len(t) <= count \/ pos + count = s.size)
     \/ pos = 0 /\ count = s.size

AppendOne(c) == StringBecomes(AppendText(str, <<c>>))

AppendPiece(t) == StringBecomes(AppendText(str, t)) \/ StringBecomes(AppendEach(str, t))

AssignPiece(t) == StringBecomes(Assign(str, t)) \/ StringBecomes(AssignEach(str, t))

ErasePart(pos, n) == pos <= str.size /\ StringBecomes(StringErase(str, pos, n))

ReplacePart(pos, len, t) ==
  pos <= str.size /\ StringReplaceable(str, pos, len, t) /\ StringBecomes(Replace(str, pos, len, t))

StringResizeTo(n, c) == StringBecomes(StringResize(str, n, c))

StringReserveFor(n) == StringBecomes(StringReserve(str, n))

StringClearAll == StringBecomes(StringClear(str))

TakePart(pos, n) == StringBecomes(Part(str, pos, n))

(* A string is added up; the left operand must keep its terminator.        *)
Add ==
  \/ Assignable(Empty, str) /\ PlusLeft(str, str_other) = str /\ StringBecomes(Plus(str, str_other))
  \/ \E c \in Chars : StringBecomes(PlusChar(str, c))

StringConstruct(t) == GivesString(str, Literal(t)) \/ GivesString(str, ConstructedString(t))

ConstructCopy == GivesString(str, Copied(str))

CopyString == Assignable(str_other, str) /\ GivesString(str, StringCopyAssign(str_other, str))

(* What has been moved from is cleared before it is used again.            *)
MoveOutString == GivesString(StringClear(MovedFrom(str)), Copied(str)) \/ GivesString(MoveAssignedFrom(str), str)

StringSwap == Swappable(str, str_other) /\ GivesString(str_other, str)

(* assign() of a string to be moved: a swap with an empty one.             *)
AssignMoved == Swappable(Empty, str) /\ GivesString(Empty, str)

StringStep ==
  \/ \E t \in Pieces : AppendPiece(t) \/ AssignPiece(t) \/ StringConstruct(t)
  \/ \E pos \in 0 .. str.size, n \in Lengths :
       ErasePart(pos, n) \/ TakePart(pos, n) \/ \E t \in Pieces : ReplacePart(pos, n, t)
  \/ \E n \in Lengths : StringReserveFor(n) \/ \E c \in Chars : StringResizeTo(n, c)
  \/ \E c \in Chars : AppendOne(c)
  \/ StringClearAll \/ Add \/ ConstructCopy \/ CopyString \/ MoveOutString \/ StringSwap \/ AssignMoved

StringSpec == StringInit /\ [][StringStep]_string_vars
-----------------------------------------------------------------------------
(* Properties.                                                             *)

(* The text is inside what the string has, was all written, and is         *)
(* followed by its terminator, wherever the string keeps it.               *)
Sound(s) ==
  /\ s.size < Len(s.buf)
  /\ \A i \in 1 .. s.size : s.buf[i] \in Chars
  /\ s.buf[s.size + 1] = End
  /\ s.flag = "STACK" => Len(s.buf) = Sso

StringsTerminated == Sound(str) /\ Sound(str_other)

(* Every call makes the text it says, whether it stays where it is, is     *)
(* taken out of a literal or goes to another block.                        *)
StringCallsAgree ==
  LET t == Text(str) IN
  /\ \A p \in Pieces : Text(AppendText(str, p)) = t \o p /\ Text(AppendEach(str, p)) = t \o p /\ Text(Assign(str, p)) = p
  /\ \A pos, n \in 0 .. str.size :
       /\ pos + n <= str.size => Text(StringErase(str, pos, n)) = WithoutPart(t, pos, pos + n)
       /\ pos + n <= str.size => Text(Part(str, pos, n)) = UpTo(After(t, pos), n)
       /\ \A p \in Pieces :
            /\ StringReplaceable(str, pos, n, p) =>
                 Text(Replace(str, pos, n, p))
                   = UpTo(t, pos) \o p \o After(t, IF pos + n > str.size THEN str.size ELSE pos + n)
            /\ LET i == Rfind(str, p, pos) IN
               i >= 0 /\ pos + 1 >= Len(p) => WithInserted(WithoutPart(t, i, i + Len(p)), i, p) = t /\ i + Len(p) <= pos + 1
  /\ \A n \in Lengths : Text(StringReserve(str, n)) = t /\ \A c \in Chars : Text(StringResize(str, n, c)) = Resized(t, n, c)
  /\ Assignable(Empty, str) => Text(Plus(str, str_other)) = t \o Text(str_other)
  /\ Text(Copied(str)) = t
  /\ Assignable(str_other, str) => Text(StringCopyAssign(str_other, str)) = t
=============================================================================
