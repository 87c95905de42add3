----------------------------- MODULE DisposalQueue -----------------------------
(***************************************************************************)
(* acul::disposal_queue: what is to be freed later is pushed together with *)
(* a callback that waits until it may be freed, and flush() takes one push *)
(* after another, waits, and frees its buffers.  The queue is TBB's: push  *)
(* and try_pop are atomic, and any thread may call push() and flush() at   *)
(* any time, the callbacks included.  A callback that throws ends flush(); *)
(* the buffers it had not come to yet are destroyed without on_free.       *)
(***************************************************************************)
EXTENDS Naturals, FiniteSets, SequencesExt

CONSTANTS Threads,
          Pushes,           (* bound: the pushes, in their order            *)
          Buffers,          (* how many buffers a push may have             *)
          Idle

VARIABLES queue,            (* _queue                                       *)
          data,             (* the entry each flush() works on, or Idle     *)
          log               (* what was called and freed, entry by entry    *)

queue_vars == <<queue, data, log>>

(* Where flush() is with its entry: at on_wait, at on_free or the reset of *)
(* buffer i, or at the next try_pop.                                       *)
At(entry, pc, i) == [entry |-> entry, pc |-> pc, i |-> i]

NextPop == At([id |-> 0, wait |-> FALSE, buffers |-> 0], "pop", 0)

Pushed == {e \in Pushes : log[e] # <<>>}

InFlush(t) == data[t] # Idle

QueueInit == /\ queue = <<>>
        /\ data = [t \in Threads |-> Idle]
        /\ log = [e \in Pushes |-> <<>>]

(* What an entry has seen: it was pushed, on_wait, on_free or the reset of *)
(* a buffer was called, or it was given up with an exception.              *)
Noted(e, what) == log' = [log EXCEPT ![e] = Append(@, what)]

-----------------------------------------------------------------------------
(* push, with or without on_wait, and emplace.                             *)
Push(wait, n) ==
  /\ Pushed # Pushes
  /\ LET e == CHOOSE x \in Pushes \ Pushed : \A y \in Pushes \ Pushed : x <= y
     IN queue' = Append(queue, [id |-> e, wait |-> wait, buffers |-> n]) /\ Noted(e, <<"pushed", wait, n>>)
  /\ UNCHANGED data

Flush(t) == ~ InFlush(t) /\ data' = [data EXCEPT ![t] = NextPop] /\ UNCHANGED <<queue, log>>

Returned(t) == data' = [data EXCEPT ![t] = Idle]

(* try_pop.                                                                *)
Pop(t) ==
  /\ InFlush(t) /\ data[t].pc = "pop" /\ queue # <<>>
  /\ queue' = Tail(queue)
  /\ data' = [data EXCEPT ![t] = At(Head(queue), "wait", 1)]
  /\ UNCHANGED log

FindEmpty(t) ==
  /\ InFlush(t) /\ data[t].pc = "pop" /\ queue = <<>>
  /\ Returned(t)
  /\ UNCHANGED <<queue, log>>

(* Mutant: the loop ends one buffer early.                                 *)
FromShort(entry, i) == IF i >= entry.buffers THEN NextPop ELSE At(entry, "free", i)

(* Where flush() goes on from: the next buffer, or the next entry.         *)
From(entry, i) == IF i > entry.buffers THEN NextPop ELSE At(entry, "free", i)

OnWait(t) ==
  /\ InFlush(t) /\ data[t].pc = "wait"
  /\ IF data[t].entry.wait THEN Noted(data[t].entry.id, <<"waited">>) ELSE UNCHANGED log
  /\ data' = [data EXCEPT ![t] = From(data[t].entry, 1)]
  /\ UNCHANGED queue

(* A buffer may have no on_free.                                           *)
OnFree(t) ==
  /\ InFlush(t) /\ data[t].pc = "free"
  /\ Noted(data[t].entry.id, <<"on_free", data[t].i>>)
  /\ data' = [data EXCEPT ![t].pc = "reset"]
  /\ UNCHANGED queue

ResetBuffer(t) ==
  /\ InFlush(t) /\ data[t].pc = "reset"
  /\ Noted(data[t].entry.id, <<"reset", data[t].i>>)
  /\ data' = [data EXCEPT ![t] = From(data[t].entry, data[t].i + 1)]
  /\ UNCHANGED queue

(* on_wait or on_free throws: flush() ends and its entry is destroyed.     *)
Throw(t) ==
  /\ InFlush(t) /\ (data[t].pc = "free" \/ (data[t].pc = "wait" /\ data[t].entry.wait))
  /\ Noted(data[t].entry.id, <<"dropped", data[t].i>>)
  /\ Returned(t)
  /\ UNCHANGED queue

QueueStep ==
  \/ \E wait \in BOOLEAN, n \in Buffers : Push(wait, n)
  \/ \E t \in Threads : \/ Flush(t) \/ Pop(t) \/ FindEmpty(t)
                        \/ OnWait(t) \/ OnFree(t) \/ ResetBuffer(t) \/ Throw(t)

QueueSpec == QueueInit /\ [][QueueStep]_queue_vars
-----------------------------------------------------------------------------
(* Properties.                                                             *)

(* All that is to be seen of an entry, in its order.                       *)
Whole(wait, n) ==
  << <<"pushed", wait, n>> >> \o (IF wait THEN << <<"waited">> >> ELSE <<>>)
  \o [j \in 1 .. 2 * n |-> IF j % 2 = 1 THEN <<"on_free", j \div 2 + 1>> ELSE <<"reset", j \div 2>>]

(* With flush() running in several threads and pushes at any time, every   *)
(* entry is in the queue, in the hands of one flush(), or done with; its   *)
(* on_wait comes before its first on_free; and each buffer is freed once   *)
(* and destroyed after that, except those an exception has dropped.        *)
EachFreedOnce ==
  \A e \in Pushed :
    LET seen == log[e]
        thrown == Last(seen)[1] = "dropped"
        called == IF thrown THEN Front(seen) ELSE seen
        whole == Whole(seen[1][2], seen[1][3])
        holders == {t \in Threads : InFlush(t) /\ data[t].entry.id = e}
        waiting == {i \in DOMAIN queue : queue[i].id = e}
    IN /\ IsPrefix(called, whole)
       /\ Cardinality(holders) + Cardinality(waiting) <= IF thrown THEN 0 ELSE 1
       /\ called # whole => thrown \/ holders # {} \/ waiting # {}
=============================================================================
