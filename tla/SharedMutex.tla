----------------------------- MODULE SharedMutex -----------------------------
(***************************************************************************)
(* acul::shared_mutex: one atomic int per hardware thread.  A reader       *)
(* counts itself in the entry its thread-local index selects, a writer     *)
(* takes every entry in ascending order.  A thread that must wait sleeps   *)
(* on the entry (futex_wait on Linux, WaitOnAddress on Windows) and is     *)
(* woken by whoever releases the entry.                                    *)
(*                                                                         *)
(* Every atomic access, system call and client call is a step of its own,  *)
(* so all the interleavings of the threads are behaviours of this module.  *)
(***************************************************************************)
EXTENDS Integers, FiniteSets

CONSTANTS Threads,          (* the threads that use one mutex               *)
          NumEntries,       (* std::thread::hardware_concurrency()          *)
          Linux,            (* TRUE: futex build, FALSE: Windows build      *)
          SpuriousFailure,  (* may compare_exchange_weak fail although the  *)
                            (* value is the expected one (not on x86)       *)
          MAX_INT,          (* the largest int (2^31 - 1 in both builds)    *)
          MaxOps            (* bound: acquisitions a thread begins          *)

ASSUME ConstantsAssumption ==
  /\ IsFiniteSet(Threads)
  /\ MAX_INT \in Nat \ {0}
  /\ Cardinality(Threads) < MAX_INT          (* the readers fit in an int  *)
  /\ NumEntries \in Nat \ {0}
  /\ Linux \in BOOLEAN
  /\ SpuriousFailure \in BOOLEAN
  /\ MaxOps \in Nat

Entries == 0 .. NumEntries - 1

W_MASK == -MAX_INT - 1      (* 0x80000000 in an int: the sign bit           *)

(* current + 1 and current - 1 in an int, which wraps in the builds.       *)
Inc(v) == IF v = MAX_INT THEN W_MASK ELSE v + 1
Dec(v) == IF v = W_MASK THEN MAX_INT ELSE v - 1

NoIdx == -1                 (* get_thread_idx() not called yet              *)

VARIABLES val,    (* entry_lock::wr_lock of every entry                     *)
          hint,   (* g_idx_hint, modulo NumEntries                          *)
          idx,    (* the thread_local index of get_thread_idx()             *)
          pc,     (* where in the mutex's code each thread is               *)
          cur,    (* the value the thread loaded last                       *)
          i,      (* the loop variable of lock() and unlock()               *)
          mode,   (* what the thread holds, as its caller sees it           *)
          ops     (* acquisitions the thread has begun                      *)

vars == <<val, hint, idx, pc, cur, i, mode, ops>>

(* Locations: ls_ lock_shared, us_ unlock_shared, l_ lock, u_ unlock.      *)
(* _wait is just before the system call, _sleep inside it.                 *)
Locations == {"idle",
              "ls_load", "ls_wait", "ls_sleep", "ls_cas",
              "us_load", "us_cas", "us_wake",
              "l_load", "l_wait", "l_sleep", "l_cas",
              "u_load", "u_cas", "u_wait", "u_sleep", "u_wake"}

Modes == {"none", "shared", "exclusive"}

(* The types of the variables.                                             *)
TypeOK ==
  /\ val \in [Entries -> Int]
  /\ hint \in Entries
  /\ idx \in [Threads -> Entries \cup {NoIdx}]
  /\ pc \in [Threads -> Locations]
  /\ cur \in [Threads -> Int]
  /\ i \in [Threads -> Entries]
  /\ mode \in [Threads -> Modes]
  /\ ops \in [Threads -> 0 .. MaxOps]

(* Other mutexes of the process share g_idx_hint, so it starts anywhere.   *)
Init ==
  /\ val = [e \in Entries |-> 0]
  /\ hint \in Entries
  /\ idx = [t \in Threads |-> NoIdx]
  /\ pc = [t \in Threads |-> "idle"]
  /\ cur = [t \in Threads |-> 0]
  /\ i = [t \in Threads |-> 0]
  /\ mode = [t \in Threads |-> "none"]
  /\ ops = [t \in Threads |-> 0]

HasWriter(v) == v < 0       (* v & W_MASK                                   *)

Goto(t, from, to) == pc[t] = from /\ pc' = [pc EXCEPT ![t] = to]

-----------------------------------------------------------------------------
(* The system calls.                                                       *)

(* The entry a thread sleeps on, or is about to wake.                      *)
EntryOf(t) == IF pc[t] \in {"ls_wait", "ls_sleep", "us_wake"} THEN idx[t] ELSE i[t]

Asleep(t) == pc[t] \in {"ls_sleep", "l_sleep", "u_sleep"}

Sleepers(e) == {t \in Threads : Asleep(t) /\ EntryOf(t) = e}

(* The loop head a wait returns to.                                        *)
Resume(loc) ==
  CASE loc \in {"ls_wait", "ls_sleep"} -> "ls_load"
    [] loc \in {"l_wait", "l_sleep"} -> "l_load"
    [] OTHER -> "u_load"

InKernel(loc) ==
  CASE loc = "ls_wait" -> "ls_sleep"
    [] loc = "l_wait" -> "l_sleep"
    [] OTHER -> "u_sleep"

(* futex_wait(addr, expected): the kernel compares and sleeps in one step; *)
(* EAGAIN makes the caller reload.                                         *)
FutexWait(t) ==
  /\ pc[t] \in {"ls_wait", "l_wait", "u_wait"}
  /\ pc' = [pc EXCEPT ![t] = IF val[EntryOf(t)] = cur[t]
                             THEN InKernel(pc[t])
                             ELSE Resume(pc[t])]
  /\ UNCHANGED <<val, hint, idx, cur, i, mode, ops>>

(* EINTR: futex_wait() repeats the call with the same expected value.      *)
Interrupt(t) ==
  /\ Asleep(t)
  /\ pc' = [pc EXCEPT ![t] = CASE pc[t] = "ls_sleep" -> "ls_wait"
                               [] pc[t] = "l_sleep" -> "l_wait"
                               [] OTHER -> "u_wait"]
  /\ UNCHANGED <<val, hint, idx, cur, i, mode, ops>>

(* futex_wake(addr, INT32_MAX) by t, which goes on at to: everybody asleep *)
(* on the entry resumes.                                                   *)
WakeAll(t, e, to) ==
  pc' = [u \in Threads |-> IF u = t THEN to
                           ELSE IF u \in Sleepers(e) THEN Resume(pc[u])
                           ELSE pc[u]]

-----------------------------------------------------------------------------
(* lock_shared() *)

(* Mutant: get_hint_idx() without the modulo.                              *)
LockSharedUnboundedHint(t) ==
  /\ mode[t] = "none"
  /\ ops[t] < MaxOps
  /\ Goto(t, "idle", "ls_load")
  /\ ops' = [ops EXCEPT ![t] = @ + 1]
  /\ IF idx[t] = NoIdx
     THEN idx' = [idx EXCEPT ![t] = hint] /\ hint' = hint + 1
     ELSE UNCHANGED <<idx, hint>>
  /\ UNCHANGED <<val, cur, i, mode>>

(* The call, and get_thread_idx() when it is the thread's first.           *)
LockShared(t) ==
  /\ mode[t] = "none"
  /\ ops[t] < MaxOps
  /\ Goto(t, "idle", "ls_load")
  /\ ops' = [ops EXCEPT ![t] = @ + 1]
  /\ IF idx[t] = NoIdx
     THEN /\ idx' = [idx EXCEPT ![t] = hint]
          /\ hint' = (hint + 1) % NumEntries
     ELSE UNCHANGED <<idx, hint>>
  /\ UNCHANGED <<val, cur, i, mode>>

(* Mutant: the writer bit is not tested.                                   *)
LockSharedLoadIgnoresWriter(t) ==
  /\ Goto(t, "ls_load", "ls_cas")
  /\ cur' = [cur EXCEPT ![t] = val[idx[t]]]
  /\ UNCHANGED <<val, hint, idx, i, mode, ops>>

LockSharedLoad(t) ==
  /\ Goto(t, "ls_load", IF HasWriter(val[idx[t]]) THEN "ls_wait" ELSE "ls_cas")
  /\ cur' = [cur EXCEPT ![t] = val[idx[t]]]
  /\ UNCHANGED <<val, hint, idx, i, mode, ops>>

LockSharedCas(t) ==
  /\ Goto(t, "ls_cas", "idle")
  /\ val[idx[t]] = cur[t]
  /\ val' = [val EXCEPT ![idx[t]] = Inc(cur[t])]
  /\ mode' = [mode EXCEPT ![t] = "shared"]
  /\ UNCHANGED <<hint, idx, cur, i, ops>>

LockSharedCasFails(t) ==
  /\ Goto(t, "ls_cas", "ls_load")
  /\ val[idx[t]] # cur[t] \/ SpuriousFailure
  /\ UNCHANGED <<val, hint, idx, cur, i, mode, ops>>

-----------------------------------------------------------------------------
(* unlock_shared() *)

(* The call itself; that the caller holds the lock is the caller's duty.   *)
CallUnlockShared(t) ==
  /\ Goto(t, "idle", "us_load")
  /\ UNCHANGED <<val, hint, idx, cur, i, mode, ops>>

UnlockShared(t) == mode[t] = "shared" /\ CallUnlockShared(t)

UnlockSharedLoad(t) ==
  /\ Goto(t, "us_load", "us_cas")
  /\ cur' = [cur EXCEPT ![t] = val[idx[t]]]
  /\ UNCHANGED <<val, hint, idx, i, mode, ops>>

(* Mutant: a store in place of the compare-and-swap.                       *)
UnlockSharedStore(t) ==
  /\ Goto(t, "us_cas", "us_wake")
  /\ val' = [val EXCEPT ![idx[t]] = Dec(cur[t])]
  /\ mode' = [mode EXCEPT ![t] = "none"]
  /\ UNCHANGED <<hint, idx, cur, i, ops>>

UnlockSharedCas(t) ==
  /\ Goto(t, "us_cas", "us_wake")
  /\ val[idx[t]] = cur[t]
  /\ val' = [val EXCEPT ![idx[t]] = Dec(cur[t])]
  /\ mode' = [mode EXCEPT ![t] = "none"]
  /\ UNCHANGED <<hint, idx, cur, i, ops>>

UnlockSharedCasFails(t) ==
  /\ Goto(t, "us_cas", "us_load")
  /\ val[idx[t]] # cur[t] \/ SpuriousFailure
  /\ UNCHANGED <<val, hint, idx, cur, i, mode, ops>>

(* Mutant: unlock_shared() without futex_wake().                           *)
UnlockSharedNoWake(t) ==
  /\ Goto(t, "us_wake", "idle")
  /\ UNCHANGED <<val, hint, idx, cur, i, mode, ops>>

UnlockSharedWake(t) ==
  /\ pc[t] = "us_wake"
  /\ WakeAll(t, idx[t], "idle")
  /\ UNCHANGED <<val, hint, idx, cur, i, mode, ops>>

-----------------------------------------------------------------------------
(* lock() *)

Lock(t) ==
  /\ mode[t] = "none"
  /\ ops[t] < MaxOps
  /\ Goto(t, "idle", "l_load")
  /\ ops' = [ops EXCEPT ![t] = @ + 1]
  /\ i' = [i EXCEPT ![t] = 0]
  /\ UNCHANGED <<val, hint, idx, cur, mode>>

(* A busy entry: the Linux build sleeps on it, the Windows build yields    *)
(* (SwitchToThread) and loads again.                                       *)
LockLoad(t) ==
  /\ Goto(t, "l_load", IF val[i[t]] = 0 THEN "l_cas"
                       ELSE IF Linux THEN "l_wait" ELSE "l_load")
  /\ cur' = [cur EXCEPT ![t] = val[i[t]]]
  /\ UNCHANGED <<val, hint, idx, i, mode, ops>>

(* Mutant: a store in place of the compare-and-swap.                       *)
LockStore(t) ==
  /\ pc[t] = "l_cas"
  /\ val' = [val EXCEPT ![i[t]] = W_MASK]
  /\ IF i[t] + 1 < NumEntries
     THEN /\ pc' = [pc EXCEPT ![t] = "l_load"]
          /\ i' = [i EXCEPT ![t] = @ + 1]
          /\ UNCHANGED mode
     ELSE /\ pc' = [pc EXCEPT ![t] = "idle"]
          /\ mode' = [mode EXCEPT ![t] = "exclusive"]
          /\ UNCHANGED i
  /\ UNCHANGED <<hint, idx, cur, ops>>

(* Mutant: lock() returns when it has the first entry.                     *)
LockFirstEntryOnly(t) ==
  /\ Goto(t, "l_cas", "idle")
  /\ val[i[t]] = cur[t]
  /\ val' = [val EXCEPT ![i[t]] = W_MASK]
  /\ mode' = [mode EXCEPT ![t] = "exclusive"]
  /\ UNCHANGED <<hint, idx, cur, i, ops>>

(* The last entry is taken: lock() returns.                                *)
LockCas(t) ==
  /\ pc[t] = "l_cas"
  /\ val[i[t]] = cur[t]
  /\ val' = [val EXCEPT ![i[t]] = W_MASK]
  /\ IF i[t] + 1 < NumEntries
     THEN /\ pc' = [pc EXCEPT ![t] = "l_load"]
          /\ i' = [i EXCEPT ![t] = @ + 1]
          /\ UNCHANGED mode
     ELSE /\ pc' = [pc EXCEPT ![t] = "idle"]
          /\ mode' = [mode EXCEPT ![t] = "exclusive"]
          /\ UNCHANGED i
  /\ UNCHANGED <<hint, idx, cur, ops>>

LockCasFails(t) ==
  /\ Goto(t, "l_cas", "l_load")
  /\ val[i[t]] # cur[t] \/ SpuriousFailure
  /\ UNCHANGED <<val, hint, idx, cur, i, mode, ops>>

-----------------------------------------------------------------------------
(* unlock() *)

CallUnlock(t) ==
  /\ Goto(t, "idle", "u_load")
  /\ i' = [i EXCEPT ![t] = 0]
  /\ UNCHANGED <<val, hint, idx, cur, mode, ops>>

Unlock(t) == mode[t] = "exclusive" /\ CallUnlock(t)

UnlockLoad(t) ==
  /\ Goto(t, "u_load", "u_cas")
  /\ cur' = [cur EXCEPT ![t] = val[i[t]]]
  /\ UNCHANGED <<val, hint, idx, i, mode, ops>>

(* The first entry freed lets readers in: the lock is no longer held.      *)
UnlockCas(t) ==
  /\ Goto(t, "u_cas", "u_wake")
  /\ val[i[t]] = cur[t]
  /\ val' = [val EXCEPT ![i[t]] = 0]
  /\ mode' = [mode EXCEPT ![t] = "none"]
  /\ UNCHANGED <<hint, idx, cur, i, ops>>

(* The failed exchange stores the current value in cur; the Linux build    *)
(* then waits for it to change, the Windows build tries again.             *)
UnlockCasFails(t) ==
  /\ Goto(t, "u_cas", IF Linux THEN "u_wait" ELSE "u_load")
  /\ val[i[t]] # cur[t] \/ SpuriousFailure
  /\ cur' = [cur EXCEPT ![t] = val[i[t]]]
  /\ UNCHANGED <<val, hint, idx, i, mode, ops>>

(* Mutant: only the sleepers of the last entry are woken.                  *)
UnlockWakeLast(t) ==
  /\ pc[t] = "u_wake"
  /\ IF i[t] + 1 < NumEntries
     THEN /\ pc' = [pc EXCEPT ![t] = "u_load"]
          /\ i' = [i EXCEPT ![t] = @ + 1]
     ELSE /\ WakeAll(t, i[t], "idle")
          /\ UNCHANGED i
  /\ UNCHANGED <<val, hint, idx, cur, mode, ops>>

UnlockWake(t) ==
  /\ pc[t] = "u_wake"
  /\ IF i[t] + 1 < NumEntries
     THEN /\ WakeAll(t, i[t], "u_load")
          /\ i' = [i EXCEPT ![t] = @ + 1]
     ELSE /\ WakeAll(t, i[t], "idle")
          /\ UNCHANGED i
  /\ UNCHANGED <<val, hint, idx, cur, mode, ops>>

-----------------------------------------------------------------------------
(* A step of the mutex's own code.                                         *)
Step(t) ==
  \/ LockSharedLoad(t) \/ LockSharedCas(t) \/ LockSharedCasFails(t)
  \/ UnlockSharedLoad(t) \/ UnlockSharedCas(t) \/ UnlockSharedCasFails(t)
  \/ UnlockSharedWake(t)
  \/ LockLoad(t) \/ LockCas(t) \/ LockCasFails(t)
  \/ UnlockLoad(t) \/ UnlockCas(t) \/ UnlockCasFails(t) \/ UnlockWake(t)
  \/ FutexWait(t)

Release(t) == UnlockShared(t) \/ Unlock(t)

Finished(t) == ops[t] = MaxOps /\ pc[t] = "idle" /\ mode[t] = "none"

(* All threads have joined.                                                *)
Joined == (\A t \in Threads : Finished(t)) /\ UNCHANGED vars

Next ==
  \/ \E t \in Threads :
       \/ LockShared(t) \/ Lock(t) \/ Release(t)
       \/ Step(t)
       \/ Interrupt(t)
  \/ Joined

Spec == Init /\ [][Next]_vars

(* The scheduler runs every runnable thread, and a critical section ends.  *)
Fairness == \A t \in Threads : WF_vars(Step(t)) /\ WF_vars(Release(t))

FairSpec == Spec /\ Fairness
-----------------------------------------------------------------------------
(* Properties *)

ReadersOf(e) == {t \in Threads : mode[t] = "shared" /\ idx[t] = e}

(* t has stored W_MASK in entry e and not yet cleared it.                  *)
Owns(t, e) ==
  \/ mode[t] = "exclusive"
  \/ pc[t] \in {"l_load", "l_wait", "l_sleep", "l_cas"} /\ e < i[t]
  \/ pc[t] \in {"u_load", "u_cas", "u_wait", "u_sleep"} /\ i[t] <= e
  \/ pc[t] = "u_wake" /\ i[t] < e

(* lock()/unlock() exclude everybody, lock_shared()/unlock_shared() only   *)
(* writers: no thread holds the mutex while another holds it exclusively.  *)
MutualExclusion ==
  \A t, u \in Threads : t # u /\ mode[t] = "exclusive" => mode[u] = "none"

(* An entry says exactly who is in: W_MASK when one writer has it and no   *)
(* reader is counted there, otherwise the number of its readers.  A lost   *)
(* decrement or a reader released in the wrong entry breaks it long before *)
(* two threads meet in a critical section.                                 *)
EntryAccounting ==
  \A e \in Entries :
    IF \E t \in Threads : Owns(t, e)
    THEN /\ val[e] = W_MASK
         /\ ReadersOf(e) = {}
         /\ \A t, u \in Threads : Owns(t, e) /\ Owns(u, e) => t = u
    ELSE val[e] = Cardinality(ReadersOf(e))

(* No lost wake-up: a thread sleeps only while the entry it waits for is   *)
(* still taken, or while the thread that released the entry has its        *)
(* futex_wake call ahead of it.                                            *)
WillWake(u, e) == pc[u] \in {"us_wake", "u_wake"} /\ EntryOf(u) = e

NoLostWakeup ==
  \A t \in Threads :
    /\ pc[t] = "ls_sleep" =>
         HasWriter(val[idx[t]]) \/ \E u \in Threads : WillWake(u, idx[t])
    /\ pc[t] = "l_sleep" =>
         val[i[t]] # 0 \/ \E u \in Threads : WillWake(u, i[t])

(* unlock() never blocks: the futex_wait in its retry path (taken when the *)
(* weak exchange fails) would wait for a change of an entry that only the  *)
(* waiting thread itself may change.                                       *)
UnlockNeverBlocks ==
  ~SpuriousFailure => \A t \in Threads : pc[t] \notin {"u_wait", "u_sleep"}

(* Every call returns: lock and lock_shared once the holders are done,     *)
(* unlock and unlock_shared at once.                                       *)
CallsReturn == \A t \in Threads : (pc[t] # "idle") ~> (pc[t] = "idle")

(* The lock the callers see.                                               *)
RW == INSTANCE RWLock WITH
        readers <- {t \in Threads : mode[t] = "shared"},
        writers <- {t \in Threads : mode[t] = "exclusive"}

(* SharedMutex implements RWLock.                                          *)
ImplementsRWLock == RW!Spec
=============================================================================
