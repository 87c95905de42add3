------------------------------ MODULE LockGuard ------------------------------
(***************************************************************************)
(* The scoped guards of shared_mutex.hpp, exclusive_lock and shared_lock:  *)
(* the constructor locks, lock() and unlock() lock and unlock by hand, the *)
(* destructor unlocks.  A guard keeps only a reference to the mutex, so    *)
(* its destructor cannot know whether it still holds the lock.             *)
(*                                                                         *)
(* Every thread runs a script: the calls it makes on one guard, in order,  *)
(* the last one being the destructor.  "signal" and "wait" stand for the   *)
(* test's own flag (shared_ready and its condition variable).              *)
(***************************************************************************)
EXTENDS SharedMutex, Sequences

CONSTANTS Script,           (* thread -> sequence of "construct", "lock",   *)
                            (* "unlock", "destruct", "signal", "wait"       *)
          Kind              (* thread -> "shared" or "exclusive"            *)

VARIABLES at,               (* index of the next call of each script        *)
          signalled         (* shared_ready                                 *)

gvars == <<vars, at, signalled>>

GuardTypeOK ==
  /\ TypeOK
  /\ at \in [Threads -> Nat]
  /\ signalled \in BOOLEAN

GuardInit ==
  /\ Init
  /\ at = [t \in Threads |-> 1]
  /\ signalled = FALSE

Done(t) == at[t] > Len(Script[t])

(* The thread's mutex code has returned and its next call is one of calls. *)
NextCall(t, calls) ==
  /\ pc[t] = "idle"
  /\ ~Done(t)
  /\ Script[t][at[t]] \in calls
  /\ at' = [at EXCEPT ![t] = @ + 1]

(* exclusive_lock(sm), shared_lock(sm), and lock() of either.              *)
GuardLock(t) ==
  /\ NextCall(t, {"construct", "lock"})
  /\ IF Kind[t] = "shared" THEN LockShared(t) ELSE Lock(t)
  /\ UNCHANGED signalled

(* unlock() of either guard, and the two destructors.                      *)
GuardUnlock(t) ==
  /\ NextCall(t, {"unlock", "destruct"})
  /\ IF Kind[t] = "shared" THEN CallUnlockShared(t) ELSE CallUnlock(t)
  /\ UNCHANGED signalled

Signal(t) ==
  /\ NextCall(t, {"signal"})
  /\ signalled' = TRUE
  /\ UNCHANGED vars

Wait(t) ==
  /\ NextCall(t, {"wait"})
  /\ signalled
  /\ UNCHANGED <<vars, signalled>>

Call(t) == GuardLock(t) \/ GuardUnlock(t) \/ Signal(t) \/ Wait(t)

MutexStep(t) == Step(t) /\ UNCHANGED <<at, signalled>>

AllDone == (\A t \in Threads : Done(t) /\ pc[t] = "idle") /\ UNCHANGED gvars

GuardNext == (\E t \in Threads : Call(t) \/ MutexStep(t)) \/ AllDone

GuardSpec ==
  /\ GuardInit
  /\ [][GuardNext]_gvars
  /\ \A t \in Threads : WF_gvars(Call(t)) /\ WF_gvars(MutexStep(t))
-----------------------------------------------------------------------------
(* Properties *)

(* Every thread of the program joins: its last destructor returns.         *)
ThreadsJoin == <>(\A t \in Threads : Done(t) /\ pc[t] = "idle")
=============================================================================
