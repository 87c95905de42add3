------------------------------- MODULE RWLock -------------------------------
(***************************************************************************)
(* What acul::shared_mutex promises to its callers: a reader/writer lock.  *)
(* The state is who holds the lock and how; nothing is said of the array   *)
(* of per-CPU entries, of compare-and-swap or of futexes.  SharedMutex     *)
(* implements this module.                                                 *)
(***************************************************************************)
CONSTANT Threads            (* the threads that share the mutex            *)

VARIABLES readers,          (* the threads inside lock_shared/unlock_shared *)
          writers           (* the threads inside lock/unlock               *)

vars == <<readers, writers>>

TypeOK == readers \subseteq Threads /\ writers \subseteq Threads

Init == readers = {} /\ writers = {}

(* lock_shared() returns: nobody holds the lock exclusively.               *)
AcquireShared(t) ==
  /\ t \notin readers
  /\ writers = {}
  /\ readers' = readers \cup {t}
  /\ UNCHANGED writers

ReleaseShared(t) ==
  /\ t \in readers
  /\ readers' = readers \ {t}
  /\ UNCHANGED writers

(* lock() returns: nobody holds the lock at all.                           *)
AcquireExclusive(t) ==
  /\ readers = {}
  /\ writers = {}
  /\ writers' = {t}
  /\ UNCHANGED readers

(* unlock() has begun to let others in.                                    *)
ReleaseExclusive(t) ==
  /\ writers = {t}
  /\ writers' = {}
  /\ UNCHANGED readers

Next ==
  \E t \in Threads :
    \/ AcquireShared(t)
    \/ ReleaseShared(t)
    \/ AcquireExclusive(t)
    \/ ReleaseExclusive(t)

Spec == Init /\ [][Next]_vars

=============================================================================
