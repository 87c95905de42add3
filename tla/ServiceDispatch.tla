--------------------------- MODULE ServiceDispatch ---------------------------
(***************************************************************************)
(* acul::task::service_dispatch: one worker thread that calls dispatch()   *)
(* of every registered service in turn, then sleeps on a condition         *)
(* variable until the earliest time a service asked for, a notify() or the *)
(* destructor.  The services are modelled by the modules that extend this  *)
(* one; they are registered before run().                                  *)
(***************************************************************************)
EXTENDS Integers, Sequences

CONSTANTS Services,         (* _services: the services in the order they    *)
                            (* were registered                              *)
          MaxTime           (* bound: the clock stops here                  *)

ASSUME DispatchAssumption ==
  /\ Services \in Seq(STRING) /\ Services # <<>>
  /\ MaxTime \in Nat

Time == 0 .. MaxTime

Never == MaxTime + 1        (* steady_clock::time_point::max()              *)

VARIABLES now,              (* steady_clock::now()                          *)
          running,          (* _running                                     *)
          worker,           (* where the worker thread is                   *)
          turn,             (* the index of the service being dispatched    *)
          next_time         (* next_time of worker_thread()                 *)

dispatch_vars == <<now, running, worker, turn, next_time>>

DispatchTypeOK ==
  /\ now \in Time
  /\ running \in BOOLEAN
  /\ worker \in {"dispatch", "wait", "asleep", "stopped"}
  /\ turn \in DOMAIN Services
  /\ next_time \in Time \cup {Never}

(* After run(): the thread enters its loop.                                *)
DispatchInit ==
  /\ now = 0
  /\ running = TRUE
  /\ worker = "dispatch"
  /\ turn = 1
  /\ next_time = Never

(* The worker is inside dispatch() of service s.                           *)
Turn(s) == worker = "dispatch" /\ Services[turn] = s

(* Mutant: the last service alone decides how long the worker sleeps.      *)
DispatchReturnsLast(st) ==
  /\ next_time' = st
  /\ IF turn < Len(Services)
     THEN turn' = turn + 1 /\ UNCHANGED worker
     ELSE turn' = 1 /\ worker' = "wait"
  /\ UNCHANGED <<now, running>>

(* That call returns st; the last one of a round leads to the wait.        *)
DispatchReturns(st) ==
  /\ next_time' = IF st < next_time THEN st ELSE next_time
  /\ IF turn < Len(Services)
     THEN turn' = turn + 1 /\ UNCHANGED worker
     ELSE turn' = 1 /\ worker' = "wait"
  /\ UNCHANGED <<now, running>>

(* The next round of dispatch() calls begins.                              *)
Wake ==
  /\ worker = "asleep"
  /\ worker' = "dispatch"
  /\ turn' = 1
  /\ next_time' = Never

(* _mutex is held from the test of _running until the condition variable   *)
(* has the thread asleep, and only the destructor takes it too: one step.  *)
WorkerWait ==
  /\ worker = "wait"
  /\ worker' = IF running THEN "asleep" ELSE "stopped"
  /\ UNCHANGED <<now, running, turn, next_time>>

(* wait_until() returns because the time has come.                         *)
Timeout ==
  /\ next_time <= now
  /\ Wake
  /\ UNCHANGED <<now, running>>

(* wait_until() returns for no reason, as condition variables may.         *)
SpuriousWake == Wake /\ UNCHANGED <<now, running>>

(* service_base::notify(): notify_one() without the mutex reaches a worker *)
(* that sleeps and no other.                                               *)
Notify ==
  IF worker = "asleep" THEN Wake ELSE UNCHANGED <<worker, turn, next_time>>

(* Mutant: the destructor clears _running without notify_all().            *)
ShutdownSilently == running /\ running' = FALSE /\ UNCHANGED <<now, worker, turn, next_time>>

(* ~service_dispatch() up to the join: _running is cleared and everybody   *)
(* notified under _mutex.                                                  *)
Shutdown ==
  /\ running
  /\ running' = FALSE
  /\ Notify
  /\ UNCHANGED now

Tick == now < MaxTime /\ now' = now + 1 /\ UNCHANGED <<running, worker, turn, next_time>>

DispatcherStep == WorkerWait \/ Timeout
=============================================================================
