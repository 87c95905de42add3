------------------------------- MODULE Services -------------------------------
(***************************************************************************)
(* A service_dispatch with both services of the library registered: the    *)
(* worker alternates between the scheduler's dispatch() and the log's, and *)
(* a notify() of either wakes it for both.                                 *)
(***************************************************************************)
EXTENDS SheduleService, LogService

all_vars == <<dispatch_vars, shedule_vars, log_vars>>

ServicesTypeOK == DispatchTypeOK /\ SheduleTypeOK /\ LogTypeOK

ServicesInit == DispatchInit /\ SheduleInit /\ LogInit

(* The destructor runs when no thread is inside a call of a service.       *)
ServicesNext ==
  \/ SheduleNext /\ UNCHANGED log_vars
  \/ LogNext /\ UNCHANGED shedule_vars
  \/ (DispatcherStep \/ SpuriousWake \/ Tick) /\ UNCHANGED <<shedule_vars, log_vars>>
  \/ Shutdown /\ ClientsIdle /\ LogClientsIdle /\ UNCHANGED <<shedule_vars, log_vars>>
  \/ worker = "stopped" /\ UNCHANGED all_vars

(* Only the worker calls dispatch().                                       *)
ServicesSpec == ServicesInit /\ [][ServicesNext]_all_vars

(* Clients of the log call dispatch() too.                                 *)
ClientDispatchNext ==
  \/ ServicesNext
  \/ \E c \in LogClients : ClientDispatch(c) /\ UNCHANGED shedule_vars

ClientDispatchSpec == ServicesInit /\ [][ClientDispatchNext]_all_vars

(* A client removes its logger only when it is back from its own           *)
(* dispatch() loop, as in tests/log.cpp:45-49.                             *)
RemovedAfterDispatch == \A c \in loggers \ loggers' : lpc[c] = "dispatched"

DispatchedRemovalSpec ==
  ServicesInit /\ [][ClientDispatchNext /\ RemovedAfterDispatch]_all_vars
=============================================================================
