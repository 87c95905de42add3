---------------------------- MODULE SheduleService ----------------------------
(***************************************************************************)
(* acul::task::shedule_service on a service_dispatch: clients add tasks    *)
(* with the time they are due, the worker pops the earliest task, runs it  *)
(* or puts it back, and await() spins until the queue is empty and the     *)
(* worker not busy.                                                        *)
(*                                                                         *)
(* Every operation on the concurrent queue, every access of _busy and      *)
(* every notify() is a step of its own.  add_task() between its push and   *)
(* its notify(), and await() between its two reads, can be overtaken.      *)
(***************************************************************************)
EXTENDS ServiceDispatch, FiniteSets

CONSTANTS Tasks,            (* the tasks that may be added, each once       *)
          Clients           (* the threads that use the service             *)

(* Clients use a service that was registered: its notify() goes through    *)
(* the dispatcher.                                                         *)
ASSUME SheduleAssumption ==
  /\ IsFiniteSet(Tasks) /\ IsFiniteSet(Clients)
  /\ \E k \in DOMAIN Services : Services[k] = "shedule"

VARIABLES queue,            (* _tasks                                       *)
          due,              (* timed_task::time of every task               *)
          busy,             (* _busy                                        *)
          entry,            (* task_entry of dispatch(), <<>> at first      *)
          scan,             (* now of dispatch()                            *)
          spc,              (* where the worker is in dispatch()            *)
          cpc,              (* where each client is                         *)
          mine,             (* the tasks each client has added              *)
          latest,           (* the task of a client's last add_task()       *)
          ran,              (* how often each task was run                  *)
          dropped,          (* the tasks await(true) discarded              *)
          missed            (* the tasks whose notify() met no sleeper      *)

client_vars == <<cpc, mine, latest>>

outcome_vars == <<ran, dropped, missed>>

shedule_vars == <<queue, due, busy, entry, scan, spc, client_vars, outcome_vars>>

svars == <<dispatch_vars, shedule_vars>>

None == <<>>

Unset == -1                 (* due of a task that was not added             *)

Added == {t \in Tasks : due[t] # Unset}

SheduleTypeOK ==
  /\ queue \subseteq Tasks
  /\ due \in [Tasks -> Time \cup {Unset}]
  /\ busy \in BOOLEAN
  /\ entry \in Tasks \cup {None}
  /\ scan \in Time
  /\ spc \in {"begin", "empty", "busy", "pop", "run", "ran", "repush", "repushed"}
  /\ cpc \in [Clients -> {"idle", "notify", "await_empty", "await_busy", "returned"}]
  /\ mine \in [Clients -> SUBSET Tasks]
  /\ latest \in [Clients -> Tasks \cup {None}]
  /\ ran \in [Tasks -> Nat]
  /\ dropped \subseteq Tasks
  /\ missed \subseteq Tasks

SheduleInit ==
  /\ queue = {} /\ dropped = {} /\ missed = {}
  /\ due = [t \in Tasks |-> Unset]
  /\ busy = FALSE
  /\ entry = None
  /\ scan = 0
  /\ spc = "begin"
  /\ cpc = [c \in Clients |-> "idle"]
  /\ mine = [c \in Clients |-> {}]
  /\ latest = [c \in Clients |-> None]
  /\ ran = [t \in Tasks |-> 0]

-----------------------------------------------------------------------------
(* shedule_service::dispatch(), by the worker.                             *)

At(from, to) == Turn("shedule") /\ spc = from /\ spc' = to

Begin ==
  /\ At("begin", "empty")
  /\ scan' = now
  /\ UNCHANGED <<dispatch_vars, queue, due, busy, entry, client_vars, outcome_vars>>

(* while (!_tasks.empty())                                                 *)
TestEmpty ==
  \/ /\ queue # {}
     /\ At("empty", "busy")
     /\ UNCHANGED <<dispatch_vars, queue, due, busy, entry, scan, client_vars, outcome_vars>>
  \/ /\ queue = {}
     /\ At("empty", "begin")
     /\ DispatchReturns(Never)
     /\ UNCHANGED <<queue, due, busy, entry, scan, client_vars, outcome_vars>>

(* Mutant: _busy is set only around the handler.                           *)
SetBusyLate ==
  /\ At("busy", "pop")
  /\ UNCHANGED <<dispatch_vars, queue, due, busy, entry, scan, client_vars, outcome_vars>>

SetBusy ==
  /\ At("busy", "pop")
  /\ busy' = TRUE
  /\ UNCHANGED <<dispatch_vars, queue, due, entry, scan, client_vars, outcome_vars>>

Earliest(t) == \A u \in queue : due[t] <= due[u]

(* Mutant: the task is compared with the time dispatch() would wait for.   *)
TryPopTooEarly ==
  \/ \E t \in queue :
       /\ Earliest(t)
       /\ entry' = t
       /\ queue' = queue \ {t}
       /\ At("pop", IF due[t] <= scan + 1 THEN "run" ELSE "repush")
       /\ UNCHANGED <<dispatch_vars, due, busy, scan, client_vars, outcome_vars>>
  \/ /\ queue = {}
     /\ At("pop", "begin")
     /\ busy' = FALSE
     /\ DispatchReturns(Never)
     /\ UNCHANGED <<queue, due, entry, scan, client_vars, outcome_vars>>

(* try_pop() takes an earliest task; the queue may have been cleared since *)
(* it was found non-empty.                                                 *)
TryPop ==
  \/ \E t \in queue :
       /\ Earliest(t)
       /\ entry' = t
       /\ queue' = queue \ {t}
       /\ At("pop", IF due[t] <= scan THEN "run" ELSE "repush")
       /\ UNCHANGED <<dispatch_vars, due, busy, scan, client_vars, outcome_vars>>
  \/ /\ queue = {}
     /\ At("pop", "begin")
     /\ busy' = FALSE
     /\ DispatchReturns(Never)
     /\ UNCHANGED <<queue, due, entry, scan, client_vars, outcome_vars>>

(* The handler of the task, when it only does its own work.                *)
RunTask ==
  /\ At("run", "ran")
  /\ ran' = [ran EXCEPT ![entry] = @ + 1]
  /\ UNCHANGED <<dispatch_vars, queue, due, busy, entry, scan, client_vars, dropped, missed>>

(* A handler adds a task of its own; its notify() meets no sleeper, for    *)
(* the worker is running the handler.                                      *)
SpawnTask(t, time) ==
  /\ At("run", "run")
  /\ t \notin Added
  /\ due' = [due EXCEPT ![t] = time]
  /\ queue' = queue \cup {t}
  /\ Notify
  /\ UNCHANGED <<now, running, busy, entry, scan, client_vars, outcome_vars>>

ClearBusy ==
  /\ At("ran", "empty")
  /\ busy' = FALSE
  /\ UNCHANGED <<dispatch_vars, queue, due, entry, scan, client_vars, outcome_vars>>

(* Mutant: a task that is not due is forgotten.                            *)
RepushForgets ==
  /\ At("repush", "repushed")
  /\ UNCHANGED <<dispatch_vars, queue, due, busy, entry, scan, client_vars, outcome_vars>>

Repush ==
  /\ At("repush", "repushed")
  /\ queue' = queue \cup {entry}
  /\ UNCHANGED <<dispatch_vars, due, busy, entry, scan, client_vars, outcome_vars>>

(* Mutant: dispatch() does not say when it wants to be called again.       *)
ReturnNever ==
  /\ At("repushed", "begin")
  /\ busy' = FALSE
  /\ DispatchReturns(Never)
  /\ UNCHANGED <<queue, due, entry, scan, client_vars, outcome_vars>>

(* _busy = false; return task_entry.time                                   *)
ReturnDue ==
  /\ At("repushed", "begin")
  /\ busy' = FALSE
  /\ DispatchReturns(due[entry])
  /\ UNCHANGED <<queue, due, entry, scan, client_vars, outcome_vars>>

SheduleDispatch ==
  \/ Begin \/ TestEmpty \/ SetBusy \/ TryPop
  \/ RunTask \/ ClearBusy \/ Repush \/ ReturnDue

-----------------------------------------------------------------------------
(* The clients.                                                            *)

Client(c, from, to) == running /\ cpc[c] = from /\ cpc' = [cpc EXCEPT ![c] = to]

(* Mutant: the time is taken as a delay.                                   *)
AddTaskDelay(c, t, time) ==
  /\ Client(c, "idle", "notify")
  /\ t \notin Added
  /\ due' = [due EXCEPT ![t] = now + time]
  /\ queue' = queue \cup {t}
  /\ mine' = [mine EXCEPT ![c] = @ \cup {t}]
  /\ latest' = [latest EXCEPT ![c] = t]
  /\ UNCHANGED <<dispatch_vars, busy, entry, scan, spc, outcome_vars>>

(* add_task(): the push ...                                                *)
AddTask(c, t, time) ==
  /\ Client(c, "idle", "notify")
  /\ t \notin Added
  /\ due' = [due EXCEPT ![t] = time]
  /\ queue' = queue \cup {t}
  /\ mine' = [mine EXCEPT ![c] = @ \cup {t}]
  /\ latest' = [latest EXCEPT ![c] = t]
  /\ UNCHANGED <<dispatch_vars, busy, entry, scan, spc, outcome_vars>>

(* Mutant: add_task() without notify().                                    *)
AddTaskSilently(c) ==
  /\ Client(c, "notify", "idle")
  /\ UNCHANGED <<dispatch_vars, queue, due, busy, entry, scan, spc, mine, latest, outcome_vars>>

(* ... and the notify().                                                   *)
AddTaskNotify(c) ==
  /\ Client(c, "notify", "idle")
  /\ Notify
  /\ missed' = IF worker = "asleep" THEN missed ELSE missed \cup {latest[c]}
  /\ UNCHANGED <<now, running, queue, due, busy, entry, scan, spc, mine, latest, ran, dropped>>

(* await(false)                                                            *)
Await(c) ==
  /\ Client(c, "idle", "await_empty")
  /\ UNCHANGED <<dispatch_vars, queue, due, busy, entry, scan, spc, mine, latest, outcome_vars>>

(* await(true): the queue is cleared first; the task the worker holds is   *)
(* not in it.                                                              *)
AwaitForce(c) ==
  /\ Client(c, "idle", "await_empty")
  /\ queue' = {}
  /\ dropped' = dropped \cup queue
  /\ UNCHANGED <<dispatch_vars, due, busy, entry, scan, spc, mine, latest, ran, missed>>

(* !_tasks.empty() || ...: a non-empty queue makes the thread yield and    *)
(* ask again.                                                              *)
AwaitEmpty(c) ==
  /\ queue = {}
  /\ Client(c, "await_empty", "await_busy")
  /\ UNCHANGED <<dispatch_vars, queue, due, busy, entry, scan, spc, mine, latest, outcome_vars>>

(* ... || _busy.load()                                                     *)
AwaitBusy(c) ==
  /\ Client(c, "await_busy", IF busy THEN "await_empty" ELSE "returned")
  /\ UNCHANGED <<dispatch_vars, queue, due, busy, entry, scan, spc, mine, latest, outcome_vars>>

(* The caller of await() goes on.                                          *)
GoOn(c) ==
  /\ Client(c, "returned", "idle")
  /\ UNCHANGED <<dispatch_vars, queue, due, busy, entry, scan, spc, mine, latest, outcome_vars>>

ClientStep(c) == AddTaskNotify(c) \/ AwaitEmpty(c) \/ AwaitBusy(c) \/ GoOn(c)

ClientCall(c) ==
  \/ \E t \in Tasks, time \in Time : AddTask(c, t, time)
  \/ Await(c)
  \/ AwaitForce(c)

-----------------------------------------------------------------------------
SheduleNext ==
  \/ SheduleDispatch
  \/ \E t \in Tasks, time \in Time : SpawnTask(t, time)
  \/ \E c \in Clients : ClientCall(c) \/ ClientStep(c)

ClientsIdle == \A c \in Clients : cpc[c] = "idle"

WorkerNext ==
  \/ (DispatcherStep \/ SpuriousWake \/ Tick) /\ UNCHANGED shedule_vars
  \/ Shutdown /\ ClientsIdle /\ UNCHANGED shedule_vars

(* The worker has been joined.                                             *)
Terminated == worker = "stopped" /\ UNCHANGED svars

Init == DispatchInit /\ SheduleInit

Next == SheduleNext \/ WorkerNext \/ Terminated

Spec == Init /\ [][Next]_svars

(* The worker and the clients inside a call run, handlers return, time     *)
(* passes.                                                                 *)
Fairness ==
  /\ WF_svars(SheduleDispatch)
  /\ WF_svars(DispatcherStep /\ UNCHANGED shedule_vars)
  /\ WF_svars(Tick /\ UNCHANGED shedule_vars)
  /\ \A c \in Clients : WF_svars(ClientStep(c))

FairSpec == Spec /\ Fairness
-----------------------------------------------------------------------------
(* Properties *)

TypeOK == DispatchTypeOK /\ SheduleTypeOK

Done(t) == ran[t] > 0 \/ t \in dropped

(* The task the worker has taken out of the queue and not dealt with.      *)
Held == IF spc \in {"run", "repush"} THEN {entry} ELSE {}

(* No task is lost and none is run twice: a task that was added is in the  *)
(* queue, in the worker's hand, run once or dropped by await(true), and    *)
(* only one of these.                                                      *)
TaskConserved ==
  \A t \in Added :
    LET places == <<t \in queue, t \in Held, ran[t] > 0, t \in dropped>>
    IN /\ ran[t] <= 1
       /\ Cardinality({k \in DOMAIN places : places[k]}) = 1

(* A task is never run before it is due.                                   *)
NeverEarly == [][\A t \in Tasks : ran'[t] # ran[t] => due[t] <= now]_svars

(* The worker may oversleep only because of a notify() that found it awake *)
(* (or that is still to come): any other queued task it wakes up for.      *)
OversleepsOnlyMissed ==
  worker = "asleep" =>
    \A t \in queue :
      \/ next_time <= due[t]
      \/ t \in missed
      \/ \E c \in Clients : cpc[c] = "notify" /\ latest[c] = t

(* await() returns with every task run that was due from the start.        *)
AwaitRunsImmediate ==
  \A c \in Clients : cpc[c] = "returned" =>
    \A t \in mine[c] : due[t] = 0 => Done(t)

(* Every task whose notify() reached the worker is run in the end.         *)
NotifiedTaskRuns ==
  \A t \in Tasks : (t \in Added) ~> (Done(t) \/ t \in missed \/ ~running)

(* ~service_dispatch() returns.                                            *)
ShutdownReturns == ~running ~> worker = "stopped"

(* What tests/task.cpp asserts after await(false): all my tasks have run.  *)
AwaitDrains ==
  \A c \in Clients : cpc[c] = "returned" => \A t \in mine[c] : Done(t)

(* Every task that is added is run in the end.                             *)
TaskRuns == \A t \in Tasks : (t \in Added) ~> (Done(t) \/ ~running)
=============================================================================
