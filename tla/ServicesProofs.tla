---------------------------- MODULE ServicesProofs ----------------------------
(***************************************************************************)
(* Theorems about SheduleService, LogService and both on one worker, for   *)
(* any sets of tasks, clients and loggers, any number of messages, every   *)
(* bound of the clock and every order the services were registered in.     *)
(*                                                                         *)
(* The scheduler: the place of the worker in dispatch() says what it has   *)
(* in its hand (WorkerFits), so every task is in one place (OnePlace);     *)
(* what await() sees in its two reads it may still rely on when it returns *)
(* (AwaitFits); and from the call of dispatch() on, the time the worker    *)
(* will sleep until covers the queue but for the tasks whose notify() was  *)
(* missed or is still to come (Covered).  The invariant is proved of       *)
(* SheduleStep, what any step of the dispatcher does to the scheduler and  *)
(* the worker, whichever other services it has.                            *)
(*                                                                         *)
(* The log: the queue and what was thrown away keep the order of each      *)
(* client (QueueOrdered), so that no message is counted twice (Accounted); *)
(* no message that was begun is lost (Placed); and a client whose await()  *)
(* has returned has no message on its way (OnTheirWay), for the counter    *)
(* counts at least those.  This holds whoever calls dispatch().  The order *)
(* in the log needs that the worker alone does (WrittenOrdered).           *)
(*                                                                         *)
(* Together: the log's variables change by its own steps only, so its      *)
(* invariant is kept by the others.  The scheduler shares the worker, the  *)
(* turn and the time of the next wake-up with the log: each step of the    *)
(* log is one of the Surroundings its invariant was proved against.        *)
(***************************************************************************)
EXTENDS Services, FiniteSetTheorems, SequenceTheorems, TLAPS

-----------------------------------------------------------------------------
(* The scheduler.                                                          *)

(* The inductive invariant.                                                *)

(* What the place in dispatch() says of _busy, the entry and the scan.     *)
WorkerFits ==
  /\ spc # "begin" => Turn("shedule")
  /\ busy <=> spc \in {"pop", "run", "ran", "repush", "repushed"}
  /\ spc \in {"run", "repush", "repushed"} => entry \in Added
  /\ spc = "run" => due[entry] <= scan
  /\ spc \in {"repush", "repushed"} => scan < due[entry]
  /\ scan <= now

(* A task that was added is in one place, another one nowhere.             *)
OnePlace(t) ==
  /\ ran[t] <= 1
  /\ t \in Added <=> t \in queue \/ t \in Held \/ ran[t] > 0 \/ t \in dropped
  /\ t \in queue => t \notin Held /\ ran[t] = 0 /\ t \notin dropped
  /\ t \in Held => ran[t] = 0 /\ t \notin dropped
  /\ ran[t] > 0 => t \notin dropped

(* A client in add_task() has a task, its tasks were added, and what it    *)
(* read in await() still counts.                                           *)
AwaitFits(c) ==
  /\ cpc[c] = "notify" => latest[c] \in Tasks
  /\ mine[c] \subseteq Added
  /\ cpc[c] = "await_busy" =>
       \A t \in mine[c] : due[t] = 0 => Done(t) \/ t \in Held
  /\ cpc[c] = "returned" =>
       \A t \in mine[c] : due[t] = 0 => Done(t)

(* The notify() of the task was missed or is still to come.                *)
Pending(t) ==
  \/ t \in missed
  \/ \E c \in Clients : cpc[c] = "notify" /\ latest[c] = t

(* The scheduler's dispatch() of this round has returned.                  *)
AfterShedule ==
  \/ worker \in {"wait", "asleep"}
  \/ /\ worker = "dispatch" /\ spc = "begin"
     /\ \E k \in DOMAIN Services : k < turn /\ Services[k] = "shedule"

(* The time a round will sleep until, and the time dispatch() is about to  *)
(* return, cover every queued task that is not pending.                    *)
CoveredOrPending(t) ==
  \/ Pending(t)
  \/ /\ AfterShedule => next_time <= due[t]
     /\ spc \in {"repush", "repushed"} => due[entry] <= due[t]

Covered == \A t \in queue : CoveredOrPending(t)

SheduleInv ==
  /\ TypeOK
  /\ WorkerFits
  /\ \A t \in Tasks : OnePlace(t)
  /\ \A c \in Clients : AwaitFits(c)
  /\ Covered

(* The steps of the worker, the clock, the destructor and the other        *)
(* services, as far as the scheduler sees them.                            *)
OtherReturns ==
  worker = "dispatch" /\ Services[turn] # "shedule" /\ DispatchReturns(Never)

OtherNotify == Notify /\ UNCHANGED <<now, running>>

Surroundings ==
  /\ \/ WorkerWait \/ Timeout \/ SpuriousWake \/ Tick \/ Shutdown
     \/ OtherReturns \/ OtherNotify
  /\ UNCHANGED shedule_vars

SheduleStep == SheduleNext \/ Surroundings \/ UNCHANGED svars

-----------------------------------------------------------------------------
(* Facts about the constants and the clock, so that the proofs can leave   *)
(* Time and Never folded.                                                  *)

(* The times there are, and those that stand for none.                     *)
LEMMA TimeFacts ==
  /\ MaxTime \in Nat
  /\ Never = MaxTime + 1
  /\ 0 \in Time /\ Time \subseteq Nat
  /\ Unset = -1 /\ Unset \notin Time /\ Never \notin Time
  /\ \A n \in Time : n < MaxTime => n + 1 \in Time
  /\ \A n \in Time : n < Never
  /\ Time \cup {Never} \subseteq Int /\ Time \cup {Unset} \subseteq Int
BY DispatchAssumption DEF Time, Never, Unset

(* The worker's turn stays inside the list of services, and the first      *)
(* service is in it.                                                       *)
LEMMA TurnFacts ==
  /\ DOMAIN Services = 1 .. Len(Services)
  /\ Len(Services) \in Nat /\ Len(Services) >= 1
  /\ 1 \in DOMAIN Services
  /\ \E k \in DOMAIN Services : Services[k] = "shedule"
BY DispatchAssumption, SheduleAssumption

-----------------------------------------------------------------------------
(* The invariant holds at first.                                           *)

(* The invariant of shedule_service holds at first.                        *)
LEMMA SheduleInvInit == DispatchInit /\ SheduleInit => SheduleInv
<1> SUFFICES ASSUME DispatchInit, SheduleInit PROVE SheduleInv
  OBVIOUS
<1> USE TimeFacts, TurnFacts DEF DispatchInit, SheduleInit
<1>1. TypeOK
  BY DEF TypeOK, DispatchTypeOK, SheduleTypeOK
<1>2. Added = {} /\ Held = {}
  BY DEF Added, Held
<1>3. WorkerFits
  BY <1>2 DEF WorkerFits
<1>4. ASSUME NEW t \in Tasks PROVE OnePlace(t)
  BY <1>2 DEF OnePlace
<1>5. ASSUME NEW c \in Clients PROVE AwaitFits(c)
  BY <1>2 DEF AwaitFits
<1>6. Covered
  BY DEF Covered
<1> QED
  BY <1>1, <1>3, <1>4, <1>5, <1>6 DEF SheduleInv

-----------------------------------------------------------------------------
(* Every step keeps the invariant: one lemma for each of its parts.        *)

(* The return of a dispatch() keeps the turn inside the list of services.  *)
LEMMA ReturnsType ==
  ASSUME DispatchTypeOK, NEW st \in Time \cup {Never}, DispatchReturns(st)
  PROVE  DispatchTypeOK'
<1>1. next_time' \in Time \cup {Never}
  BY DEF DispatchTypeOK, DispatchReturns
<1>2. CASE turn < Len(Services)
  BY <1>1, <1>2, TurnFacts DEF DispatchTypeOK, DispatchReturns
<1>3. CASE ~(turn < Len(Services))
  BY <1>1, <1>3, TurnFacts DEF DispatchTypeOK, DispatchReturns
<1> QED
  BY <1>2, <1>3

(* No operation on the queue or the tasks leaves the types.                *)
LEMMA SheduleTypeStep == SheduleInv /\ SheduleStep => TypeOK'
<1> SUFFICES ASSUME SheduleInv, SheduleStep PROVE TypeOK'
  OBVIOUS
<1> USE DEF dispatch_vars, shedule_vars, client_vars, outcome_vars
<1>a. DispatchTypeOK /\ SheduleTypeOK /\ WorkerFits /\ \A c \in Clients : AwaitFits(c)
  BY DEF SheduleInv, TypeOK
<1>b. 0 \in Time /\ Never \in Time \cup {Never}
  BY TimeFacts
<1>1. ASSUME Begin PROVE TypeOK'
  BY <1>1, <1>a DEF Begin, At, Turn, TypeOK, DispatchTypeOK, SheduleTypeOK
<1>2. ASSUME TestEmpty PROVE TypeOK'
  <2>1. DispatchTypeOK'
    BY <1>2, <1>a, <1>b, ReturnsType DEF TestEmpty, DispatchTypeOK
  <2> QED
    BY <1>2, <2>1, <1>a DEF TestEmpty, At, TypeOK, SheduleTypeOK
<1>3. ASSUME SetBusy PROVE TypeOK'
  BY <1>3, <1>a DEF SetBusy, At, Turn, TypeOK, DispatchTypeOK, SheduleTypeOK
<1>4. ASSUME TryPop PROVE TypeOK'
  <2>1. CASE \E t \in queue : entry' = t /\ queue' = queue \ {t}
    BY <1>4, <2>1, <1>a DEF TryPop, At, TypeOK, DispatchTypeOK, SheduleTypeOK
  <2>2. CASE DispatchReturns(Never)
    <3>1. DispatchTypeOK'
      BY <2>2, <1>a, <1>b, ReturnsType
    <3> QED
      BY <1>4, <3>1, <1>a DEF TryPop, At, TypeOK, SheduleTypeOK
  <2> QED
    BY <1>4, <2>1, <2>2 DEF TryPop
<1>5. ASSUME RunTask PROVE TypeOK'
  BY <1>5, <1>a
     DEF RunTask, At, Turn, TypeOK, DispatchTypeOK, SheduleTypeOK, WorkerFits,
         Added
<1>6. ASSUME ClearBusy PROVE TypeOK'
  BY <1>6, <1>a DEF ClearBusy, At, Turn, TypeOK, DispatchTypeOK, SheduleTypeOK
<1>7. ASSUME Repush PROVE TypeOK'
  BY <1>7, <1>a
     DEF Repush, At, Turn, TypeOK, DispatchTypeOK, SheduleTypeOK, WorkerFits,
         Added
<1>8. ASSUME ReturnDue PROVE TypeOK'
  <2>1. due[entry] \in Time
    BY <1>8, <1>a DEF ReturnDue, At, WorkerFits, Added, SheduleTypeOK
  <2>2. DispatchTypeOK'
    BY <1>8, <2>1, <1>a, ReturnsType DEF ReturnDue
  <2> QED
    BY <1>8, <2>2, <1>a DEF ReturnDue, At, TypeOK, SheduleTypeOK
<1>9. ASSUME NEW x \in Tasks, NEW time \in Time, SpawnTask(x, time)
      PROVE  TypeOK'
  BY <1>9, <1>a, TurnFacts
     DEF SpawnTask, At, Turn, Notify, Wake, TypeOK, DispatchTypeOK,
         SheduleTypeOK
<1>10. ASSUME NEW k \in Clients, NEW x \in Tasks, NEW time \in Time, AddTask(k, x, time)
       PROVE  TypeOK'
  BY <1>10, <1>a DEF AddTask, Client, TypeOK, DispatchTypeOK, SheduleTypeOK
<1>11. ASSUME NEW k \in Clients, AddTaskNotify(k) PROVE TypeOK'
  BY <1>11, <1>a, TurnFacts
     DEF AddTaskNotify, Client, Notify, Wake, TypeOK, DispatchTypeOK,
         SheduleTypeOK, AwaitFits
<1>12. ASSUME NEW k \in Clients, Await(k) PROVE TypeOK'
  BY <1>12, <1>a DEF Await, Client, TypeOK, DispatchTypeOK, SheduleTypeOK
<1>13. ASSUME NEW k \in Clients, AwaitForce(k) PROVE TypeOK'
  BY <1>13, <1>a DEF AwaitForce, Client, TypeOK, DispatchTypeOK, SheduleTypeOK
<1>14. ASSUME NEW k \in Clients, AwaitEmpty(k) PROVE TypeOK'
  BY <1>14, <1>a DEF AwaitEmpty, Client, TypeOK, DispatchTypeOK, SheduleTypeOK
<1>15. ASSUME NEW k \in Clients, AwaitBusy(k) PROVE TypeOK'
  BY <1>15, <1>a DEF AwaitBusy, Client, TypeOK, DispatchTypeOK, SheduleTypeOK
<1>16. ASSUME NEW k \in Clients, GoOn(k) PROVE TypeOK'
  BY <1>16, <1>a DEF GoOn, Client, TypeOK, DispatchTypeOK, SheduleTypeOK
<1>17. ASSUME Surroundings PROVE TypeOK'
  <2>1. CASE WorkerWait
    BY <1>17, <2>1, <1>a, TurnFacts, TimeFacts
       DEF Surroundings, WorkerWait, TypeOK, DispatchTypeOK, SheduleTypeOK
  <2>2. CASE Timeout
    BY <1>17, <2>2, <1>a, TurnFacts, TimeFacts
       DEF Surroundings, Timeout, Wake, TypeOK, DispatchTypeOK, SheduleTypeOK
  <2>3. CASE SpuriousWake
    BY <1>17, <2>3, <1>a, TurnFacts, TimeFacts
       DEF Surroundings, SpuriousWake, Wake, TypeOK, DispatchTypeOK,
           SheduleTypeOK
  <2>4. CASE Tick
    BY <1>17, <2>4, <1>a, TurnFacts, TimeFacts
       DEF Surroundings, Tick, TypeOK, DispatchTypeOK, SheduleTypeOK
  <2>5. CASE Shutdown
    BY <1>17, <2>5, <1>a, TurnFacts, TimeFacts
       DEF Surroundings, Shutdown, Notify, Wake, TypeOK, DispatchTypeOK,
           SheduleTypeOK
  <2>6. CASE OtherReturns
    BY <1>17, <2>6, <1>a, TurnFacts, TimeFacts
       DEF Surroundings, OtherReturns, DispatchReturns, TypeOK, DispatchTypeOK,
           SheduleTypeOK
  <2>7. CASE OtherNotify
    BY <1>17, <2>7, <1>a, TurnFacts, TimeFacts
       DEF Surroundings, OtherNotify, Notify, Wake, TypeOK, DispatchTypeOK,
           SheduleTypeOK
  <2> QED
    BY <1>17, <2>1, <2>2, <2>3, <2>4, <2>5, <2>6, <2>7 DEF Surroundings
<1>18. ASSUME UNCHANGED svars PROVE TypeOK'
  BY <1>18, <1>a DEF svars, TypeOK, DispatchTypeOK, SheduleTypeOK
<1> QED
  BY <1>1, <1>2, <1>3, <1>4, <1>5, <1>6, <1>7, <1>8, <1>9,
     <1>10, <1>11, <1>12, <1>13, <1>14, <1>15, <1>16, <1>17, <1>18
  DEF SheduleStep, SheduleNext, SheduleDispatch, ClientCall, ClientStep

(* Every step keeps what the place in dispatch() says in force.            *)
LEMMA WorkerFitsStep == SheduleInv /\ SheduleStep => WorkerFits'
<1> SUFFICES ASSUME SheduleInv, SheduleStep PROVE WorkerFits'
  OBVIOUS
<1> USE DEF dispatch_vars, shedule_vars, client_vars, outcome_vars
<1>a. DispatchTypeOK /\ SheduleTypeOK /\ WorkerFits
  BY DEF SheduleInv, TypeOK
<1>b. \A t \in queue : t \in Tasks /\ due[t] \in Time /\ t \in Added
  BY <1>a DEF SheduleInv, SheduleTypeOK, OnePlace, Added
<1>1. ASSUME Begin PROVE WorkerFits'
  BY <1>1, <1>a, TimeFacts
     DEF Begin, At, Turn, WorkerFits, Added, DispatchTypeOK, SheduleTypeOK
<1>2. ASSUME TestEmpty PROVE WorkerFits'
  BY <1>2, <1>a
     DEF TestEmpty, At, Turn, DispatchReturns, WorkerFits, Added,
         DispatchTypeOK, SheduleTypeOK
<1>3. ASSUME SetBusy PROVE WorkerFits'
  BY <1>3, <1>a
     DEF SetBusy, At, Turn, WorkerFits, Added, DispatchTypeOK, SheduleTypeOK
<1>4. ASSUME TryPop PROVE WorkerFits'
  <2>1. ASSUME NEW t \in queue, entry' = t,
               At("pop", IF due[t] <= scan THEN "run" ELSE "repush"),
               UNCHANGED <<dispatch_vars, due, busy, scan>>
        PROVE  WorkerFits'
    <3>1. Turn("shedule")' /\ busy' /\ entry' \in Added' /\ scan' <= now'
      BY <2>1, <1>a, <1>b DEF At, WorkerFits, Added, Turn
    <3>2. scan \in Nat /\ due[t] \in Nat /\ scan' = scan /\ due'[entry'] = due[t]
      BY <2>1, <1>a, <1>b, TimeFacts DEF SheduleTypeOK
    <3>3. CASE due[t] <= scan
      BY <2>1, <3>1, <3>2, <3>3 DEF At, WorkerFits
    <3>4. CASE scan < due[t]
      BY <2>1, <3>1, <3>2, <3>4 DEF At, WorkerFits
    <3> QED
      BY <3>2, <3>3, <3>4
  <2>2. CASE /\ At("pop", "begin") /\ busy' = FALSE /\ DispatchReturns(Never)
             /\ UNCHANGED <<due, entry, scan>>
    BY <2>2, <1>a
       DEF At, DispatchReturns, WorkerFits, DispatchTypeOK, SheduleTypeOK
  <2> QED
    BY <1>4, <2>1, <2>2 DEF TryPop
<1>5. ASSUME RunTask PROVE WorkerFits'
  BY <1>5, <1>a
     DEF RunTask, At, Turn, WorkerFits, Added, DispatchTypeOK, SheduleTypeOK
<1>6. ASSUME ClearBusy PROVE WorkerFits'
  BY <1>6, <1>a
     DEF ClearBusy, At, Turn, WorkerFits, Added, DispatchTypeOK, SheduleTypeOK
<1>7. ASSUME Repush PROVE WorkerFits'
  BY <1>7, <1>a
     DEF Repush, At, Turn, WorkerFits, Added, DispatchTypeOK, SheduleTypeOK
<1>8. ASSUME ReturnDue PROVE WorkerFits'
  BY <1>8, <1>a
     DEF ReturnDue, At, Turn, DispatchReturns, WorkerFits, Added,
         DispatchTypeOK, SheduleTypeOK
<1>9. ASSUME NEW x \in Tasks, NEW time \in Time, SpawnTask(x, time)
      PROVE  WorkerFits'
  BY <1>9, <1>a, TimeFacts
     DEF SpawnTask, At, Turn, Notify, Wake, WorkerFits, Added, DispatchTypeOK,
         SheduleTypeOK
<1>10. ASSUME NEW k \in Clients, NEW x \in Tasks, NEW time \in Time, AddTask(k, x, time)
       PROVE  WorkerFits'
  BY <1>10, <1>a, TimeFacts
     DEF AddTask, Client, WorkerFits, Added, Turn, DispatchTypeOK, SheduleTypeOK
<1>11. ASSUME NEW k \in Clients, AddTaskNotify(k) PROVE WorkerFits'
  BY <1>11, <1>a
     DEF AddTaskNotify, Client, Notify, Wake, WorkerFits, Added, Turn,
         DispatchTypeOK, SheduleTypeOK
<1>12. ASSUME NEW k \in Clients, Await(k) PROVE WorkerFits'
  BY <1>12, <1>a
     DEF Await, Client, WorkerFits, Added, Turn, DispatchTypeOK, SheduleTypeOK
<1>13. ASSUME NEW k \in Clients, AwaitForce(k) PROVE WorkerFits'
  BY <1>13, <1>a
     DEF AwaitForce, Client, WorkerFits, Added, Turn, DispatchTypeOK,
         SheduleTypeOK
<1>14. ASSUME NEW k \in Clients, AwaitEmpty(k) PROVE WorkerFits'
  BY <1>14, <1>a
     DEF AwaitEmpty, Client, WorkerFits, Added, Turn, DispatchTypeOK,
         SheduleTypeOK
<1>15. ASSUME NEW k \in Clients, AwaitBusy(k) PROVE WorkerFits'
  BY <1>15, <1>a
     DEF AwaitBusy, Client, WorkerFits, Added, Turn, DispatchTypeOK,
         SheduleTypeOK
<1>16. ASSUME NEW k \in Clients, GoOn(k) PROVE WorkerFits'
  BY <1>16, <1>a
     DEF GoOn, Client, WorkerFits, Added, Turn, DispatchTypeOK, SheduleTypeOK
<1>17. ASSUME Surroundings PROVE WorkerFits'
  <2>1. CASE WorkerWait
    BY <1>17, <2>1, <1>a, TimeFacts
       DEF Surroundings, WorkerWait, WorkerFits, Added, Turn, DispatchTypeOK,
           SheduleTypeOK
  <2>2. CASE Timeout
    BY <1>17, <2>2, <1>a, TimeFacts
       DEF Surroundings, Timeout, Wake, WorkerFits, Added, Turn, DispatchTypeOK,
           SheduleTypeOK
  <2>3. CASE SpuriousWake
    BY <1>17, <2>3, <1>a, TimeFacts
       DEF Surroundings, SpuriousWake, Wake, WorkerFits, Added, Turn,
           DispatchTypeOK, SheduleTypeOK
  <2>4. CASE Tick
    BY <1>17, <2>4, <1>a, TimeFacts
       DEF Surroundings, Tick, WorkerFits, Added, Turn, DispatchTypeOK,
           SheduleTypeOK
  <2>5. CASE Shutdown
    BY <1>17, <2>5, <1>a, TimeFacts
       DEF Surroundings, Shutdown, Notify, Wake, WorkerFits, Added, Turn,
           DispatchTypeOK, SheduleTypeOK
  <2>6. CASE OtherReturns
    BY <1>17, <2>6, <1>a, TimeFacts
       DEF Surroundings, OtherReturns, DispatchReturns, WorkerFits, Added, Turn,
           DispatchTypeOK, SheduleTypeOK
  <2>7. CASE OtherNotify
    BY <1>17, <2>7, <1>a, TimeFacts
       DEF Surroundings, OtherNotify, Notify, Wake, WorkerFits, Added, Turn,
           DispatchTypeOK, SheduleTypeOK
  <2> QED
    BY <1>17, <2>1, <2>2, <2>3, <2>4, <2>5, <2>6, <2>7 DEF Surroundings
<1>18. ASSUME UNCHANGED svars PROVE WorkerFits'
  BY <1>18, <1>a
     DEF svars, WorkerFits, Added, Turn, DispatchTypeOK, SheduleTypeOK
<1> QED
  BY <1>1, <1>2, <1>3, <1>4, <1>5, <1>6, <1>7, <1>8, <1>9,
     <1>10, <1>11, <1>12, <1>13, <1>14, <1>15, <1>16, <1>17, <1>18
  DEF SheduleStep, SheduleNext, SheduleDispatch, ClientCall, ClientStep

(* Every step leaves every task in one place: what a step takes out of the *)
(* queue is in the worker's hand, what the worker puts back is not.        *)
LEMMA OnePlaceStep == SheduleInv /\ SheduleStep => \A t \in Tasks : OnePlace(t)'
<1> SUFFICES ASSUME SheduleInv, SheduleStep, NEW t \in Tasks PROVE OnePlace(t)'
  OBVIOUS
<1> USE DEF dispatch_vars, shedule_vars, client_vars, outcome_vars
<1>a. SheduleTypeOK /\ WorkerFits /\ OnePlace(t)
  BY DEF SheduleInv, TypeOK
<1>b. entry \in Added => entry \in Tasks /\ OnePlace(entry)
  BY DEF SheduleInv, Added
<1>1. ASSUME Begin PROVE OnePlace(t)'
  BY <1>1, <1>a
     DEF Begin, At, Turn, OnePlace, Held, Added, WorkerFits, SheduleTypeOK
<1>2. ASSUME TestEmpty PROVE OnePlace(t)'
  BY <1>2, <1>a
     DEF TestEmpty, At, Turn, DispatchReturns, OnePlace, Held, Added,
         WorkerFits, SheduleTypeOK
<1>3. ASSUME SetBusy PROVE OnePlace(t)'
  BY <1>3, <1>a
     DEF SetBusy, At, Turn, OnePlace, Held, Added, WorkerFits, SheduleTypeOK
<1>4. ASSUME TryPop PROVE OnePlace(t)'
  BY <1>4, <1>a
     DEF TryPop, At, Turn, DispatchReturns, OnePlace, Held, Added, WorkerFits,
         SheduleTypeOK
<1>5. ASSUME RunTask PROVE OnePlace(t)'
  BY <1>5, <1>a
     DEF RunTask, At, Turn, OnePlace, Held, Added, WorkerFits, SheduleTypeOK
<1>6. ASSUME ClearBusy PROVE OnePlace(t)'
  BY <1>6, <1>a
     DEF ClearBusy, At, Turn, OnePlace, Held, Added, WorkerFits, SheduleTypeOK
<1>7. ASSUME Repush PROVE OnePlace(t)'
  BY <1>7, <1>a
     DEF Repush, At, Turn, OnePlace, Held, Added, WorkerFits, SheduleTypeOK
<1>8. ASSUME ReturnDue PROVE OnePlace(t)'
  BY <1>8, <1>a
     DEF ReturnDue, At, Turn, DispatchReturns, OnePlace, Held, Added,
         WorkerFits, SheduleTypeOK
<1>9. ASSUME NEW x \in Tasks, NEW time \in Time, SpawnTask(x, time)
      PROVE  OnePlace(t)'
  BY <1>9, <1>a, TimeFacts
     DEF SpawnTask, At, Turn, Notify, Wake, OnePlace, Held, Added, WorkerFits,
         SheduleTypeOK
<1>10. ASSUME NEW k \in Clients, NEW x \in Tasks, NEW time \in Time, AddTask(k, x, time)
       PROVE  OnePlace(t)'
  BY <1>10, <1>a, TimeFacts
     DEF AddTask, Client, OnePlace, Held, Added, WorkerFits, SheduleTypeOK
<1>11. ASSUME NEW k \in Clients, AddTaskNotify(k) PROVE OnePlace(t)'
  BY <1>11, <1>a
     DEF AddTaskNotify, Client, Notify, Wake, OnePlace, Held, Added, WorkerFits,
         SheduleTypeOK
<1>12. ASSUME NEW k \in Clients, Await(k) PROVE OnePlace(t)'
  BY <1>12, <1>a
     DEF Await, Client, OnePlace, Held, Added, WorkerFits, SheduleTypeOK
<1>13. ASSUME NEW k \in Clients, AwaitForce(k) PROVE OnePlace(t)'
  BY <1>13, <1>a
     DEF AwaitForce, Client, OnePlace, Held, Added, WorkerFits, SheduleTypeOK
<1>14. ASSUME NEW k \in Clients, AwaitEmpty(k) PROVE OnePlace(t)'
  BY <1>14, <1>a
     DEF AwaitEmpty, Client, OnePlace, Held, Added, WorkerFits, SheduleTypeOK
<1>15. ASSUME NEW k \in Clients, AwaitBusy(k) PROVE OnePlace(t)'
  BY <1>15, <1>a
     DEF AwaitBusy, Client, OnePlace, Held, Added, WorkerFits, SheduleTypeOK
<1>16. ASSUME NEW k \in Clients, GoOn(k) PROVE OnePlace(t)'
  BY <1>16, <1>a
     DEF GoOn, Client, OnePlace, Held, Added, WorkerFits, SheduleTypeOK
<1>17. ASSUME Surroundings PROVE OnePlace(t)'
  <2>1. CASE WorkerWait
    BY <1>17, <2>1, <1>a
       DEF Surroundings, WorkerWait, OnePlace, Held, Added, WorkerFits,
           SheduleTypeOK
  <2>2. CASE Timeout
    BY <1>17, <2>2, <1>a
       DEF Surroundings, Timeout, Wake, OnePlace, Held, Added, WorkerFits,
           SheduleTypeOK
  <2>3. CASE SpuriousWake
    BY <1>17, <2>3, <1>a
       DEF Surroundings, SpuriousWake, Wake, OnePlace, Held, Added, WorkerFits,
           SheduleTypeOK
  <2>4. CASE Tick
    BY <1>17, <2>4, <1>a
       DEF Surroundings, Tick, OnePlace, Held, Added, WorkerFits, SheduleTypeOK
  <2>5. CASE Shutdown
    BY <1>17, <2>5, <1>a
       DEF Surroundings, Shutdown, Notify, Wake, OnePlace, Held, Added,
           WorkerFits, SheduleTypeOK
  <2>6. CASE OtherReturns
    BY <1>17, <2>6, <1>a
       DEF Surroundings, OtherReturns, DispatchReturns, OnePlace, Held, Added,
           WorkerFits, SheduleTypeOK
  <2>7. CASE OtherNotify
    BY <1>17, <2>7, <1>a
       DEF Surroundings, OtherNotify, Notify, Wake, OnePlace, Held, Added,
           WorkerFits, SheduleTypeOK
  <2> QED
    BY <1>17, <2>1, <2>2, <2>3, <2>4, <2>5, <2>6, <2>7 DEF Surroundings
<1>18. ASSUME UNCHANGED svars PROVE OnePlace(t)'
  BY <1>18, <1>a DEF svars, OnePlace, Held, Added, WorkerFits, SheduleTypeOK
<1> QED
  BY <1>1, <1>2, <1>3, <1>4, <1>5, <1>6, <1>7, <1>8, <1>9,
     <1>10, <1>11, <1>12, <1>13, <1>14, <1>15, <1>16, <1>17, <1>18
  DEF SheduleStep, SheduleNext, SheduleDispatch, ClientCall, ClientStep

(* Every step leaves it true of a client in await() that a task due at 0   *)
(* it has added before can only be in the worker's hand.                   *)
LEMMA AwaitFitsStep == SheduleInv /\ SheduleStep => \A c \in Clients : AwaitFits(c)'
<1> SUFFICES ASSUME SheduleInv, SheduleStep, NEW c \in Clients PROVE AwaitFits(c)'
  OBVIOUS
<1> USE DEF dispatch_vars, shedule_vars, client_vars, outcome_vars
<1>a. SheduleTypeOK /\ WorkerFits /\ AwaitFits(c)
  BY DEF SheduleInv, TypeOK
<1>b. \A t \in Tasks : OnePlace(t)
  BY DEF SheduleInv
<1>1. ASSUME Begin PROVE AwaitFits(c)'
  BY <1>1, <1>a
     DEF Begin, At, Turn, AwaitFits, Done, Held, Added, WorkerFits,
         SheduleTypeOK
<1>2. ASSUME TestEmpty PROVE AwaitFits(c)'
  BY <1>2, <1>a
     DEF TestEmpty, At, Turn, DispatchReturns, AwaitFits, Done, Held, Added,
         WorkerFits, SheduleTypeOK
<1>3. ASSUME SetBusy PROVE AwaitFits(c)'
  BY <1>3, <1>a
     DEF SetBusy, At, Turn, AwaitFits, Done, Held, Added, WorkerFits,
         SheduleTypeOK
<1>4. ASSUME TryPop PROVE AwaitFits(c)'
  BY <1>4, <1>a, TimeFacts
     DEF TryPop, At, Turn, DispatchReturns, AwaitFits, Done, Held, Added,
         WorkerFits, SheduleTypeOK
<1>5. ASSUME RunTask PROVE AwaitFits(c)'
  BY <1>5, <1>a, TimeFacts
     DEF RunTask, At, Turn, AwaitFits, Done, Held, Added, WorkerFits,
         SheduleTypeOK
<1>6. ASSUME ClearBusy PROVE AwaitFits(c)'
  BY <1>6, <1>a
     DEF ClearBusy, At, Turn, AwaitFits, Done, Held, Added, WorkerFits,
         SheduleTypeOK
<1>7. ASSUME Repush PROVE AwaitFits(c)'
  BY <1>7, <1>a, TimeFacts
     DEF Repush, At, Turn, AwaitFits, Done, Held, Added, WorkerFits,
         SheduleTypeOK
<1>8. ASSUME ReturnDue PROVE AwaitFits(c)'
  BY <1>8, <1>a
     DEF ReturnDue, At, Turn, DispatchReturns, AwaitFits, Done, Held, Added,
         WorkerFits, SheduleTypeOK
<1>9. ASSUME NEW x \in Tasks, NEW time \in Time, SpawnTask(x, time)
      PROVE  AwaitFits(c)'
  BY <1>9, <1>a, TimeFacts
     DEF SpawnTask, At, Turn, Notify, Wake, AwaitFits, Done, Held, Added,
         WorkerFits, SheduleTypeOK
<1>10. ASSUME NEW k \in Clients, NEW x \in Tasks, NEW time \in Time, AddTask(k, x, time)
       PROVE  AwaitFits(c)'
  BY <1>10, <1>a, TimeFacts
     DEF AddTask, Client, AwaitFits, Done, Held, Added, WorkerFits,
         SheduleTypeOK
<1>11. ASSUME NEW k \in Clients, AddTaskNotify(k) PROVE AwaitFits(c)'
  BY <1>11, <1>a
     DEF AddTaskNotify, Client, Notify, Wake, AwaitFits, Done, Held, Added,
         WorkerFits, SheduleTypeOK
<1>12. ASSUME NEW k \in Clients, Await(k) PROVE AwaitFits(c)'
  BY <1>12, <1>a
     DEF Await, Client, AwaitFits, Done, Held, Added, WorkerFits, SheduleTypeOK
<1>13. ASSUME NEW k \in Clients, AwaitForce(k) PROVE AwaitFits(c)'
  BY <1>13, <1>a
     DEF AwaitForce, Client, AwaitFits, Done, Held, Added, WorkerFits,
         SheduleTypeOK
<1>14. ASSUME NEW k \in Clients, AwaitEmpty(k) PROVE AwaitFits(c)'
  BY <1>14, <1>a, <1>b
     DEF AwaitEmpty, Client, AwaitFits, Done, Held, Added, WorkerFits,
         SheduleTypeOK, OnePlace
<1>15. ASSUME NEW k \in Clients, AwaitBusy(k) PROVE AwaitFits(c)'
  BY <1>15, <1>a
     DEF AwaitBusy, Client, AwaitFits, Done, Held, Added, WorkerFits,
         SheduleTypeOK
<1>16. ASSUME NEW k \in Clients, GoOn(k) PROVE AwaitFits(c)'
  BY <1>16, <1>a
     DEF GoOn, Client, AwaitFits, Done, Held, Added, WorkerFits, SheduleTypeOK
<1>17. ASSUME Surroundings PROVE AwaitFits(c)'
  <2>1. CASE WorkerWait
    BY <1>17, <2>1, <1>a
       DEF Surroundings, WorkerWait, AwaitFits, Done, Held, Added, WorkerFits,
           SheduleTypeOK
  <2>2. CASE Timeout
    BY <1>17, <2>2, <1>a
       DEF Surroundings, Timeout, Wake, AwaitFits, Done, Held, Added,
           WorkerFits, SheduleTypeOK
  <2>3. CASE SpuriousWake
    BY <1>17, <2>3, <1>a
       DEF Surroundings, SpuriousWake, Wake, AwaitFits, Done, Held, Added,
           WorkerFits, SheduleTypeOK
  <2>4. CASE Tick
    BY <1>17, <2>4, <1>a
       DEF Surroundings, Tick, AwaitFits, Done, Held, Added, WorkerFits,
           SheduleTypeOK
  <2>5. CASE Shutdown
    BY <1>17, <2>5, <1>a
       DEF Surroundings, Shutdown, Notify, Wake, AwaitFits, Done, Held, Added,
           WorkerFits, SheduleTypeOK
  <2>6. CASE OtherReturns
    BY <1>17, <2>6, <1>a
       DEF Surroundings, OtherReturns, DispatchReturns, AwaitFits, Done, Held,
           Added, WorkerFits, SheduleTypeOK
  <2>7. CASE OtherNotify
    BY <1>17, <2>7, <1>a
       DEF Surroundings, OtherNotify, Notify, Wake, AwaitFits, Done, Held,
           Added, WorkerFits, SheduleTypeOK
  <2> QED
    BY <1>17, <2>1, <2>2, <2>3, <2>4, <2>5, <2>6, <2>7 DEF Surroundings
<1>18. ASSUME UNCHANGED svars PROVE AwaitFits(c)'
  BY <1>18, <1>a
     DEF svars, AwaitFits, Done, Held, Added, WorkerFits, SheduleTypeOK
<1> QED
  BY <1>1, <1>2, <1>3, <1>4, <1>5, <1>6, <1>7, <1>8, <1>9,
     <1>10, <1>11, <1>12, <1>13, <1>14, <1>15, <1>16, <1>17, <1>18
  DEF SheduleStep, SheduleNext, SheduleDispatch, ClientCall, ClientStep

(* Every step keeps the sleep covered: what dispatch() returns is the      *)
(* earliest of the queue, and what is added later is pending.              *)
LEMMA CoveredStep == SheduleInv /\ SheduleStep => Covered'
<1> SUFFICES ASSUME SheduleInv, SheduleStep, NEW t \in queue' PROVE CoveredOrPending(t)'
  BY DEF Covered
<1> USE DEF dispatch_vars, shedule_vars, client_vars, outcome_vars
<1>a. DispatchTypeOK /\ SheduleTypeOK /\ WorkerFits
  BY DEF SheduleInv, TypeOK
<1>b. t \in queue => CoveredOrPending(t)
  BY DEF SheduleInv, Covered
<1>c. next_time \in Int /\ \A x \in Tasks : due[x] \in Int
  BY <1>a, TimeFacts DEF DispatchTypeOK, SheduleTypeOK
<1>d. queue \subseteq Tasks /\ (spc \in {"repush", "repushed"} => entry \in Tasks)
  BY <1>a DEF WorkerFits, Added, SheduleTypeOK
<1>1. ASSUME Begin PROVE CoveredOrPending(t)'
  BY <1>1, <1>a, <1>b
     DEF Begin, At, Turn, CoveredOrPending, Pending, AfterShedule, WorkerFits,
         DispatchTypeOK, SheduleTypeOK
<1>2. ASSUME TestEmpty PROVE CoveredOrPending(t)'
  BY <1>2, <1>a, <1>b
     DEF TestEmpty, At, Turn, DispatchReturns, CoveredOrPending, Pending,
         AfterShedule, WorkerFits, DispatchTypeOK, SheduleTypeOK
<1>3. ASSUME SetBusy PROVE CoveredOrPending(t)'
  BY <1>3, <1>a, <1>b
     DEF SetBusy, At, Turn, CoveredOrPending, Pending, AfterShedule, WorkerFits,
         DispatchTypeOK, SheduleTypeOK
<1>4. ASSUME TryPop PROVE CoveredOrPending(t)'
  BY <1>4, <1>a, <1>b, TimeFacts
     DEF TryPop, At, Turn, DispatchReturns, CoveredOrPending, Pending,
         AfterShedule, WorkerFits, DispatchTypeOK, SheduleTypeOK, Earliest
<1>5. ASSUME RunTask PROVE CoveredOrPending(t)'
  BY <1>5, <1>a, <1>b
     DEF RunTask, At, Turn, CoveredOrPending, Pending, AfterShedule, WorkerFits,
         DispatchTypeOK, SheduleTypeOK
<1>6. ASSUME ClearBusy PROVE CoveredOrPending(t)'
  BY <1>6, <1>a, <1>b
     DEF ClearBusy, At, Turn, CoveredOrPending, Pending, AfterShedule,
         WorkerFits, DispatchTypeOK, SheduleTypeOK
<1>7. ASSUME Repush PROVE CoveredOrPending(t)'
  <2>1. spc' = "repushed" /\ ~AfterShedule' /\ entry' = entry /\ due' = due
    BY <1>7 DEF Repush, At, Turn, AfterShedule
  <2>2. CASE t = entry
    <3>1. due[entry] \in Int /\ due[entry] <= due[entry]
      BY <1>7, <1>c, <1>d DEF Repush, At
    <3> QED
      BY <2>1, <2>2, <3>1 DEF CoveredOrPending
  <2>3. CASE t # entry
    BY <1>a, <1>b, <2>1, <2>3, <1>7 DEF Repush, At, CoveredOrPending, Pending
  <2> QED
    BY <2>2, <2>3
<1>8. ASSUME ReturnDue PROVE CoveredOrPending(t)'
  <2>1. /\ next_time \in Int /\ due[entry] \in Int /\ due[t] \in Int
        /\ t \in queue /\ due' = due /\ spc' = "begin" /\ Pending(t)' = Pending(t)
    BY <1>8, <1>c, <1>d DEF ReturnDue, At, Pending
  <2>2. next_time' <= due[entry]
    BY <1>8, <2>1 DEF ReturnDue, DispatchReturns
  <2>3. Pending(t) \/ due[entry] <= due[t]
    BY <1>8, <1>b, <2>1 DEF ReturnDue, At, CoveredOrPending
  <2>4. next_time' \in Int
    BY <1>8, <2>1 DEF ReturnDue, DispatchReturns
  <2> QED
    BY <2>1, <2>2, <2>3, <2>4 DEF CoveredOrPending
<1>9. ASSUME NEW x \in Tasks, NEW time \in Time, SpawnTask(x, time)
      PROVE  CoveredOrPending(t)'
  BY <1>9, <1>a, <1>b
     DEF SpawnTask, At, Turn, Notify, Wake, CoveredOrPending, Pending,
         AfterShedule, WorkerFits, DispatchTypeOK, SheduleTypeOK
<1>10. ASSUME NEW k \in Clients, NEW x \in Tasks, NEW time \in Time, AddTask(k, x, time)
       PROVE  CoveredOrPending(t)'
  BY <1>10, <1>a, <1>b
     DEF AddTask, Client, CoveredOrPending, Pending, AfterShedule, WorkerFits,
         Turn, DispatchTypeOK, SheduleTypeOK
<1>11. ASSUME NEW k \in Clients, AddTaskNotify(k) PROVE CoveredOrPending(t)'
  <2>1. CASE worker = "asleep"
    <3>1. ~AfterShedule' /\ spc' = "begin"
      BY <1>11, <2>1, <1>a, TurnFacts
         DEF AddTaskNotify, Notify, Wake, AfterShedule, WorkerFits, Turn
    <3> QED
      BY <3>1 DEF CoveredOrPending
  <2>2. CASE worker # "asleep"
    <3>1. UNCHANGED <<worker, turn, next_time, spc, queue, due, entry>>
      BY <1>11, <2>2 DEF AddTaskNotify, Notify
    <3>2. Pending(t) => Pending(t)'
      BY <1>11, <2>2, <1>a DEF AddTaskNotify, Client, Pending, SheduleTypeOK
    <3> QED
      BY <3>1, <3>2, <1>b DEF CoveredOrPending, AfterShedule
  <2> QED
    BY <2>1, <2>2
<1>12. ASSUME NEW k \in Clients, Await(k) PROVE CoveredOrPending(t)'
  BY <1>12, <1>a, <1>b
     DEF Await, Client, CoveredOrPending, Pending, AfterShedule, WorkerFits,
         Turn, DispatchTypeOK, SheduleTypeOK
<1>13. ASSUME NEW k \in Clients, AwaitForce(k) PROVE CoveredOrPending(t)'
  BY <1>13, <1>a, <1>b
     DEF AwaitForce, Client, CoveredOrPending, Pending, AfterShedule,
         WorkerFits, Turn, DispatchTypeOK, SheduleTypeOK
<1>14. ASSUME NEW k \in Clients, AwaitEmpty(k) PROVE CoveredOrPending(t)'
  BY <1>14, <1>a, <1>b
     DEF AwaitEmpty, Client, CoveredOrPending, Pending, AfterShedule,
         WorkerFits, Turn, DispatchTypeOK, SheduleTypeOK
<1>15. ASSUME NEW k \in Clients, AwaitBusy(k) PROVE CoveredOrPending(t)'
  BY <1>15, <1>a, <1>b
     DEF AwaitBusy, Client, CoveredOrPending, Pending, AfterShedule, WorkerFits,
         Turn, DispatchTypeOK, SheduleTypeOK
<1>16. ASSUME NEW k \in Clients, GoOn(k) PROVE CoveredOrPending(t)'
  BY <1>16, <1>a, <1>b
     DEF GoOn, Client, CoveredOrPending, Pending, AfterShedule, WorkerFits,
         Turn, DispatchTypeOK, SheduleTypeOK
<1>17. ASSUME Surroundings PROVE CoveredOrPending(t)'
  <2>1. CASE WorkerWait
    BY <1>17, <2>1, <1>a, <1>b, TurnFacts
       DEF Surroundings, WorkerWait, CoveredOrPending, Pending, AfterShedule,
           WorkerFits, Turn, DispatchTypeOK, SheduleTypeOK
  <2>2. CASE Timeout
    BY <1>17, <2>2, <1>a, <1>b, TurnFacts
       DEF Surroundings, Timeout, Wake, CoveredOrPending, Pending, AfterShedule,
           WorkerFits, Turn, DispatchTypeOK, SheduleTypeOK
  <2>3. CASE SpuriousWake
    BY <1>17, <2>3, <1>a, <1>b, TurnFacts
       DEF Surroundings, SpuriousWake, Wake, CoveredOrPending, Pending,
           AfterShedule, WorkerFits, Turn, DispatchTypeOK, SheduleTypeOK
  <2>4. CASE Tick
    BY <1>17, <2>4, <1>a, <1>b, TurnFacts
       DEF Surroundings, Tick, CoveredOrPending, Pending, AfterShedule,
           WorkerFits, Turn, DispatchTypeOK, SheduleTypeOK
  <2>5. CASE Shutdown
    BY <1>17, <2>5, <1>a, <1>b, TurnFacts
       DEF Surroundings, Shutdown, Notify, Wake, CoveredOrPending, Pending,
           AfterShedule, WorkerFits, Turn, DispatchTypeOK, SheduleTypeOK
  <2>6. CASE OtherReturns
    <3>1. /\ spc = "begin" /\ next_time' <= next_time
          /\ next_time \in Int /\ next_time' \in Int
      BY <1>17, <2>6, <1>a, TimeFacts
         DEF OtherReturns, DispatchReturns, WorkerFits, Turn, DispatchTypeOK
    <3>2. /\ UNCHANGED <<queue, due, entry, spc>> /\ due[t] \in Int
          /\ Pending(t)' = Pending(t)
      BY <1>17, <2>6, <1>c, <1>d DEF Surroundings, Pending
    <3>3. AfterShedule' => AfterShedule
      <4>1. CASE turn < Len(Services)
        BY <1>17, <2>6, <4>1, <3>1, <1>a, TurnFacts
           DEF OtherReturns, DispatchReturns, AfterShedule, DispatchTypeOK
      <4>2. CASE ~(turn < Len(Services))
        BY <1>17, <2>6, <4>2, <3>1, <1>a, TurnFacts
           DEF OtherReturns, DispatchReturns, AfterShedule, DispatchTypeOK
      <4> QED
        BY <4>1, <4>2
    <3> QED
      BY <3>1, <3>2, <3>3, <1>b DEF CoveredOrPending
  <2>7. CASE OtherNotify
    BY <1>17, <2>7, <1>a, <1>b, TurnFacts
       DEF Surroundings, OtherNotify, Notify, Wake, CoveredOrPending, Pending,
           AfterShedule, WorkerFits, Turn, DispatchTypeOK, SheduleTypeOK
  <2> QED
    BY <1>17, <2>1, <2>2, <2>3, <2>4, <2>5, <2>6, <2>7 DEF Surroundings
<1>18. ASSUME UNCHANGED svars PROVE CoveredOrPending(t)'
  BY <1>18, <1>a, <1>b
     DEF svars, CoveredOrPending, Pending, AfterShedule, WorkerFits, Turn,
         DispatchTypeOK, SheduleTypeOK
<1> QED
  BY <1>1, <1>2, <1>3, <1>4, <1>5, <1>6, <1>7, <1>8, <1>9,
     <1>10, <1>11, <1>12, <1>13, <1>14, <1>15, <1>16, <1>17, <1>18
  DEF SheduleStep, SheduleNext, SheduleDispatch, ClientCall, ClientStep

-----------------------------------------------------------------------------
(* The theorems.                                                           *)

(* Every step of the worker, the scheduler's clients and whatever runs     *)
(* beside them keeps the invariant.                                        *)
LEMMA SheduleInvStep == SheduleInv /\ SheduleStep => SheduleInv'
BY SheduleTypeStep, WorkerFitsStep, OnePlaceStep, AwaitFitsStep, CoveredStep
   DEF SheduleInv

(* A step of the scheduler that has the dispatcher for itself is one of    *)
(* these steps.                                                            *)
LEMMA NextIsSheduleStep == [Next]_svars => SheduleStep
BY DEF Next, WorkerNext, Terminated, DispatcherStep, SheduleStep, Surroundings

(* The invariant holds in every reachable state.                           *)
THEOREM SheduleInvariance == Spec => []SheduleInv
<1>1. Init => SheduleInv
  BY SheduleInvInit DEF Init
<1>2. SheduleInv /\ [Next]_svars => SheduleInv'
  BY SheduleInvStep, NextIsSheduleStep
<1> QED
  BY <1>1, <1>2, PTL DEF Spec

(* Every variable keeps its type; the turn of the worker stays inside the  *)
(* list of services.                                                       *)
THEOREM SheduleTypeCorrect == Spec => []TypeOK
<1>1. SheduleInv => TypeOK
  BY DEF SheduleInv
<1> QED
  BY <1>1, SheduleInvariance, PTL

(* Being in one place and no other is what TaskConserved counts.           *)
LEMMA OnePlaceCounts ==
  ASSUME NEW t \in Added, SheduleTypeOK, OnePlace(t)
  PROVE  LET places == <<t \in queue, t \in Held, ran[t] > 0, t \in dropped>>
         IN Cardinality({k \in DOMAIN places : places[k]}) = 1
<1> DEFINE places == <<t \in queue, t \in Held, ran[t] > 0, t \in dropped>>
<1>1. /\ DOMAIN places = 1 .. 4
      /\ places[1] = (t \in queue) /\ places[2] = (t \in Held)
      /\ places[3] = (ran[t] > 0) /\ places[4] = (t \in dropped)
  OBVIOUS
<1>2. t \in Tasks /\ ran[t] \in Nat
  BY DEF Added, SheduleTypeOK
<1> HIDE DEF places
<1>3. \E k \in 1 .. 4 : places[k] /\ \A j \in 1 .. 4 : j # k => ~places[j]
  <2>1. CASE t \in queue
    <3>1. t \in queue /\ ~(t \in Held) /\ ~(ran[t] > 0) /\ ~(t \in dropped)
      BY <1>2, <2>1 DEF OnePlace
    <3>2. places[1] /\ ~places[2] /\ ~places[3] /\ ~places[4]
      BY <1>1, <3>1, Zenon
    <3> QED
      BY <3>2
  <2>2. CASE t \in Held
    <3>1. ~(t \in queue) /\ t \in Held /\ ~(ran[t] > 0) /\ ~(t \in dropped)
      BY <1>2, <2>2 DEF OnePlace
    <3>2. ~places[1] /\ places[2] /\ ~places[3] /\ ~places[4]
      BY <1>1, <3>1, Zenon
    <3> QED
      BY <3>2
  <2>3. CASE ran[t] > 0
    <3>1. ~(t \in queue) /\ ~(t \in Held) /\ ran[t] > 0 /\ ~(t \in dropped)
      BY <1>2, <2>3 DEF OnePlace
    <3>2. ~places[1] /\ ~places[2] /\ places[3] /\ ~places[4]
      BY <1>1, <3>1, Zenon
    <3> QED
      BY <3>2
  <2>4. CASE t \in dropped
    <3>1. ~(t \in queue) /\ ~(t \in Held) /\ ~(ran[t] > 0) /\ t \in dropped
      BY <1>2, <2>4 DEF OnePlace
    <3>2. ~places[1] /\ ~places[2] /\ ~places[3] /\ places[4]
      BY <1>1, <3>1, Zenon
    <3> QED
      BY <3>2
  <2> QED
    BY <2>1, <2>2, <2>3, <2>4 DEF OnePlace
<1>4. \E k \in 1 .. 4 : {j \in DOMAIN places : places[j]} = {k}
  <2>1. PICK k \in 1 .. 4 : places[k] /\ \A j \in 1 .. 4 : j # k => ~places[j]
    BY <1>3
  <2>2. {j \in DOMAIN places : places[j]} = {k}
    BY <1>1, <2>1
  <2> QED
    BY <2>2
<1> QED
  BY <1>4, FS_Singleton DEF places

(* What the invariant says of a client, a task and a sleeping worker: a    *)
(* worker that sleeps has ended its round, so its sleep is covered.        *)
LEMMA SheduleInvImplies ==
  SheduleInv => TaskConserved /\ OversleepsOnlyMissed /\ AwaitRunsImmediate
<1> SUFFICES ASSUME SheduleInv
             PROVE  TaskConserved /\ OversleepsOnlyMissed /\ AwaitRunsImmediate
  OBVIOUS
<1>1. TaskConserved
  <2>1. ASSUME NEW t \in Added
        PROVE  /\ ran[t] <= 1
               /\ LET places == <<t \in queue, t \in Held, ran[t] > 0, t \in dropped>>
                  IN Cardinality({k \in DOMAIN places : places[k]}) = 1
    <3>1. SheduleTypeOK /\ OnePlace(t)
      BY DEF SheduleInv, TypeOK, Added
    <3> QED
      BY <3>1, OnePlaceCounts DEF OnePlace
  <2> QED
    BY <2>1 DEF TaskConserved
<1>2. OversleepsOnlyMissed
  BY DEF SheduleInv, Covered, CoveredOrPending, Pending, AfterShedule,
         OversleepsOnlyMissed
<1>3. AwaitRunsImmediate
  BY DEF SheduleInv, AwaitFits, AwaitRunsImmediate
<1> QED
  BY <1>1, <1>2, <1>3

(* No task is lost or run twice, whatever its time, whoever adds it and    *)
(* whenever await(true) clears the queue.                                  *)
THEOREM TaskConservedHolds == Spec => []TaskConserved
BY SheduleInvImplies, SheduleInvariance, PTL

(* The worker sleeps past the time of a task only if its notify() came     *)
(* while the worker was awake, or has not come yet.                        *)
THEOREM OversleepsOnlyMissedHolds == Spec => []OversleepsOnlyMissed
BY SheduleInvImplies, SheduleInvariance, PTL

(* await() does not return before a task its caller has added with time 0  *)
(* was run or dropped.                                                     *)
THEOREM AwaitRunsImmediateHolds == Spec => []AwaitRunsImmediate
BY SheduleInvImplies, SheduleInvariance, PTL

(* No step runs a task before the time it is due.                          *)
THEOREM NeverEarlyHolds == Spec => NeverEarly
<1>1. SheduleInv /\ [Next]_svars
      => [\A t \in Tasks : ran'[t] # ran[t] => due[t] <= now]_svars
  <2> SUFFICES ASSUME SheduleInv, Next, NEW t \in Tasks, ran'[t] # ran[t]
               PROVE  due[t] <= now
    OBVIOUS
  <2>1. DispatchTypeOK /\ SheduleTypeOK /\ WorkerFits
    BY DEF SheduleInv, TypeOK
  <2>2. SheduleStep
    BY NextIsSheduleStep
  <2>3. RunTask
    BY <2>2 DEF SheduleStep, Surroundings, SheduleNext, SheduleDispatch, ClientCall,
       ClientStep, Begin, TestEmpty, SetBusy, TryPop, ClearBusy, Repush, ReturnDue,
       SpawnTask, AddTask, AddTaskNotify, Await, AwaitForce, AwaitEmpty, AwaitBusy,
       GoOn, svars, shedule_vars, outcome_vars
  <2>4. t = entry /\ spc = "run"
    BY <2>1, <2>3 DEF RunTask, At, SheduleTypeOK
  <2>5. due[t] \in Int /\ scan \in Int /\ now \in Int
    BY <2>1, TimeFacts DEF SheduleTypeOK, DispatchTypeOK
  <2> QED
    BY <2>1, <2>4, <2>5 DEF WorkerFits
<1> QED
  BY <1>1, SheduleInvariance, PTL DEF Spec, NeverEarly

-----------------------------------------------------------------------------
(* The log.                                                                *)

(* The inductive invariant.                                                *)

(* The messages of one client have numbers in the order it logged them.    *)
Before(x, y) == x.by = y.by => x.n < y.n

(* The message's log() was begun, and it has been queued since.            *)
Begun(m) == m.n <= sent[m.by]

WasQueued(m) == Begun(m) /\ (lpc[m.by] = "push" => m.n # sent[m.by])

(* A dispatcher has the message in its hand.                               *)
InHand(d, m) == dpc[d] = "write" /\ popped[d] = m

IsQueued(m) == \E k \in DOMAIN log_queue : log_queue[k] = m

QueueOrdered ==
  /\ \A j, k \in DOMAIN log_queue : j < k => Before(log_queue[j], log_queue[k])
  /\ \A m \in cleared, k \in DOMAIN log_queue : Before(m, log_queue[k])
  /\ \A m \in cleared : WasQueued(m)
  /\ \A k \in DOMAIN log_queue : WasQueued(log_queue[k])

(* A message whose log() was begun is somewhere.                           *)
ToBeQueued(m) == lpc[m.by] = "push" /\ m.n = sent[m.by]

Somewhere(m) ==
  \/ IsWritten(m) \/ m \in cleared \cup dangling \/ IsQueued(m) \/ ToBeQueued(m)
  \/ \E d \in Dispatchers : InHand(d, m)

Placed(m) == Begun(m) => Somewhere(m)

(* A client with a message in the queue or in a dispatcher's hand is not   *)
(* back from await(false), and one that logs has its logger.               *)
Waited(c) == lpc[c] # "awaited"

OnTheirWay ==
  /\ \A c \in LogClients : lpc[c] = "push" => c \in loggers /\ sent[c] >= 1
  /\ \A k \in DOMAIN log_queue : Waited(log_queue[k].by)
  /\ \A d \in Dispatchers : dpc[d] = "write" => Waited(popped[d].by)

Busy == {d \in Dispatchers : dpc[d] # "pop"}

Pushing == {c \in LogClients : lpc[c] = "push"}

Accounted ==
  /\ IsFiniteSet(cleared)
  /\ count = Len(log_queue) + Cardinality(Busy) + Cardinality(Pushing)
             + Cardinality(cleared)

LogInv ==
  /\ LogTypeOK
  /\ \A d \in Dispatchers : dpc[d] # "pop" => popped[d] \in Messages
  /\ QueueOrdered
  /\ \A m \in Messages : Placed(m)
  /\ OnTheirWay
  /\ Accounted

(* What any call of a client or a dispatcher does to the log.              *)
LogStep ==
  LogNext \/ (\E c \in LogClients : ClientDispatch(c)) \/ UNCHANGED log_vars

(* The worker alone is in dispatch(), so what it has in its hand is later  *)
(* than what was written and earlier than what is queued.                  *)
WorkerAlone ==
  \A c \in LogClients : lpc[c] \notin {"dispatch", "dispatched"} /\ dpc[c] = "pop"

WrittenOrdered ==
  /\ \A k \in DOMAIN written : WasQueued(written[k])
  /\ LogOrder
  /\ \A j \in DOMAIN written, k \in DOMAIN log_queue : Before(written[j], log_queue[k])
  /\ dpc[WorkerThread] = "write" =>
       /\ WasQueued(popped[WorkerThread])
       /\ \A j \in DOMAIN written : Before(written[j], popped[WorkerThread])
       /\ \A k \in DOMAIN log_queue : Before(popped[WorkerThread], log_queue[k])

OrderInv == WorkerAlone /\ WrittenOrdered

-----------------------------------------------------------------------------
(* Facts about the constants, messages, the queue and counting.            *)

(* The dispatchers and the messages are what the assumption makes of them. *)
LEMMA LogConstants ==
  /\ IsFiniteSet(LogClients) /\ IsFiniteSet(Dispatchers)
  /\ WorkerThread \notin LogClients
  /\ WorkerThread \in Dispatchers /\ LogClients \subseteq Dispatchers
  /\ \A d \in Dispatchers : d = WorkerThread \/ d \in LogClients
  /\ MaxMessages \in Nat
<1>1. IsFiniteSet(LogClients \cup {WorkerThread})
  BY LogAssumption, FS_AddElement
<1>2. Dispatchers = LogClients \cup {WorkerThread}
  BY DEF Dispatchers
<1> QED
  BY <1>1, <1>2, LogAssumption

(* A message has a client and a number.                                    *)
LEMMA MessageFacts ==
  /\ \A m \in Messages : m.by \in LogClients /\ m.n \in Int /\ m.n >= 1
  /\ \A m, o \in Messages : m.by = o.by /\ m.n = o.n => m = o
BY LogConstants DEF Messages

(* What is begun by a client is a message with the number it has reached.  *)
LEMMA MessageOf ==
  ASSUME LogTypeOK, NEW c \in LogClients, sent[c] >= 1
  PROVE  /\ Message(c) \in Messages
         /\ Message(c).by = c /\ Message(c).n = sent[c]
BY LogConstants DEF LogTypeOK, Message, Messages

(* A message at the end of a queue leaves the others where they are.       *)
LEMMA PushFacts ==
  ASSUME NEW q \in Seq(Messages), NEW m \in Messages
  PROVE  /\ Append(q, m) \in Seq(Messages)
         /\ Len(q) \in Nat /\ DOMAIN q = 1 .. Len(q)
         /\ Len(Append(q, m)) = Len(q) + 1
         /\ DOMAIN Append(q, m) = 1 .. Len(q) + 1
         /\ \A k \in 1 .. Len(q) : Append(q, m)[k] = q[k]
         /\ Append(q, m)[Len(q) + 1] = m
BY LenProperties, AppendProperties

(* A message taken off the front brings the others one place forward.      *)
LEMMA PopFacts ==
  ASSUME NEW q \in Seq(Messages), q # <<>>
  PROVE  /\ Head(q) \in Messages /\ Head(q) = q[1]
         /\ Tail(q) \in Seq(Messages)
         /\ Len(q) \in Nat /\ Len(q) >= 1 /\ DOMAIN q = 1 .. Len(q)
         /\ Len(Tail(q)) = Len(q) - 1
         /\ DOMAIN Tail(q) = 1 .. Len(q) - 1
         /\ \A k \in 1 .. Len(q) - 1 : Tail(q)[k] = q[k + 1]
<1>1. Len(q) \in Nat /\ Len(q) >= 1 /\ DOMAIN q = 1 .. Len(q)
  BY EmptySeq, LenProperties
<1>2. /\ Head(q) \in Messages /\ Tail(q) \in Seq(Messages)
      /\ Len(Tail(q)) = Len(q) - 1
      /\ \A k \in 1 .. Len(Tail(q)) : Tail(q)[k] = q[k + 1]
  BY HeadTailProperties
<1>3. DOMAIN Tail(q) = 1 .. Len(Tail(q))
  BY <1>2, LenProperties
<1> QED
  BY <1>1, <1>2, <1>3

(* The elements of a sequence without repetition are as many as it is long.*)
LEMMA ElementsOfQueue ==
  ASSUME NEW q \in Seq(Messages),
         \A j, k \in DOMAIN q : j < k => q[j] # q[k]
  PROVE  LET R == {q[k] : k \in DOMAIN q}
         IN IsFiniteSet(R) /\ Cardinality(R) = Len(q)
<1> DEFINE R == {q[k] : k \in DOMAIN q}
<1>1. Len(q) \in Nat /\ DOMAIN q = 1 .. Len(q)
  BY LenProperties
<1>2. IsFiniteSet(DOMAIN q) /\ Cardinality(DOMAIN q) = Len(q)
  <2>1. /\ IsFiniteSet(1 .. Len(q))
        /\ Cardinality(1 .. Len(q)) = IF 1 > Len(q) THEN 0 ELSE Len(q) - 1 + 1
    BY <1>1, FS_Interval
  <2> QED
    BY <1>1, <2>1
<1>3. q \in [DOMAIN q -> R]
  BY <1>1, LenProperties
<1>4. q \in Surjection(DOMAIN q, R)
  BY <1>3 DEF Surjection
<1>5. \A j, k \in DOMAIN q : q[j] = q[k] => j = k
  BY <1>1
<1>6. q \in Injection(DOMAIN q, R)
  BY <1>3, <1>5 DEF Injection, IsInjective
<1> QED
  BY <1>2, <1>4, <1>6, FS_Surjection

(* The parts the counter is the sum of are numbers.                        *)
LEMMA FiniteParts ==
  ASSUME LogTypeOK, IsFiniteSet(cleared)
  PROVE  /\ IsFiniteSet(Busy) /\ Cardinality(Busy) \in Nat
         /\ IsFiniteSet(Pushing) /\ Cardinality(Pushing) \in Nat
         /\ Cardinality(cleared) \in Nat
         /\ Len(log_queue) \in Nat
<1>1. IsFiniteSet(Busy) /\ IsFiniteSet(Pushing)
  BY LogConstants, FS_Subset DEF Busy, Pushing
<1>2. Len(log_queue) \in Nat
  BY LenProperties DEF LogTypeOK
<1> QED
  BY <1>1, <1>2, FS_CardinalityType

(* As long as a dispatcher is busy the counter is positive; a counter of 0 *)
(* says that nothing is on its way.                                        *)
LEMMA CountFacts ==
  ASSUME LogTypeOK, Accounted
  PROVE  /\ \A d \in Dispatchers : dpc[d] # "pop" => count - 1 \in Nat
         /\ count <= 0 => /\ log_queue = <<>> /\ Busy = {}
                          /\ Pushing = {} /\ cleared = {}
<1>1. /\ IsFiniteSet(Busy) /\ Cardinality(Busy) \in Nat
      /\ IsFiniteSet(Pushing) /\ Cardinality(Pushing) \in Nat
      /\ IsFiniteSet(cleared) /\ Cardinality(cleared) \in Nat
      /\ Len(log_queue) \in Nat
  BY FiniteParts DEF Accounted
<1>2. ASSUME NEW d \in Dispatchers, dpc[d] # "pop" PROVE count - 1 \in Nat
  <2>1. Busy # {}
    BY <1>2 DEF Busy
  <2>2. Cardinality(Busy) # 0
    BY <1>1, <2>1, FS_EmptySet
  <2> QED
    BY <1>1, <2>2 DEF Accounted
<1>3. ASSUME count <= 0
      PROVE  log_queue = <<>> /\ Busy = {} /\ Pushing = {} /\ cleared = {}
  <2>1. /\ Len(log_queue) = 0 /\ Cardinality(Busy) = 0
        /\ Cardinality(Pushing) = 0 /\ Cardinality(cleared) = 0
    BY <1>1, <1>3 DEF Accounted
  <2>2. log_queue = <<>>
    BY <2>1, EmptySeq DEF LogTypeOK
  <2> QED
    BY <1>1, <2>1, <2>2, FS_EmptySet
<1> QED
  BY <1>2, <1>3

-----------------------------------------------------------------------------
(* Every step keeps the invariant: one lemma for each of its parts.        *)

HandsFull == \A d \in Dispatchers : dpc[d] # "pop" => popped[d] \in Messages

(* The invariant of log_service holds at first.                            *)
LEMMA LogInvInit == LogInit => LogInv
<1> SUFFICES ASSUME LogInit PROVE LogInv
  OBVIOUS
<1> USE LogConstants DEF LogInit
<1>1. LogTypeOK
  <2>1. <<>> \in Seq(Messages)
    BY EmptySeq
  <2> QED
    BY <2>1 DEF LogTypeOK
<1>2. /\ Busy = {} /\ Pushing = {}
  BY DEF Busy, Pushing
<1>3. Accounted
  <2>1. Len(log_queue) = 0
    BY EmptySeq
  <2> QED
    BY <1>2, <2>1, FS_EmptySet DEF Accounted
<1>4. QueueOrdered
  BY DEF QueueOrdered
<1>5. ASSUME NEW m \in Messages PROVE Placed(m)
  BY MessageFacts DEF Placed, Begun
<1>6. OnTheirWay
  BY DEF OnTheirWay
<1> QED
  BY <1>1, <1>3, <1>4, <1>5, <1>6 DEF LogInv

(* Every step keeps the types, and a message in the hand of a busy         *)
(* dispatcher.                                                             *)
LEMMA LogTypeStep == LogInv /\ LogStep => LogTypeOK' /\ HandsFull'
<1> SUFFICES ASSUME LogInv, LogStep PROVE LogTypeOK' /\ HandsFull'
  OBVIOUS
<1>a. LogTypeOK /\ HandsFull /\ OnTheirWay /\ Accounted
  BY DEF LogInv, HandsFull
<1>b. Len(log_queue) \in Nat /\ DOMAIN log_queue = 1 .. Len(log_queue)
  BY <1>a, LenProperties DEF LogTypeOK
<1>1. ASSUME NEW c \in LogClients, Vlog(c) PROVE LogTypeOK' /\ HandsFull'
  BY <1>1, <1>a, LogConstants DEF Vlog, LogClient, LogTypeOK, HandsFull
<1>2. ASSUME NEW c \in LogClients, VlogPush(c) PROVE LogTypeOK' /\ HandsFull'
  <2>1. sent[c] >= 1
    BY <1>2, <1>a DEF VlogPush, LogClient, OnTheirWay
  <2>2. log_queue' \in Seq(Messages)
    BY <1>2, <1>a, <2>1, MessageOf, PushFacts DEF VlogPush, LogTypeOK
  <2> QED
    BY <1>2, <1>a, <2>2 DEF VlogPush, LogClient, LogTypeOK, HandsFull
<1>3. ASSUME NEW c \in LogClients, VlogNotify(c) PROVE LogTypeOK' /\ HandsFull'
  BY <1>3, <1>a DEF VlogNotify, LogClient, LogTypeOK, HandsFull
<1>4. ASSUME NEW c \in LogClients, LogAwait(c) PROVE LogTypeOK' /\ HandsFull'
  BY <1>4, <1>a DEF LogAwait, LogClient, LogTypeOK, HandsFull
<1>5. ASSUME NEW c \in LogClients, LogAwaitReturns(c) PROVE LogTypeOK' /\ HandsFull'
  BY <1>5, <1>a DEF LogAwaitReturns, LogClient, LogTypeOK, HandsFull
<1>6. ASSUME NEW c \in LogClients, LogAwaitForce(c) PROVE LogTypeOK' /\ HandsFull'
  <2>1. <<>> \in Seq(Messages)
    BY EmptySeq
  <2>2. \A k \in DOMAIN log_queue : log_queue[k] \in Messages
    BY <1>a, <1>b, ElementOfSeq DEF LogTypeOK
  <2>3. cleared' \subseteq Messages
    BY <1>6, <1>a, <2>2 DEF LogAwaitForce, LogTypeOK
  <2> QED
    BY <1>6, <1>a, <2>1, <2>3 DEF LogAwaitForce, LogClient, LogTypeOK, HandsFull
<1>7. ASSUME NEW c \in LogClients, RemoveLogger(c) PROVE LogTypeOK' /\ HandsFull'
  BY <1>7, <1>a DEF RemoveLogger, ToWrite, LogTypeOK, HandsFull
<1>8. ASSUME NEW c \in LogClients, AddLogger(c) PROVE LogTypeOK' /\ HandsFull'
  BY <1>8, <1>a DEF AddLogger, LogClient, LogTypeOK, HandsFull
<1>9. ASSUME NEW c \in LogClients, LogGoOn(c) PROVE LogTypeOK' /\ HandsFull'
  BY <1>9, <1>a DEF LogGoOn, LogClient, LogTypeOK, HandsFull
<1>10. ASSUME NEW c \in LogClients, ClientDispatch(c) PROVE LogTypeOK' /\ HandsFull'
  BY <1>10, <1>a DEF ClientDispatch, LogClient, LogTypeOK, HandsFull
<1>11. ASSUME NEW d \in Dispatchers, Pop(d) PROVE LogTypeOK' /\ HandsFull'
  <2>1. /\ log_queue' \in Seq(Messages) /\ popped' = [popped EXCEPT ![d] = Head(log_queue)]
        /\ Head(log_queue) \in Messages
    BY <1>11, <1>a, PopFacts DEF Pop, LogTypeOK
  <2> QED
    BY <1>11, <1>a, <2>1 DEF Pop, DispatchAt, LogTypeOK, HandsFull
<1>12. ASSUME NEW d \in Dispatchers, PopNothing(d) PROVE LogTypeOK' /\ HandsFull'
  <2>1. lpc' \in [LogClients -> {"idle", "push", "notify", "await", "awaited", "forced",
                                "dispatch", "dispatched"}]
    BY <1>12, <1>a DEF PopNothing, LogTypeOK
  <2> QED
    BY <1>12, <1>a, <2>1 DEF PopNothing, DispatchAt, LogTypeOK, HandsFull
<1>13. ASSUME NEW d \in Dispatchers, Write(d) PROVE LogTypeOK' /\ HandsFull'
  <2>1. popped[d] \in Messages
    BY <1>13, <1>a DEF Write, DispatchAt, HandsFull
  <2>2. written' \in Seq(Messages)
    <3>1. Append(written, popped[d]) \in Seq(Messages)
      BY <1>a, <2>1, PushFacts DEF LogTypeOK
    <3> QED
      BY <1>13, <3>1, <1>a DEF Write, LogTypeOK
  <2> QED
    BY <1>13, <1>a, <2>2 DEF Write, DispatchAt, LogTypeOK, HandsFull
<1>14. ASSUME NEW d \in Dispatchers, Count(d) PROVE LogTypeOK' /\ HandsFull'
  <2>1. count' \in Nat
    BY <1>14, <1>a, CountFacts DEF Count, DispatchAt
  <2> QED
    BY <1>14, <1>a, <2>1 DEF Count, DispatchAt, LogTypeOK, HandsFull
<1>15. ASSUME UNCHANGED log_vars PROVE LogTypeOK' /\ HandsFull'
  BY <1>15, <1>a DEF log_vars, LogTypeOK, HandsFull
<1> QED
  BY <1>1, <1>2, <1>3, <1>4, <1>5, <1>6, <1>7, <1>8, <1>9, <1>10,
     <1>11, <1>12, <1>13, <1>14, <1>15
     DEF LogStep, LogNext, LogDispatch, LogClientCall, LogClientStep

(* Every step keeps the queue in the order of each client, what was thrown *)
(* away before it, and both behind the message that is being logged.       *)
LEMMA QueueOrderedStep == LogInv /\ LogStep => QueueOrdered'
<1> SUFFICES ASSUME LogInv, LogStep PROVE QueueOrdered'
  OBVIOUS
<1>a. LogTypeOK /\ QueueOrdered /\ OnTheirWay
  BY DEF LogInv
<1>b. /\ Len(log_queue) \in Nat /\ DOMAIN log_queue = 1 .. Len(log_queue)
      /\ \A k \in DOMAIN log_queue : log_queue[k] \in Messages
  BY <1>a, LenProperties, ElementOfSeq DEF LogTypeOK
<1>c. \A m \in Messages : m.by \in LogClients /\ m.n \in Int
  BY MessageFacts
<1>d. \A c \in LogClients : sent[c] \in Int
  BY <1>a, LogConstants DEF LogTypeOK
<1>e. cleared \subseteq Messages
  BY <1>a DEF LogTypeOK
<1>1. ASSUME NEW c \in LogClients, Vlog(c) PROVE QueueOrdered'
  <2>1. UNCHANGED <<log_queue, cleared>>
    BY <1>1 DEF Vlog
  <2>2. ASSUME NEW m \in Messages, WasQueued(m) PROVE WasQueued(m)'
    BY <1>1, <2>2, <1>a, <1>c, <1>d
       DEF Vlog, LogClient, LogTypeOK, WasQueued, Begun
  <2> QED
    BY <2>1, <2>2, <1>a, <1>b, <1>e DEF QueueOrdered, Before
<1>2. ASSUME NEW c \in LogClients, VlogPush(c) PROVE QueueOrdered'
  <2>1. PICK o \in Messages :
          o = Message(c) /\ o.by = c /\ o.n = sent[c] /\ lpc[c] = "push"
    BY <1>2, <1>a, MessageOf DEF VlogPush, LogClient, OnTheirWay
  <2>2. /\ DOMAIN log_queue' = 1 .. Len(log_queue) + 1
        /\ \A k \in 1 .. Len(log_queue) : log_queue'[k] = log_queue[k]
        /\ log_queue'[Len(log_queue) + 1] = o
    BY <1>2, <1>a, <2>1, PushFacts DEF VlogPush, LogTypeOK
  <2>3. UNCHANGED <<cleared, sent>> /\ lpc' = [lpc EXCEPT ![c] = "notify"]
    BY <1>2 DEF VlogPush, LogClient
  <2>4. ASSUME NEW m \in Messages, WasQueued(m)
        PROVE  WasQueued(m)' /\ Before(m, o)
    BY <2>1, <2>3, <2>4, <1>a, <1>c, <1>d
       DEF WasQueued, Begun, Before, LogTypeOK
  <2>5. WasQueued(o)'
    BY <2>1, <2>3, <1>a, <1>d DEF WasQueued, Begun, LogTypeOK
  <2>6. \A k \in DOMAIN log_queue' :
          \/ k \in DOMAIN log_queue /\ log_queue'[k] = log_queue[k]
          \/ k = Len(log_queue) + 1 /\ log_queue'[k] = o
    BY <2>2, <1>b
  <2>7. ASSUME NEW j \in DOMAIN log_queue', NEW k \in DOMAIN log_queue', j < k
        PROVE  Before(log_queue'[j], log_queue'[k])
    BY <2>2, <2>4, <2>6, <2>7, <1>a, <1>b DEF QueueOrdered
  <2>8. ASSUME NEW k \in DOMAIN log_queue' PROVE WasQueued(log_queue[k])'
    <3>1. PICK m \in Messages : m = log_queue'[k] /\ WasQueued(m)'
      BY <2>1, <2>4, <2>5, <2>6, <1>a, <1>b DEF QueueOrdered
    <3> QED
      BY <3>1 DEF WasQueued, Begun
  <2>9. \A m \in cleared' : WasQueued(m)' /\ \A k \in DOMAIN log_queue' : Before(m, log_queue'[k])
    BY <2>3, <2>4, <2>6, <1>a, <1>e DEF QueueOrdered
  <2> QED
    BY <2>7, <2>8, <2>9 DEF QueueOrdered, Before
<1>3. ASSUME NEW c \in LogClients, VlogNotify(c) PROVE QueueOrdered'
  <2>1. UNCHANGED <<log_queue, cleared, sent>>
    BY <1>3 DEF VlogNotify
  <2>2. \A b \in LogClients : lpc'[b] = "push" => lpc[b] = "push"
    BY <1>3, <1>a DEF VlogNotify, LogClient, LogTypeOK
  <2> QED
    BY <2>1, <2>2, <1>a, <1>b, <1>c, <1>e
       DEF QueueOrdered, Before, WasQueued, Begun
<1>4. ASSUME NEW c \in LogClients, LogAwait(c) PROVE QueueOrdered'
  <2>1. UNCHANGED <<log_queue, cleared, sent>>
    BY <1>4 DEF LogAwait
  <2>2. \A b \in LogClients : lpc'[b] = "push" => lpc[b] = "push"
    BY <1>4, <1>a DEF LogAwait, LogClient, LogTypeOK
  <2> QED
    BY <2>1, <2>2, <1>a, <1>b, <1>c, <1>e
       DEF QueueOrdered, Before, WasQueued, Begun
<1>5. ASSUME NEW c \in LogClients, LogAwaitReturns(c) PROVE QueueOrdered'
  <2>1. UNCHANGED <<log_queue, cleared, sent>>
    BY <1>5 DEF LogAwaitReturns
  <2>2. \A b \in LogClients : lpc'[b] = "push" => lpc[b] = "push"
    BY <1>5, <1>a DEF LogAwaitReturns, LogClient, LogTypeOK
  <2> QED
    BY <2>1, <2>2, <1>a, <1>b, <1>c, <1>e
       DEF QueueOrdered, Before, WasQueued, Begun
<1>6. ASSUME NEW c \in LogClients, LogAwaitForce(c) PROVE QueueOrdered'
  <2>1. /\ log_queue' = <<>> /\ sent' = sent
        /\ lpc' = [lpc EXCEPT ![c] = "forced"]
        /\ cleared' = cleared \cup {log_queue[k] : k \in DOMAIN log_queue}
    BY <1>6 DEF LogAwaitForce, LogClient
  <2>2. DOMAIN log_queue' = {}
    BY <2>1
  <2>3. \A b \in LogClients : lpc'[b] = "push" => lpc[b] = "push"
    BY <2>1, <1>a DEF LogTypeOK
  <2>4. \A m \in cleared' : m \in Messages /\ WasQueued(m)
    BY <2>1, <1>a, <1>b, <1>e DEF QueueOrdered
  <2>5. \A m \in cleared' : WasQueued(m)'
    BY <2>1, <2>3, <2>4, <1>c DEF WasQueued, Begun
  <2> QED
    BY <2>2, <2>5 DEF QueueOrdered
<1>7. ASSUME NEW c \in LogClients, RemoveLogger(c) PROVE QueueOrdered'
  <2>1. UNCHANGED <<log_queue, cleared, sent>>
    BY <1>7 DEF RemoveLogger
  <2>2. \A b \in LogClients : lpc'[b] = "push" => lpc[b] = "push"
    BY <1>7, <1>a DEF RemoveLogger, LogTypeOK
  <2> QED
    BY <2>1, <2>2, <1>a, <1>b, <1>c, <1>e
       DEF QueueOrdered, Before, WasQueued, Begun
<1>8. ASSUME NEW c \in LogClients, AddLogger(c) PROVE QueueOrdered'
  <2>1. UNCHANGED <<log_queue, cleared, sent>>
    BY <1>8 DEF AddLogger
  <2>2. \A b \in LogClients : lpc'[b] = "push" => lpc[b] = "push"
    BY <1>8, <1>a DEF AddLogger, LogClient, LogTypeOK
  <2> QED
    BY <2>1, <2>2, <1>a, <1>b, <1>c, <1>e
       DEF QueueOrdered, Before, WasQueued, Begun
<1>9. ASSUME NEW c \in LogClients, LogGoOn(c) PROVE QueueOrdered'
  <2>1. UNCHANGED <<log_queue, cleared, sent>>
    BY <1>9 DEF LogGoOn
  <2>2. \A b \in LogClients : lpc'[b] = "push" => lpc[b] = "push"
    BY <1>9, <1>a DEF LogGoOn, LogClient, LogTypeOK
  <2> QED
    BY <2>1, <2>2, <1>a, <1>b, <1>c, <1>e
       DEF QueueOrdered, Before, WasQueued, Begun
<1>10. ASSUME NEW c \in LogClients, ClientDispatch(c) PROVE QueueOrdered'
  <2>1. UNCHANGED <<log_queue, cleared, sent>>
    BY <1>10 DEF ClientDispatch
  <2>2. \A b \in LogClients : lpc'[b] = "push" => lpc[b] = "push"
    BY <1>10, <1>a DEF ClientDispatch, LogClient, LogTypeOK
  <2> QED
    BY <2>1, <2>2, <1>a, <1>b, <1>c, <1>e
       DEF QueueOrdered, Before, WasQueued, Begun
<1>11. ASSUME NEW d \in Dispatchers, Pop(d) PROVE QueueOrdered'
  <2>1. /\ DOMAIN log_queue' = 1 .. Len(log_queue) - 1
        /\ \A k \in 1 .. Len(log_queue) - 1 : log_queue'[k] = log_queue[k + 1]
        /\ UNCHANGED <<cleared, sent, lpc>>
    BY <1>11, <1>a, PopFacts DEF Pop, LogTypeOK
  <2>2. \A k \in DOMAIN log_queue' : k + 1 \in DOMAIN log_queue /\ log_queue'[k] = log_queue[k + 1]
    BY <2>1, <1>b
  <2>3. \A j, k \in DOMAIN log_queue' : j < k => j + 1 < k + 1
    BY <2>1, <1>b
  <2> QED
    BY <2>1, <2>2, <2>3, <1>a DEF QueueOrdered, Before, WasQueued, Begun
<1>12. ASSUME NEW d \in Dispatchers, PopNothing(d) PROVE QueueOrdered'
  <2>1. UNCHANGED <<log_queue, cleared, sent>>
    BY <1>12 DEF PopNothing
  <2>2. \A b \in LogClients : lpc'[b] = "push" => lpc[b] = "push"
    BY <1>12, <1>a DEF PopNothing, DispatchAt, LogTypeOK
  <2> QED
    BY <2>1, <2>2, <1>a, <1>b, <1>c, <1>e
       DEF QueueOrdered, Before, WasQueued, Begun
<1>13. ASSUME NEW d \in Dispatchers, Write(d) PROVE QueueOrdered'
  <2>1. UNCHANGED <<log_queue, cleared, sent>>
    BY <1>13 DEF Write
  <2>2. \A b \in LogClients : lpc'[b] = "push" => lpc[b] = "push"
    BY <1>13, <1>a DEF Write, DispatchAt, LogTypeOK
  <2> QED
    BY <2>1, <2>2, <1>a, <1>b, <1>c, <1>e
       DEF QueueOrdered, Before, WasQueued, Begun
<1>14. ASSUME NEW d \in Dispatchers, Count(d) PROVE QueueOrdered'
  <2>1. UNCHANGED <<log_queue, cleared, sent>>
    BY <1>14 DEF Count
  <2>2. \A b \in LogClients : lpc'[b] = "push" => lpc[b] = "push"
    BY <1>14, <1>a DEF Count, DispatchAt, LogTypeOK
  <2> QED
    BY <2>1, <2>2, <1>a, <1>b, <1>c, <1>e
       DEF QueueOrdered, Before, WasQueued, Begun
<1>15. ASSUME UNCHANGED log_vars PROVE QueueOrdered'
  <2>1. UNCHANGED <<log_queue, cleared, sent>>
    BY <1>15 DEF log_vars
  <2>2. \A b \in LogClients : lpc'[b] = "push" => lpc[b] = "push"
    BY <1>15, <1>a DEF log_vars, LogTypeOK
  <2> QED
    BY <2>1, <2>2, <1>a, <1>b, <1>c, <1>e
       DEF QueueOrdered, Before, WasQueued, Begun
<1> QED
  BY <1>1, <1>2, <1>3, <1>4, <1>5, <1>6, <1>7, <1>8, <1>9, <1>10,
     <1>11, <1>12, <1>13, <1>14, <1>15
     DEF LogStep, LogNext, LogDispatch, LogClientCall, LogClientStep

(* No step loses a message: it goes from the client to the queue, to the   *)
(* hand of a dispatcher, to the log, or with the queue.                    *)
LEMMA PlacedStep == LogInv /\ LogStep => \A m \in Messages : Placed(m)'
<1> SUFFICES ASSUME LogInv, LogStep, NEW m \in Messages, Begun(m)'
             PROVE  Somewhere(m)'
  BY DEF Placed
<1>a. LogTypeOK /\ OnTheirWay /\ HandsFull /\ (Begun(m) => Somewhere(m))
  BY DEF LogInv, Placed, HandsFull
<1>b. /\ Len(log_queue) \in Nat /\ DOMAIN log_queue = 1 .. Len(log_queue)
      /\ Len(written) \in Nat /\ DOMAIN written = 1 .. Len(written)
  BY <1>a, LenProperties DEF LogTypeOK
<1>c. m.by \in LogClients /\ m.n \in Int
  BY MessageFacts
<1>d. \A c \in LogClients : sent[c] \in Int
  BY <1>a, LogConstants DEF LogTypeOK
<1>1. ASSUME NEW c \in LogClients, Vlog(c) PROVE Somewhere(m)'
  <2>1. UNCHANGED <<log_queue, cleared, dangling, written, popped, dpc>>
    BY <1>1 DEF Vlog
  <2>2. CASE Begun(m)
    <3>1. ToBeQueued(m) => ToBeQueued(m)'
      BY <1>1, <1>a, <1>c DEF Vlog, LogClient, LogTypeOK, ToBeQueued
    <3>2. UNCHANGED <<IsWritten(m), IsQueued(m)>>
      BY <2>1 DEF IsWritten, IsQueued
    <3>3. \A e \in Dispatchers : InHand(e, m) => InHand(e, m)'
      BY <2>1 DEF InHand
    <3> QED
      BY <2>1, <2>2, <3>1, <3>2, <3>3, <1>a DEF Somewhere
  <2>3. CASE ~Begun(m)
    <3>1. ToBeQueued(m)'
      BY <1>1, <2>3, <1>a, <1>c, <1>d
         DEF Vlog, LogClient, LogTypeOK, Begun, ToBeQueued
    <3> QED
      BY <3>1 DEF Somewhere
  <2> QED
    BY <2>2, <2>3
<1>2. ASSUME NEW c \in LogClients, VlogPush(c) PROVE Somewhere(m)'
  <2>1. PICK o \in Messages : o = Message(c) /\ o.by = c /\ o.n = sent[c]
    BY <1>2, <1>a, MessageOf DEF VlogPush, LogClient, OnTheirWay
  <2>2. /\ DOMAIN log_queue' = 1 .. Len(log_queue) + 1
        /\ \A k \in 1 .. Len(log_queue) : log_queue'[k] = log_queue[k]
        /\ log_queue'[Len(log_queue) + 1] = o
    BY <1>2, <1>a, <2>1, PushFacts DEF VlogPush, LogTypeOK
  <2>3. /\ UNCHANGED <<cleared, dangling, sent, written, popped, dpc>>
        /\ lpc' = [lpc EXCEPT ![c] = "notify"]
    BY <1>2 DEF VlogPush, LogClient
  <2>4. /\ Len(log_queue) + 1 \in DOMAIN log_queue'
        /\ \A k \in DOMAIN log_queue : k \in DOMAIN log_queue' /\ log_queue'[k] = log_queue[k]
    BY <2>2, <1>b
  <2>5. CASE m = o
    <3>1. IsQueued(m)'
      BY <2>2, <2>4, <2>5 DEF IsQueued
    <3> QED
      BY <3>1 DEF Somewhere
  <2>6. CASE m # o
    <3>1. ~(m.by = c /\ m.n = sent[c])
      BY <2>1, <2>6, MessageFacts
    <3>2. IsQueued(m) => IsQueued(m)'
      BY <2>4 DEF IsQueued
    <3>3. ToBeQueued(m) => ToBeQueued(m)'
      BY <2>3, <3>1, <1>a, <1>c DEF LogTypeOK, ToBeQueued
    <3>4. Begun(m) /\ UNCHANGED IsWritten(m)
      BY <2>3 DEF Begun, IsWritten
    <3>5. \A e \in Dispatchers : InHand(e, m) => InHand(e, m)'
      BY <2>3 DEF InHand
    <3> QED
      BY <2>3, <3>2, <3>3, <3>4, <3>5, <1>a DEF Somewhere
  <2> QED
    BY <2>5, <2>6
<1>3. ASSUME NEW c \in LogClients, VlogNotify(c) PROVE Somewhere(m)'
  <2>1. UNCHANGED <<log_queue, cleared, dangling, sent, written, popped>>
    BY <1>3 DEF VlogNotify
  <2>2. lpc[m.by] = "push" => lpc'[m.by] = "push"
    BY <1>3, <1>a, <1>c DEF VlogNotify, LogClient, LogTypeOK
  <2>3. dpc' = dpc
    BY <1>3, <1>a DEF VlogNotify, LogClient, LogTypeOK
  <2>4. Begun(m) /\ UNCHANGED <<IsWritten(m), IsQueued(m)>>
    BY <2>1 DEF Begun, IsWritten, IsQueued
  <2>5. ToBeQueued(m) => ToBeQueued(m)'
    BY <2>1, <2>2 DEF ToBeQueued
  <2>6. \A e \in Dispatchers : InHand(e, m) => InHand(e, m)'
    BY <2>1, <2>3 DEF InHand
  <2> QED
    BY <2>1, <2>4, <2>5, <2>6, <1>a DEF Somewhere
<1>4. ASSUME NEW c \in LogClients, LogAwait(c) PROVE Somewhere(m)'
  <2>1. UNCHANGED <<log_queue, cleared, dangling, sent, written, popped>>
    BY <1>4 DEF LogAwait
  <2>2. lpc[m.by] = "push" => lpc'[m.by] = "push"
    BY <1>4, <1>a, <1>c DEF LogAwait, LogClient, LogTypeOK
  <2>3. dpc' = dpc
    BY <1>4, <1>a DEF LogAwait, LogClient, LogTypeOK
  <2>4. Begun(m) /\ UNCHANGED <<IsWritten(m), IsQueued(m)>>
    BY <2>1 DEF Begun, IsWritten, IsQueued
  <2>5. ToBeQueued(m) => ToBeQueued(m)'
    BY <2>1, <2>2 DEF ToBeQueued
  <2>6. \A e \in Dispatchers : InHand(e, m) => InHand(e, m)'
    BY <2>1, <2>3 DEF InHand
  <2> QED
    BY <2>1, <2>4, <2>5, <2>6, <1>a DEF Somewhere
<1>5. ASSUME NEW c \in LogClients, LogAwaitReturns(c) PROVE Somewhere(m)'
  <2>1. UNCHANGED <<log_queue, cleared, dangling, sent, written, popped>>
    BY <1>5 DEF LogAwaitReturns
  <2>2. lpc[m.by] = "push" => lpc'[m.by] = "push"
    BY <1>5, <1>a, <1>c DEF LogAwaitReturns, LogClient, LogTypeOK
  <2>3. dpc' = dpc
    BY <1>5, <1>a DEF LogAwaitReturns, LogClient, LogTypeOK
  <2>4. Begun(m) /\ UNCHANGED <<IsWritten(m), IsQueued(m)>>
    BY <2>1 DEF Begun, IsWritten, IsQueued
  <2>5. ToBeQueued(m) => ToBeQueued(m)'
    BY <2>1, <2>2 DEF ToBeQueued
  <2>6. \A e \in Dispatchers : InHand(e, m) => InHand(e, m)'
    BY <2>1, <2>3 DEF InHand
  <2> QED
    BY <2>1, <2>4, <2>5, <2>6, <1>a DEF Somewhere
<1>6. ASSUME NEW c \in LogClients, LogAwaitForce(c) PROVE Somewhere(m)'
  <2>1. /\ cleared' = cleared \cup {log_queue[k] : k \in DOMAIN log_queue}
        /\ UNCHANGED <<dangling, sent, written, popped, dpc>>
        /\ lpc' = [lpc EXCEPT ![c] = "forced"] /\ lpc[c] = "idle"
    BY <1>6 DEF LogAwaitForce, LogClient
  <2>2. (IsQueued(m) => m \in cleared') /\ (m \in cleared => m \in cleared')
    BY <2>1 DEF IsQueued
  <2>3. Begun(m) /\ UNCHANGED <<IsWritten(m), ToBeQueued(m)>>
    BY <2>1, <1>a, <1>c DEF Begun, IsWritten, ToBeQueued, LogTypeOK
  <2>4. \A e \in Dispatchers : InHand(e, m) => InHand(e, m)'
    BY <2>1 DEF InHand
  <2> QED
    BY <2>1, <2>2, <2>3, <2>4, <1>a DEF Somewhere
<1>7. ASSUME NEW c \in LogClients, RemoveLogger(c) PROVE Somewhere(m)'
  <2>1. UNCHANGED <<log_queue, cleared, sent, written, popped>> /\ dangling \subseteq dangling'
    BY <1>7 DEF RemoveLogger
  <2>2. lpc[m.by] = "push" => lpc'[m.by] = "push"
    BY <1>7, <1>a, <1>c DEF RemoveLogger, LogTypeOK
  <2>3. dpc' = dpc
    BY <1>7, <1>a DEF RemoveLogger, LogTypeOK
  <2>4. Begun(m) /\ UNCHANGED <<IsWritten(m), IsQueued(m)>>
    BY <2>1 DEF Begun, IsWritten, IsQueued
  <2>5. ToBeQueued(m) => ToBeQueued(m)'
    BY <2>1, <2>2 DEF ToBeQueued
  <2>6. \A e \in Dispatchers : InHand(e, m) => InHand(e, m)'
    BY <2>1, <2>3 DEF InHand
  <2> QED
    BY <2>1, <2>4, <2>5, <2>6, <1>a DEF Somewhere
<1>8. ASSUME NEW c \in LogClients, AddLogger(c) PROVE Somewhere(m)'
  <2>1. UNCHANGED <<log_queue, cleared, dangling, sent, written, popped>>
    BY <1>8 DEF AddLogger
  <2>2. lpc[m.by] = "push" => lpc'[m.by] = "push"
    BY <1>8, <1>a, <1>c DEF AddLogger, LogClient, LogTypeOK
  <2>3. dpc' = dpc
    BY <1>8, <1>a DEF AddLogger, LogClient, LogTypeOK
  <2>4. Begun(m) /\ UNCHANGED <<IsWritten(m), IsQueued(m)>>
    BY <2>1 DEF Begun, IsWritten, IsQueued
  <2>5. ToBeQueued(m) => ToBeQueued(m)'
    BY <2>1, <2>2 DEF ToBeQueued
  <2>6. \A e \in Dispatchers : InHand(e, m) => InHand(e, m)'
    BY <2>1, <2>3 DEF InHand
  <2> QED
    BY <2>1, <2>4, <2>5, <2>6, <1>a DEF Somewhere
<1>9. ASSUME NEW c \in LogClients, LogGoOn(c) PROVE Somewhere(m)'
  <2>1. UNCHANGED <<log_queue, cleared, dangling, sent, written, popped>>
    BY <1>9 DEF LogGoOn
  <2>2. lpc[m.by] = "push" => lpc'[m.by] = "push"
    BY <1>9, <1>a, <1>c DEF LogGoOn, LogClient, LogTypeOK
  <2>3. dpc' = dpc
    BY <1>9, <1>a DEF LogGoOn, LogClient, LogTypeOK
  <2>4. Begun(m) /\ UNCHANGED <<IsWritten(m), IsQueued(m)>>
    BY <2>1 DEF Begun, IsWritten, IsQueued
  <2>5. ToBeQueued(m) => ToBeQueued(m)'
    BY <2>1, <2>2 DEF ToBeQueued
  <2>6. \A e \in Dispatchers : InHand(e, m) => InHand(e, m)'
    BY <2>1, <2>3 DEF InHand
  <2> QED
    BY <2>1, <2>4, <2>5, <2>6, <1>a DEF Somewhere
<1>10. ASSUME NEW c \in LogClients, ClientDispatch(c) PROVE Somewhere(m)'
  <2>1. UNCHANGED <<log_queue, cleared, dangling, sent, written, popped>>
    BY <1>10 DEF ClientDispatch
  <2>2. lpc[m.by] = "push" => lpc'[m.by] = "push"
    BY <1>10, <1>a, <1>c DEF ClientDispatch, LogClient, LogTypeOK
  <2>3. dpc' = dpc
    BY <1>10, <1>a DEF ClientDispatch, LogClient, LogTypeOK
  <2>4. Begun(m) /\ UNCHANGED <<IsWritten(m), IsQueued(m)>>
    BY <2>1 DEF Begun, IsWritten, IsQueued
  <2>5. ToBeQueued(m) => ToBeQueued(m)'
    BY <2>1, <2>2 DEF ToBeQueued
  <2>6. \A e \in Dispatchers : InHand(e, m) => InHand(e, m)'
    BY <2>1, <2>3 DEF InHand
  <2> QED
    BY <2>1, <2>4, <2>5, <2>6, <1>a DEF Somewhere
<1>11. ASSUME NEW d \in Dispatchers, Pop(d) PROVE Somewhere(m)'
  <2>1. /\ DOMAIN log_queue' = 1 .. Len(log_queue) - 1
        /\ \A k \in 1 .. Len(log_queue) - 1 : log_queue'[k] = log_queue[k + 1]
        /\ Head(log_queue) = log_queue[1]
    BY <1>11, <1>a, PopFacts DEF Pop, LogTypeOK
  <2>2. /\ UNCHANGED <<cleared, dangling, sent, lpc, written>>
        /\ popped' = [popped EXCEPT ![d] = Head(log_queue)]
        /\ dpc' = [dpc EXCEPT ![d] = "write"] /\ dpc[d] = "pop"
    BY <1>11 DEF Pop, DispatchAt
  <2>3. \A e \in Dispatchers : InHand(e, m) => InHand(e, m)'
    BY <2>2, <1>a DEF InHand, LogTypeOK
  <2>4. IsQueued(m) => IsQueued(m)' \/ InHand(d, m)'
    <3>1. SUFFICES ASSUME NEW k \in DOMAIN log_queue, log_queue[k] = m
                   PROVE  IsQueued(m)' \/ InHand(d, m)'
      BY DEF IsQueued
    <3>2. CASE k = 1
      BY <2>1, <2>2, <3>1, <3>2, <1>a DEF InHand, LogTypeOK
    <3>3. CASE k # 1
      <4>1. k - 1 \in DOMAIN log_queue' /\ log_queue'[k - 1] = m
        BY <2>1, <3>1, <3>3, <1>b
      <4> QED
        BY <4>1 DEF IsQueued
    <3> QED
      BY <3>2, <3>3
  <2>5. Begun(m) /\ UNCHANGED <<IsWritten(m), ToBeQueued(m)>>
    BY <2>2 DEF Begun, IsWritten, ToBeQueued
  <2> QED
    BY <2>2, <2>3, <2>4, <2>5, <1>a DEF Somewhere
<1>12. ASSUME NEW d \in Dispatchers, PopNothing(d) PROVE Somewhere(m)'
  <2>1. /\ UNCHANGED <<log_queue, cleared, dangling, sent, written, popped>>
        /\ dpc' = [dpc EXCEPT ![d] = "pop"] /\ dpc[d] = "pop"
    BY <1>12 DEF PopNothing, DispatchAt
  <2>2. Begun(m) /\ UNCHANGED <<IsWritten(m), IsQueued(m)>>
    BY <2>1 DEF Begun, IsWritten, IsQueued
  <2>3. ToBeQueued(m) => ToBeQueued(m)'
    <3>1. d # WorkerThread => d \in LogClients /\ lpc[d] = "dispatch"
      BY <1>12, LogConstants DEF PopNothing, DispatchAt, Dispatching
    <3>2. lpc[m.by] = "push" => lpc'[m.by] = "push"
      BY <1>12, <3>1, <1>a, <1>c DEF PopNothing, LogTypeOK
    <3> QED
      BY <2>1, <3>2 DEF ToBeQueued
  <2>4. \A e \in Dispatchers : InHand(e, m) => InHand(e, m)'
    BY <2>1, <1>a DEF InHand, LogTypeOK
  <2> QED
    BY <2>1, <2>2, <2>3, <2>4, <1>a DEF Somewhere
<1>13. ASSUME NEW d \in Dispatchers, Write(d) PROVE Somewhere(m)'
  <2>1. popped[d] \in Messages /\ dpc[d] = "write"
    BY <1>13, <1>a DEF Write, DispatchAt, HandsFull
  <2>2. /\ UNCHANGED <<cleared, dangling, sent, lpc, log_queue, popped>>
        /\ dpc' = [dpc EXCEPT ![d] = "count"]
    BY <1>13 DEF Write, DispatchAt
  <2>3. /\ \A k \in DOMAIN written : k \in DOMAIN written' /\ written'[k] = written[k]
        /\ \/ popped[d] \in dangling
           \/ \E k \in DOMAIN written' : written'[k] = popped[d]
    <3>1. CASE written' = Append(written, popped[d])
      <4>1. /\ DOMAIN written' = 1 .. Len(written) + 1
            /\ \A k \in 1 .. Len(written) : written'[k] = written[k]
            /\ written'[Len(written) + 1] = popped[d]
        BY <2>1, <3>1, <1>a, PushFacts DEF LogTypeOK
      <4>2. Len(written) + 1 \in DOMAIN written'
        BY <4>1, <1>b
      <4> QED
        BY <4>1, <4>2, <1>b
    <3>2. CASE popped[d] \in dangling /\ UNCHANGED written
      BY <3>2
    <3> QED
      BY <1>13, <3>1, <3>2 DEF Write
  <2>4. IsWritten(m) => IsWritten(m)'
    BY <2>3 DEF IsWritten
  <2>5. ASSUME NEW e \in Dispatchers, InHand(e, m)
        PROVE  InHand(e, m)' \/ IsWritten(m)' \/ m \in dangling
    <3>1. CASE e = d
      BY <2>3, <2>5, <3>1 DEF InHand, IsWritten
    <3>2. CASE e # d
      BY <2>2, <2>5, <3>2, <1>a DEF InHand, LogTypeOK
    <3> QED
      BY <3>1, <3>2
  <2>6. Begun(m) /\ UNCHANGED <<IsQueued(m), ToBeQueued(m)>>
    BY <2>2 DEF Begun, IsQueued, ToBeQueued
  <2> QED
    BY <2>2, <2>4, <2>5, <2>6, <1>a DEF Somewhere
<1>14. ASSUME NEW d \in Dispatchers, Count(d) PROVE Somewhere(m)'
  <2>1. /\ UNCHANGED <<cleared, dangling, sent, lpc, log_queue, written>>
        /\ popped' = [popped EXCEPT ![d] = NoMessage]
        /\ dpc' = [dpc EXCEPT ![d] = "pop"] /\ dpc[d] = "count"
    BY <1>14 DEF Count, DispatchAt
  <2>2. \A e \in Dispatchers : InHand(e, m) => InHand(e, m)'
    BY <2>1, <1>a DEF InHand, LogTypeOK
  <2>3. Begun(m) /\ UNCHANGED <<IsWritten(m), IsQueued(m), ToBeQueued(m)>>
    BY <2>1 DEF Begun, IsWritten, IsQueued, ToBeQueued
  <2> QED
    BY <2>1, <2>2, <2>3, <1>a DEF Somewhere
<1>15. ASSUME UNCHANGED log_vars PROVE Somewhere(m)'
  <2>1. UNCHANGED <<log_queue, cleared, dangling, sent, written, popped>>
    BY <1>15 DEF log_vars
  <2>2. lpc[m.by] = "push" => lpc'[m.by] = "push"
    BY <1>15, <1>a, <1>c DEF log_vars, LogTypeOK
  <2>3. dpc' = dpc
    BY <1>15, <1>a DEF log_vars, LogTypeOK
  <2>4. Begun(m) /\ UNCHANGED <<IsWritten(m), IsQueued(m)>>
    BY <2>1 DEF Begun, IsWritten, IsQueued
  <2>5. ToBeQueued(m) => ToBeQueued(m)'
    BY <2>1, <2>2 DEF ToBeQueued
  <2>6. \A e \in Dispatchers : InHand(e, m) => InHand(e, m)'
    BY <2>1, <2>3 DEF InHand
  <2> QED
    BY <2>1, <2>4, <2>5, <2>6, <1>a DEF Somewhere
<1> QED
  BY <1>1, <1>2, <1>3, <1>4, <1>5, <1>6, <1>7, <1>8, <1>9, <1>10,
     <1>11, <1>12, <1>13, <1>14, <1>15
     DEF LogStep, LogNext, LogDispatch, LogClientCall, LogClientStep

(* A client gets back from await() only when it has no message on its way, *)
(* and it keeps its logger as long as it is in log().                      *)
LEMMA OnTheirWayStep == LogInv /\ LogStep => OnTheirWay'
<1> SUFFICES ASSUME LogInv, LogStep PROVE OnTheirWay'
  OBVIOUS
<1>a. LogTypeOK /\ HandsFull /\ OnTheirWay /\ Accounted
  BY DEF LogInv, HandsFull
<1>b. /\ Len(log_queue) \in Nat /\ DOMAIN log_queue = 1 .. Len(log_queue)
      /\ \A k \in DOMAIN log_queue : log_queue[k] \in Messages
  BY <1>a, LenProperties, ElementOfSeq DEF LogTypeOK
<1>c. \A m \in Messages : m.by \in LogClients
  BY MessageFacts
<1>d. \A c \in LogClients : sent[c] \in Nat
  BY <1>a, LogConstants DEF LogTypeOK
<1>1. ASSUME NEW c \in LogClients, Vlog(c) PROVE OnTheirWay'
  <2>1. UNCHANGED <<log_queue, popped>>
    BY <1>1 DEF Vlog
  <2>2. \A b \in LogClients : Waited(b) => Waited(b)'
    BY <1>1, <1>a DEF Vlog, LogClient, LogTypeOK, Waited
  <2>3. \A b \in LogClients : lpc'[b] = "push" => b \in loggers' /\ sent'[b] >= 1
    BY <1>1, <1>a, <1>d DEF Vlog, LogClient, LogTypeOK, OnTheirWay
  <2>4. \A e \in Dispatchers : dpc'[e] = "write" => dpc[e] = "write"
    BY <1>1, <1>a DEF Vlog, LogClient, LogTypeOK
  <2> QED
    BY <2>1, <2>2, <2>3, <2>4, <1>a, <1>b, <1>c DEF OnTheirWay, HandsFull
<1>2. ASSUME NEW c \in LogClients, VlogPush(c) PROVE OnTheirWay'
  <2>1. PICK o \in Messages : o = Message(c) /\ o.by = c
    BY <1>2, <1>a, MessageOf DEF VlogPush, LogClient, OnTheirWay
  <2>2. /\ DOMAIN log_queue' = 1 .. Len(log_queue) + 1
        /\ \A k \in 1 .. Len(log_queue) : log_queue'[k] = log_queue[k]
        /\ log_queue'[Len(log_queue) + 1] = o
    BY <1>2, <1>a, <2>1, PushFacts DEF VlogPush, LogTypeOK
  <2>3. /\ UNCHANGED <<loggers, sent, popped, dpc>>
        /\ lpc' = [lpc EXCEPT ![c] = "notify"] /\ lpc[c] = "push"
    BY <1>2 DEF VlogPush, LogClient
  <2>4. \A b \in LogClients : Waited(b) \/ b = c => Waited(b)'
    BY <2>3, <1>a DEF Waited, OnTheirWay, LogTypeOK
  <2>5. \A b \in LogClients : lpc'[b] = "push" => b \in loggers' /\ sent'[b] >= 1
    BY <2>3, <1>a DEF OnTheirWay, LogTypeOK
  <2>6. ASSUME NEW k \in DOMAIN log_queue' PROVE Waited(log_queue[k].by)'
    <3>1. log_queue'[k].by \in LogClients /\ (Waited(log_queue'[k].by) \/ log_queue'[k].by = c)
      BY <2>1, <2>2, <1>a, <1>b, <1>c DEF OnTheirWay
    <3> QED
      BY <2>4, <3>1 DEF Waited
  <2>7. ASSUME NEW e \in Dispatchers, dpc'[e] = "write" PROVE Waited(popped[e].by)'
    <3>1. popped'[e].by \in LogClients /\ Waited(popped'[e].by)
      BY <2>3, <2>7, <1>a, <1>c DEF OnTheirWay, HandsFull
    <3> QED
      BY <2>4, <3>1 DEF Waited
  <2> QED
    BY <2>5, <2>6, <2>7 DEF OnTheirWay
<1>3. ASSUME NEW c \in LogClients, VlogNotify(c) PROVE OnTheirWay'
  <2>1. UNCHANGED <<log_queue, popped>>
    BY <1>3 DEF VlogNotify
  <2>2. \A b \in LogClients : Waited(b) => Waited(b)'
    BY <1>3, <1>a DEF VlogNotify, LogClient, LogTypeOK, Waited
  <2>3. \A b \in LogClients : lpc'[b] = "push" => b \in loggers' /\ sent'[b] >= 1
    BY <1>3, <1>a, <1>d DEF VlogNotify, LogClient, LogTypeOK, OnTheirWay
  <2>4. \A e \in Dispatchers : dpc'[e] = "write" => dpc[e] = "write"
    BY <1>3, <1>a DEF VlogNotify, LogClient, LogTypeOK
  <2> QED
    BY <2>1, <2>2, <2>3, <2>4, <1>a, <1>b, <1>c DEF OnTheirWay, HandsFull
<1>4. ASSUME NEW c \in LogClients, LogAwait(c) PROVE OnTheirWay'
  <2>1. UNCHANGED <<log_queue, popped>>
    BY <1>4 DEF LogAwait
  <2>2. \A b \in LogClients : Waited(b) => Waited(b)'
    BY <1>4, <1>a DEF LogAwait, LogClient, LogTypeOK, Waited
  <2>3. \A b \in LogClients : lpc'[b] = "push" => b \in loggers' /\ sent'[b] >= 1
    BY <1>4, <1>a, <1>d DEF LogAwait, LogClient, LogTypeOK, OnTheirWay
  <2>4. \A e \in Dispatchers : dpc'[e] = "write" => dpc[e] = "write"
    BY <1>4, <1>a DEF LogAwait, LogClient, LogTypeOK
  <2> QED
    BY <2>1, <2>2, <2>3, <2>4, <1>a, <1>b, <1>c DEF OnTheirWay, HandsFull
<1>5. ASSUME NEW c \in LogClients, LogAwaitReturns(c) PROVE OnTheirWay'
  <2>1. log_queue = <<>> /\ Busy = {}
    BY <1>5, <1>a, CountFacts DEF LogAwaitReturns
  <2>2. /\ UNCHANGED <<log_queue, loggers, sent, dpc, popped>>
        /\ lpc' = [lpc EXCEPT ![c] = "awaited"]
    BY <1>5 DEF LogAwaitReturns, LogClient
  <2>3. DOMAIN log_queue' = {} /\ \A e \in Dispatchers : dpc'[e] # "write"
    BY <2>1, <2>2 DEF Busy
  <2>4. \A b \in LogClients : lpc'[b] = "push" => b \in loggers' /\ sent'[b] >= 1
    BY <2>2, <1>a DEF OnTheirWay, LogTypeOK
  <2> QED
    BY <2>3, <2>4 DEF OnTheirWay
<1>6. ASSUME NEW c \in LogClients, LogAwaitForce(c) PROVE OnTheirWay'
  <2>1. /\ log_queue' = <<>> /\ UNCHANGED <<loggers, sent, dpc, popped>>
        /\ lpc' = [lpc EXCEPT ![c] = "forced"]
    BY <1>6 DEF LogAwaitForce, LogClient
  <2>2. DOMAIN log_queue' = {}
    BY <2>1
  <2>3. \A b \in LogClients : lpc'[b] = lpc[b] \/ lpc'[b] = "forced"
    BY <2>1, <1>a DEF LogTypeOK
  <2> QED
    BY <2>1, <2>2, <2>3, <1>a, <1>c DEF OnTheirWay, Waited, HandsFull
<1>7. ASSUME NEW c \in LogClients, RemoveLogger(c) PROVE OnTheirWay'
  <2>1. UNCHANGED <<log_queue, popped>>
    BY <1>7 DEF RemoveLogger
  <2>2. \A b \in LogClients : Waited(b) => Waited(b)'
    BY <1>7, <1>a DEF RemoveLogger, LogTypeOK, Waited
  <2>3. \A b \in LogClients : lpc'[b] = "push" => b \in loggers' /\ sent'[b] >= 1
    BY <1>7, <1>a, <1>d DEF RemoveLogger, LogTypeOK, OnTheirWay
  <2>4. \A e \in Dispatchers : dpc'[e] = "write" => dpc[e] = "write"
    BY <1>7, <1>a DEF RemoveLogger, LogTypeOK
  <2> QED
    BY <2>1, <2>2, <2>3, <2>4, <1>a, <1>b, <1>c DEF OnTheirWay, HandsFull
<1>8. ASSUME NEW c \in LogClients, AddLogger(c) PROVE OnTheirWay'
  <2>1. UNCHANGED <<log_queue, popped>>
    BY <1>8 DEF AddLogger
  <2>2. \A b \in LogClients : Waited(b) => Waited(b)'
    BY <1>8, <1>a DEF AddLogger, LogClient, LogTypeOK, Waited
  <2>3. \A b \in LogClients : lpc'[b] = "push" => b \in loggers' /\ sent'[b] >= 1
    BY <1>8, <1>a, <1>d DEF AddLogger, LogClient, LogTypeOK, OnTheirWay
  <2>4. \A e \in Dispatchers : dpc'[e] = "write" => dpc[e] = "write"
    BY <1>8, <1>a DEF AddLogger, LogClient, LogTypeOK
  <2> QED
    BY <2>1, <2>2, <2>3, <2>4, <1>a, <1>b, <1>c DEF OnTheirWay, HandsFull
<1>9. ASSUME NEW c \in LogClients, LogGoOn(c) PROVE OnTheirWay'
  <2>1. UNCHANGED <<log_queue, popped>>
    BY <1>9 DEF LogGoOn
  <2>2. \A b \in LogClients : Waited(b) => Waited(b)'
    BY <1>9, <1>a DEF LogGoOn, LogClient, LogTypeOK, Waited
  <2>3. \A b \in LogClients : lpc'[b] = "push" => b \in loggers' /\ sent'[b] >= 1
    BY <1>9, <1>a, <1>d DEF LogGoOn, LogClient, LogTypeOK, OnTheirWay
  <2>4. \A e \in Dispatchers : dpc'[e] = "write" => dpc[e] = "write"
    BY <1>9, <1>a DEF LogGoOn, LogClient, LogTypeOK
  <2> QED
    BY <2>1, <2>2, <2>3, <2>4, <1>a, <1>b, <1>c DEF OnTheirWay, HandsFull
<1>10. ASSUME NEW c \in LogClients, ClientDispatch(c) PROVE OnTheirWay'
  <2>1. UNCHANGED <<log_queue, popped>>
    BY <1>10 DEF ClientDispatch
  <2>2. \A b \in LogClients : Waited(b) => Waited(b)'
    BY <1>10, <1>a DEF ClientDispatch, LogClient, LogTypeOK, Waited
  <2>3. \A b \in LogClients : lpc'[b] = "push" => b \in loggers' /\ sent'[b] >= 1
    BY <1>10, <1>a, <1>d DEF ClientDispatch, LogClient, LogTypeOK, OnTheirWay
  <2>4. \A e \in Dispatchers : dpc'[e] = "write" => dpc[e] = "write"
    BY <1>10, <1>a DEF ClientDispatch, LogClient, LogTypeOK
  <2> QED
    BY <2>1, <2>2, <2>3, <2>4, <1>a, <1>b, <1>c DEF OnTheirWay, HandsFull
<1>11. ASSUME NEW d \in Dispatchers, Pop(d) PROVE OnTheirWay'
  <2>1. /\ DOMAIN log_queue' = 1 .. Len(log_queue) - 1
        /\ \A k \in 1 .. Len(log_queue) - 1 : log_queue'[k] = log_queue[k + 1]
        /\ Head(log_queue) = log_queue[1] /\ 1 \in DOMAIN log_queue
    BY <1>11, <1>a, PopFacts DEF Pop, LogTypeOK
  <2>2. /\ UNCHANGED <<loggers, sent, lpc>>
        /\ popped' = [popped EXCEPT ![d] = Head(log_queue)]
        /\ dpc' = [dpc EXCEPT ![d] = "write"]
    BY <1>11 DEF Pop, DispatchAt
  <2>3. ASSUME NEW k \in DOMAIN log_queue' PROVE Waited(log_queue[k].by)'
    <3>1. Waited(log_queue'[k].by)
      BY <2>1, <1>a, <1>b DEF OnTheirWay
    <3> QED
      BY <2>2, <3>1 DEF Waited
  <2>4. ASSUME NEW e \in Dispatchers, dpc'[e] = "write" PROVE Waited(popped[e].by)'
    <3>1. Waited(popped'[e].by)
      BY <2>1, <2>2, <2>4, <1>a DEF OnTheirWay, LogTypeOK
    <3> QED
      BY <2>2, <3>1 DEF Waited
  <2> QED
    BY <2>2, <2>3, <2>4, <1>a DEF OnTheirWay
<1>12. ASSUME NEW d \in Dispatchers, PopNothing(d) PROVE OnTheirWay'
  <2>1. /\ UNCHANGED <<log_queue, popped, loggers, sent>>
        /\ dpc' = [dpc EXCEPT ![d] = "pop"]
    BY <1>12 DEF PopNothing, DispatchAt
  <2>2. \A b \in LogClients : lpc'[b] = lpc[b] \/ lpc'[b] = "dispatched"
    BY <1>12, <1>a DEF PopNothing, LogTypeOK
  <2>3. \A b \in LogClients : Waited(b) => Waited(b)'
    BY <2>1, <2>2 DEF Waited
  <2>4. \A b \in LogClients : lpc'[b] = "push" => b \in loggers' /\ sent'[b] >= 1
    BY <2>1, <2>2, <1>a DEF OnTheirWay
  <2>5. \A e \in Dispatchers : dpc'[e] = "write" => dpc[e] = "write"
    BY <2>1, <1>a DEF LogTypeOK
  <2> QED
    BY <2>1, <2>3, <2>4, <2>5, <1>a, <1>b, <1>c DEF OnTheirWay, HandsFull
<1>13. ASSUME NEW d \in Dispatchers, Write(d) PROVE OnTheirWay'
  <2>1. UNCHANGED <<log_queue, popped>>
    BY <1>13 DEF Write
  <2>2. \A b \in LogClients : Waited(b) => Waited(b)'
    BY <1>13, <1>a DEF Write, DispatchAt, LogTypeOK, Waited
  <2>3. \A b \in LogClients : lpc'[b] = "push" => b \in loggers' /\ sent'[b] >= 1
    BY <1>13, <1>a, <1>d DEF Write, DispatchAt, LogTypeOK, OnTheirWay
  <2>4. \A e \in Dispatchers : dpc'[e] = "write" => dpc[e] = "write"
    BY <1>13, <1>a DEF Write, DispatchAt, LogTypeOK
  <2> QED
    BY <2>1, <2>2, <2>3, <2>4, <1>a, <1>b, <1>c DEF OnTheirWay, HandsFull
<1>14. ASSUME NEW d \in Dispatchers, Count(d) PROVE OnTheirWay'
  <2>1. /\ UNCHANGED <<log_queue, loggers, lpc, sent>>
        /\ popped' = [popped EXCEPT ![d] = NoMessage]
        /\ dpc' = [dpc EXCEPT ![d] = "pop"]
    BY <1>14 DEF Count, DispatchAt
  <2>2. \A e \in Dispatchers :
          dpc'[e] = "write" => dpc[e] = "write" /\ popped'[e] = popped[e]
    BY <2>1, <1>a DEF LogTypeOK
  <2> QED
    BY <2>1, <2>2, <1>a, <1>b, <1>c DEF OnTheirWay, Waited
<1>15. ASSUME UNCHANGED log_vars PROVE OnTheirWay'
  <2>1. UNCHANGED <<log_queue, popped>>
    BY <1>15 DEF log_vars
  <2>2. \A b \in LogClients : Waited(b) => Waited(b)'
    BY <1>15, <1>a DEF log_vars, LogTypeOK, Waited
  <2>3. \A b \in LogClients : lpc'[b] = "push" => b \in loggers' /\ sent'[b] >= 1
    BY <1>15, <1>a, <1>d DEF log_vars, LogTypeOK, OnTheirWay
  <2>4. \A e \in Dispatchers : dpc'[e] = "write" => dpc[e] = "write"
    BY <1>15, <1>a DEF log_vars, LogTypeOK
  <2> QED
    BY <2>1, <2>2, <2>3, <2>4, <1>a, <1>b, <1>c DEF OnTheirWay, HandsFull
<1> QED
  BY <1>1, <1>2, <1>3, <1>4, <1>5, <1>6, <1>7, <1>8, <1>9, <1>10,
     <1>11, <1>12, <1>13, <1>14, <1>15
     DEF LogStep, LogNext, LogDispatch, LogClientCall, LogClientStep

(* The counter follows every message it counts, and what was thrown away.  *)
LEMMA AccountedStep == LogInv /\ LogStep => Accounted'
<1> SUFFICES ASSUME LogInv, LogStep PROVE Accounted'
  OBVIOUS
<1>a. LogTypeOK /\ OnTheirWay /\ Accounted
  BY DEF LogInv
<1>b. /\ IsFiniteSet(Busy) /\ Cardinality(Busy) \in Nat
      /\ IsFiniteSet(Pushing) /\ Cardinality(Pushing) \in Nat
      /\ IsFiniteSet(cleared) /\ Cardinality(cleared) \in Nat
      /\ Len(log_queue) \in Nat
  BY <1>a, FiniteParts DEF Accounted
<1>1. ASSUME NEW c \in LogClients, Vlog(c) PROVE Accounted'
  <2>1. UNCHANGED <<log_queue, cleared>> /\ count' = count + 1
    BY <1>1 DEF Vlog
  <2>2. Busy' = Busy /\ Pushing' = Pushing \cup {c} /\ c \notin Pushing
    BY <1>1, <1>a DEF Vlog, LogClient, LogTypeOK, Busy, Pushing
  <2>3. Cardinality(Pushing') = Cardinality(Pushing) + 1
    BY <2>2, <1>b, FS_AddElement
  <2> QED
    BY <2>1, <2>2, <2>3, <1>a, <1>b DEF Accounted
<1>2. ASSUME NEW c \in LogClients, VlogPush(c) PROVE Accounted'
  <2>1. UNCHANGED <<count, cleared>> /\ Len(log_queue') = Len(log_queue) + 1
    BY <1>2, <1>a, MessageOf, PushFacts
       DEF VlogPush, LogClient, LogTypeOK, OnTheirWay
  <2>2. Busy' = Busy /\ Pushing' = Pushing \ {c} /\ c \in Pushing
    BY <1>2, <1>a DEF VlogPush, LogClient, LogTypeOK, Busy, Pushing
  <2>3. Cardinality(Pushing') = Cardinality(Pushing) - 1
    BY <2>2, <1>b, FS_RemoveElement
  <2> QED
    BY <2>1, <2>2, <2>3, <1>a, <1>b DEF Accounted
<1>3. ASSUME NEW c \in LogClients, VlogNotify(c) PROVE Accounted'
  <2>1. UNCHANGED <<log_queue, cleared, count>>
    BY <1>3 DEF VlogNotify
  <2>2. Busy' = Busy /\ Pushing' = Pushing
    BY <1>3, <1>a DEF VlogNotify, LogClient, LogTypeOK, Busy, Pushing
  <2> QED
    BY <2>1, <2>2, <1>a DEF Accounted
<1>4. ASSUME NEW c \in LogClients, LogAwait(c) PROVE Accounted'
  <2>1. UNCHANGED <<log_queue, cleared, count>>
    BY <1>4 DEF LogAwait
  <2>2. Busy' = Busy /\ Pushing' = Pushing
    BY <1>4, <1>a DEF LogAwait, LogClient, LogTypeOK, Busy, Pushing
  <2> QED
    BY <2>1, <2>2, <1>a DEF Accounted
<1>5. ASSUME NEW c \in LogClients, LogAwaitReturns(c) PROVE Accounted'
  <2>1. UNCHANGED <<log_queue, cleared, count>>
    BY <1>5 DEF LogAwaitReturns
  <2>2. Busy' = Busy /\ Pushing' = Pushing
    BY <1>5, <1>a DEF LogAwaitReturns, LogClient, LogTypeOK, Busy, Pushing
  <2> QED
    BY <2>1, <2>2, <1>a DEF Accounted
<1>6. ASSUME NEW c \in LogClients, LogAwaitForce(c) PROVE Accounted'
  <2> DEFINE R == {log_queue[k] : k \in DOMAIN log_queue}
  <2>1. /\ cleared' = cleared \cup R /\ log_queue' = <<>>
        /\ UNCHANGED <<count, dpc>> /\ lpc' = [lpc EXCEPT ![c] = "forced"] /\ lpc[c] = "idle"
    BY <1>6 DEF LogAwaitForce, LogClient
  <2>2. /\ \A j, k \in DOMAIN log_queue : j < k => Before(log_queue[j], log_queue[k])
        /\ \A m \in cleared, k \in DOMAIN log_queue : Before(m, log_queue[k])
    BY DEF LogInv, QueueOrdered
  <2>3. \A k \in DOMAIN log_queue : log_queue[k] \in Messages
    BY <1>a, ElementOfSeq, LenProperties DEF LogTypeOK
  <2>4. \A m \in Messages : ~Before(m, m)
    BY MessageFacts DEF Before
  <2>5. IsFiniteSet(R) /\ Cardinality(R) = Len(log_queue)
    <3>1. log_queue \in Seq(Messages)
      BY <1>a DEF LogTypeOK
    <3>2. \A j, k \in DOMAIN log_queue : j < k => log_queue[j] # log_queue[k]
      BY <2>2, <2>3, <2>4
    <3> QED
      BY <3>1, <3>2, ElementsOfQueue
  <2>6. cleared \cap R = {}
    BY <2>2, <2>3, <2>4
  <2> HIDE DEF R
  <2>7. /\ IsFiniteSet(cleared \cup R)
        /\ Cardinality(cleared \cup R) = Cardinality(cleared) + Len(log_queue)
    <3>1. Cardinality(cleared \cap R) = 0
      BY <2>6, FS_EmptySet
    <3>2. /\ IsFiniteSet(cleared \cup R)
          /\ Cardinality(cleared \cup R) =
               Cardinality(cleared) + Cardinality(R) - Cardinality(cleared \cap R)
      BY <2>5, <1>b, FS_Union, Zenon
    <3> QED
      BY <3>1, <3>2, <2>5, <1>b
  <2>8. Len(log_queue') = 0 /\ Busy' = Busy /\ Pushing' = Pushing
    BY <2>1, <1>a, EmptySeq DEF Busy, Pushing, LogTypeOK
  <2> QED
    BY <2>1, <2>7, <2>8, <1>a, <1>b DEF Accounted
<1>7. ASSUME NEW c \in LogClients, RemoveLogger(c) PROVE Accounted'
  <2>1. UNCHANGED <<log_queue, cleared, count>>
    BY <1>7 DEF RemoveLogger
  <2>2. Busy' = Busy /\ Pushing' = Pushing
    BY <1>7, <1>a DEF RemoveLogger, LogTypeOK, Busy, Pushing
  <2> QED
    BY <2>1, <2>2, <1>a DEF Accounted
<1>8. ASSUME NEW c \in LogClients, AddLogger(c) PROVE Accounted'
  <2>1. UNCHANGED <<log_queue, cleared, count>>
    BY <1>8 DEF AddLogger
  <2>2. Busy' = Busy /\ Pushing' = Pushing
    BY <1>8, <1>a DEF AddLogger, LogClient, LogTypeOK, Busy, Pushing
  <2> QED
    BY <2>1, <2>2, <1>a DEF Accounted
<1>9. ASSUME NEW c \in LogClients, LogGoOn(c) PROVE Accounted'
  <2>1. UNCHANGED <<log_queue, cleared, count>>
    BY <1>9 DEF LogGoOn
  <2>2. Busy' = Busy /\ Pushing' = Pushing
    BY <1>9, <1>a DEF LogGoOn, LogClient, LogTypeOK, Busy, Pushing
  <2> QED
    BY <2>1, <2>2, <1>a DEF Accounted
<1>10. ASSUME NEW c \in LogClients, ClientDispatch(c) PROVE Accounted'
  <2>1. UNCHANGED <<log_queue, cleared, count>>
    BY <1>10 DEF ClientDispatch
  <2>2. Busy' = Busy /\ Pushing' = Pushing
    BY <1>10, <1>a DEF ClientDispatch, LogClient, LogTypeOK, Busy, Pushing
  <2> QED
    BY <2>1, <2>2, <1>a DEF Accounted
<1>11. ASSUME NEW d \in Dispatchers, Pop(d) PROVE Accounted'
  <2>1. UNCHANGED <<count, cleared>> /\ Len(log_queue') = Len(log_queue) - 1
    BY <1>11, <1>a, PopFacts DEF Pop, LogTypeOK
  <2>2. Pushing' = Pushing /\ Busy' = Busy \cup {d} /\ d \notin Busy
    BY <1>11, <1>a DEF Pop, DispatchAt, LogTypeOK, Busy, Pushing
  <2>3. Cardinality(Busy') = Cardinality(Busy) + 1
    BY <2>2, <1>b, FS_AddElement
  <2> QED
    BY <2>1, <2>2, <2>3, <1>a, <1>b DEF Accounted
<1>12. ASSUME NEW d \in Dispatchers, PopNothing(d) PROVE Accounted'
  <2>1. /\ UNCHANGED <<log_queue, cleared, count>>
        /\ dpc' = [dpc EXCEPT ![d] = "pop"] /\ dpc[d] = "pop"
    BY <1>12 DEF PopNothing, DispatchAt
  <2>2. d # WorkerThread => d \in LogClients /\ lpc[d] = "dispatch"
    BY <1>12, LogConstants DEF PopNothing, DispatchAt, Dispatching
  <2>3. Busy' = Busy
    BY <2>1, <1>a DEF LogTypeOK, Busy
  <2>4. Pushing' = Pushing
    BY <1>12, <2>2, <1>a DEF PopNothing, LogTypeOK, Pushing
  <2> QED
    BY <2>1, <2>3, <2>4, <1>a DEF Accounted
<1>13. ASSUME NEW d \in Dispatchers, Write(d) PROVE Accounted'
  <2>1. UNCHANGED <<log_queue, cleared, count>>
    BY <1>13 DEF Write
  <2>2. Busy' = Busy /\ Pushing' = Pushing
    BY <1>13, <1>a DEF Write, DispatchAt, LogTypeOK, Busy, Pushing
  <2> QED
    BY <2>1, <2>2, <1>a DEF Accounted
<1>14. ASSUME NEW d \in Dispatchers, Count(d) PROVE Accounted'
  <2>1. UNCHANGED <<log_queue, cleared>> /\ count' = count - 1
    BY <1>14 DEF Count
  <2>2. Pushing' = Pushing /\ Busy' = Busy \ {d} /\ d \in Busy
    BY <1>14, <1>a DEF Count, DispatchAt, LogTypeOK, Busy, Pushing
  <2>3. Cardinality(Busy') = Cardinality(Busy) - 1
    BY <2>2, <1>b, FS_RemoveElement
  <2> QED
    BY <2>1, <2>2, <2>3, <1>a, <1>b DEF Accounted
<1>15. ASSUME UNCHANGED log_vars PROVE Accounted'
  <2>1. UNCHANGED <<log_queue, cleared, count>>
    BY <1>15 DEF log_vars
  <2>2. Busy' = Busy /\ Pushing' = Pushing
    BY <1>15, <1>a DEF log_vars, LogTypeOK, Busy, Pushing
  <2> QED
    BY <2>1, <2>2, <1>a DEF Accounted
<1> QED
  BY <1>1, <1>2, <1>3, <1>4, <1>5, <1>6, <1>7, <1>8, <1>9, <1>10,
     <1>11, <1>12, <1>13, <1>14, <1>15
     DEF LogStep, LogNext, LogDispatch, LogClientCall, LogClientStep

(* Whatever clients and dispatchers do, the invariant stays.               *)
LEMMA LogInvStep == LogInv /\ LogStep => LogInv'
BY LogTypeStep, QueueOrderedStep, PlacedStep, OnTheirWayStep, AccountedStep
   DEF LogInv, HandsFull

-----------------------------------------------------------------------------
(* The order of the log, when the worker alone calls dispatch().           *)

(* Nothing has been written yet, so that all of it is in order.            *)
LEMMA OrderInvInit == LogInit => OrderInv
<1> SUFFICES ASSUME LogInit PROVE OrderInv
  OBVIOUS
<1>1. DOMAIN written = {} /\ dpc[WorkerThread] = "pop"
  BY LogConstants DEF LogInit
<1>2. WorkerAlone
  BY LogConstants DEF LogInit, WorkerAlone
<1> QED
  BY <1>1, <1>2 DEF OrderInv, WrittenOrdered, LogOrder

(* No client enters dispatch().                                            *)
LEMMA WorkerAloneStep ==
  ASSUME LogTypeOK, WorkerAlone, LogNext \/ UNCHANGED log_vars PROVE WorkerAlone'
<1> SUFFICES ASSUME NEW b \in LogClients
             PROVE  lpc'[b] \notin {"dispatch", "dispatched"} /\ dpc'[b] = "pop"
  BY DEF WorkerAlone
<1> USE LogConstants DEF WorkerAlone, LogTypeOK
<1>1. ASSUME NEW c \in LogClients, LogClientCall(c) \/ LogClientStep(c)
      PROVE  lpc'[b] \notin {"dispatch", "dispatched"} /\ dpc'[b] = "pop"
  BY <1>1 DEF LogClientCall, LogClientStep, LogClient, Vlog, LogAwait, LogAwaitForce,
     RemoveLogger, AddLogger, VlogPush, VlogNotify, LogAwaitReturns, LogGoOn
<1>2. ASSUME NEW d \in Dispatchers, LogDispatch(d)
      PROVE  lpc'[b] \notin {"dispatch", "dispatched"} /\ dpc'[b] = "pop"
  <2>1. d = WorkerThread
    BY <1>2
       DEF LogDispatch, Pop, PopNothing, Write, Count, DispatchAt, Dispatching
  <2> QED
    BY <1>2, <2>1 DEF LogDispatch, Pop, PopNothing, Write, Count, DispatchAt
<1>3. CASE UNCHANGED log_vars
  BY <1>3 DEF log_vars
<1> QED
  BY <1>1, <1>2, <1>3 DEF LogNext

(* A client that is not pushing keeps what it queued; the message it is    *)
(* about to log is later than those.                                       *)
LEMMA WasQueuedKept ==
  ASSUME LogInv, LogStep, NEW m \in Messages, WasQueued(m)
  PROVE  WasQueued(m)'
<1> USE MessageFacts DEF WasQueued, Begun
<1>a. LogTypeOK
  BY DEF LogInv
<1>b. m.by \in LogClients /\ m.n \in Int /\ \A c \in LogClients : sent[c] \in Int
  BY <1>a, LogConstants DEF LogTypeOK
<1>1. ASSUME NEW c \in LogClients, Vlog(c) PROVE WasQueued(m)'
  BY <1>1, <1>a, <1>b DEF Vlog, LogClient, LogTypeOK
<1>2. ASSUME NEW c \in LogClients,
             \/ LogAwait(c) \/ LogAwaitForce(c) \/ RemoveLogger(c) \/ AddLogger(c)
             \/ VlogPush(c) \/ VlogNotify(c) \/ LogAwaitReturns(c) \/ LogGoOn(c)
             \/ ClientDispatch(c)
      PROVE  WasQueued(m)'
  <2>1. sent' = sent /\ \A b \in LogClients : lpc'[b] = "push" => lpc[b] = "push"
    BY <1>2, <1>a DEF LogAwait, LogAwaitForce, RemoveLogger, AddLogger, VlogPush,
       VlogNotify, LogAwaitReturns, LogGoOn, ClientDispatch, LogClient, LogTypeOK
  <2> QED
    BY <2>1, <1>b
<1>3. ASSUME NEW d \in Dispatchers, LogDispatch(d) PROVE WasQueued(m)'
  <2>1. sent' = sent /\ \A b \in LogClients : lpc'[b] = "push" => lpc[b] = "push"
    BY <1>3, <1>a DEF LogDispatch, Pop, PopNothing, Write, Count, LogTypeOK
  <2> QED
    BY <2>1, <1>b
<1>4. CASE UNCHANGED log_vars
  BY <1>4 DEF log_vars
<1> QED
  BY <1>1, <1>2, <1>3, <1>4 DEF LogStep, LogNext, LogClientCall, LogClientStep

(* Every step of the worker and the clients keeps the order.               *)
LEMMA WrittenOrderedStep ==
  ASSUME LogInv, OrderInv, LogNext \/ UNCHANGED log_vars PROVE WrittenOrdered'
<1> DEFINE w == WorkerThread
<1>a. /\ LogTypeOK /\ QueueOrdered /\ OnTheirWay /\ HandsFull
      /\ WorkerAlone /\ WrittenOrdered /\ w \in Dispatchers
  BY LogConstants DEF LogInv, OrderInv, HandsFull
<1>b. /\ Len(log_queue) \in Nat /\ DOMAIN log_queue = 1 .. Len(log_queue)
      /\ Len(written) \in Nat /\ DOMAIN written = 1 .. Len(written)
      /\ \A k \in DOMAIN log_queue : log_queue[k] \in Messages
      /\ \A k \in DOMAIN written : written[k] \in Messages
      /\ dpc[w] = "write" => popped[w] \in Messages
  BY <1>a, LenProperties, ElementOfSeq DEF LogTypeOK, HandsFull
<1>c. \A m \in Messages : WasQueued(m) => WasQueued(m)'
  BY WasQueuedKept DEF LogStep
<1> HIDE DEF w
<1>w. w = WorkerThread
  BY DEF w
(* Most steps leave the log, the queue and the worker's hand alone.        *)
<1>1. ASSUME UNCHANGED <<log_queue, written, popped, dpc>> PROVE WrittenOrdered'
  <2>1. \A k \in DOMAIN written : WasQueued(written[k])'
    BY <1>1, <1>a, <1>b, <1>c DEF WrittenOrdered, WasQueued, Begun
  <2>2. dpc[w] = "write" => WasQueued(popped[w])'
    BY <1>1, <1>a, <1>b, <1>c, <1>w DEF WrittenOrdered, WasQueued, Begun
  <2> QED
    BY <1>1, <2>1, <2>2, <1>a, <1>w
       DEF WrittenOrdered, LogOrder, Before, WasQueued, Begun
<1>2. ASSUME NEW c \in LogClients, VlogPush(c) PROVE WrittenOrdered'
  <2>1. PICK o \in Messages : o = Message(c) /\ o.by = c /\ o.n = sent[c] /\ lpc[c] = "push"
    BY <1>2, <1>a, MessageOf DEF VlogPush, LogClient, OnTheirWay
  <2>2. /\ DOMAIN log_queue' = 1 .. Len(log_queue) + 1
        /\ \A k \in 1 .. Len(log_queue) : log_queue'[k] = log_queue[k]
        /\ log_queue'[Len(log_queue) + 1] = o
    BY <1>2, <1>a, <2>1, PushFacts DEF VlogPush, LogTypeOK
  <2>3. UNCHANGED <<written, popped, dpc>>
    BY <1>2 DEF VlogPush
  <2>4. \A k \in DOMAIN log_queue' :
          \/ k \in DOMAIN log_queue /\ log_queue'[k] = log_queue[k]
          \/ log_queue'[k] = o
    BY <2>2, <1>b
  <2>5. \A m \in Messages : WasQueued(m) => Before(m, o)
    <3>1. \A b \in LogClients : sent[b] \in Int
      BY <1>a, LogConstants DEF LogTypeOK
    <3> QED
      BY <2>1, <3>1, MessageFacts DEF WasQueued, Begun, Before
  <2>6. \A j \in DOMAIN written, k \in DOMAIN log_queue' :
          Before(written[j], log_queue'[k])
    BY <2>4, <2>5, <1>a, <1>b DEF WrittenOrdered
  <2>7. dpc[w] = "write" => \A k \in DOMAIN log_queue' : Before(popped[w], log_queue'[k])
    BY <2>4, <2>5, <1>a, <1>b, <1>w DEF WrittenOrdered
  <2>8. \A k \in DOMAIN written : WasQueued(written[k])'
    BY <2>3, <1>a, <1>b, <1>c DEF WrittenOrdered, WasQueued, Begun
  <2>9. dpc[w] = "write" => WasQueued(popped[w])'
    BY <2>3, <1>a, <1>b, <1>c, <1>w DEF WrittenOrdered, WasQueued, Begun
  <2> QED
    BY <2>3, <2>6, <2>7, <2>8, <2>9, <1>a, <1>w
       DEF WrittenOrdered, LogOrder, Before, WasQueued, Begun
<1>3. ASSUME NEW c \in LogClients, LogAwaitForce(c) PROVE WrittenOrdered'
  <2>1. UNCHANGED <<written, popped, dpc>> /\ log_queue' = <<>>
    BY <1>3 DEF LogAwaitForce
  <2>2. DOMAIN log_queue' = {}
    BY <2>1
  <2>3. \A k \in DOMAIN written : WasQueued(written[k])'
    BY <2>1, <1>a, <1>b, <1>c DEF WrittenOrdered, WasQueued, Begun
  <2>4. dpc[w] = "write" => WasQueued(popped[w])'
    BY <2>1, <1>a, <1>b, <1>c, <1>w DEF WrittenOrdered, WasQueued, Begun
  <2> QED
    BY <2>1, <2>2, <2>3, <2>4, <1>a, <1>w
       DEF WrittenOrdered, LogOrder, Before, WasQueued, Begun
<1>4. ASSUME NEW d \in Dispatchers, LogDispatch(d) PROVE WrittenOrdered'
  <2>1. d = w
    <3>1. d = WorkerThread
      BY <1>4, <1>a, LogConstants
         DEF LogDispatch, Pop, PopNothing, Write, Count, DispatchAt, Dispatching,
             WorkerAlone
    <3> QED
      BY <3>1, <1>w
  <2>2. written' = written => \A k \in DOMAIN written' : WasQueued(written[k])'
    BY <1>a, <1>b, <1>c DEF WrittenOrdered, WasQueued, Begun
  <2>3. CASE Pop(w)
    <3>1. /\ DOMAIN log_queue' = 1 .. Len(log_queue) - 1
          /\ \A k \in 1 .. Len(log_queue) - 1 : log_queue'[k] = log_queue[k + 1]
          /\ Head(log_queue) = log_queue[1] /\ 1 \in DOMAIN log_queue
      BY <2>3, <1>a, PopFacts DEF Pop, LogTypeOK
    <3>2. written' = written /\ popped'[w] = log_queue[1]
      BY <2>3, <3>1, <1>a DEF Pop, LogTypeOK
    <3>3. \A k \in DOMAIN log_queue' :
            k + 1 \in DOMAIN log_queue /\ 1 < k + 1 /\ log_queue'[k] = log_queue[k + 1]
      BY <3>1, <1>b
    <3>4. \A j \in DOMAIN written' : Before(written'[j], popped'[w])
      BY <3>1, <3>2, <1>a DEF WrittenOrdered
    <3>5. \A k \in DOMAIN log_queue' :
            /\ Before(popped'[w], log_queue'[k])
            /\ \A j \in DOMAIN written' : Before(written'[j], log_queue'[k])
      BY <3>1, <3>2, <3>3, <1>a DEF WrittenOrdered, QueueOrdered
    <3>6. WasQueued(popped[w])'
      <4>1. log_queue[1] \in Messages /\ WasQueued(log_queue[1])
        BY <3>1, <1>a, <1>b DEF QueueOrdered
      <4> QED
        BY <4>1, <3>2, <1>c DEF WasQueued, Begun
    <3> QED
      BY <3>2, <3>4, <3>5, <3>6, <2>2, <1>a, <1>w
         DEF WrittenOrdered, LogOrder, Before, WasQueued, Begun
  <2>4. CASE \/ PopNothing(w) \/ Count(w)
             \/ Write(w) /\ UNCHANGED written
    <3>1. UNCHANGED <<log_queue, written>> /\ dpc'[w] # "write"
      BY <2>4, <1>a DEF PopNothing, Count, Write, DispatchAt, LogTypeOK
    <3> QED
      BY <3>1, <2>2, <1>a, <1>w
         DEF WrittenOrdered, LogOrder, Before, WasQueued, Begun
  <2>5. CASE Write(w) /\ written' = Append(written, popped[w])
    <3>1. /\ dpc[w] = "write" /\ popped[w] \in Messages
          /\ written' = Append(written, popped[w])
          /\ dpc'[w] = "count" /\ UNCHANGED <<log_queue, lpc, popped>>
      BY <2>5, <1>a, <1>b DEF Write, DispatchAt, LogTypeOK
    <3>2. /\ DOMAIN written' = 1 .. Len(written) + 1
          /\ \A k \in 1 .. Len(written) : written'[k] = written[k]
          /\ written'[Len(written) + 1] = popped[w]
      BY <3>1, <1>a, PushFacts DEF LogTypeOK
    <3>3. \A k \in DOMAIN written' :
            \/ k \in DOMAIN written /\ written'[k] = written[k]
            \/ k = Len(written) + 1 /\ written'[k] = popped[w]
      BY <3>2, <1>b
    <3>4. ASSUME NEW j \in DOMAIN written', NEW k \in DOMAIN written', j < k
          PROVE  Before(written'[j], written'[k])
      <4>1. j \in DOMAIN written /\ written'[j] = written[j]
        BY <3>2, <3>4, <1>b
      <4>2. CASE k \in DOMAIN written
        BY <3>2, <3>4, <4>1, <4>2, <1>a, <1>b
           DEF WrittenOrdered, LogOrder, Before
      <4>3. CASE k \notin DOMAIN written
        BY <3>1, <3>3, <4>1, <4>3, <1>a, <1>w DEF WrittenOrdered
      <4> QED
        BY <4>2, <4>3
    <3>5. \A j \in DOMAIN written', k \in DOMAIN log_queue' :
            Before(written'[j], log_queue'[k])
      BY <3>1, <3>3, <1>a, <1>w DEF WrittenOrdered
    <3>6. ASSUME NEW k \in DOMAIN written' PROVE WasQueued(written[k])'
      <4>1. PICK m \in Messages : m = written'[k] /\ WasQueued(m)
        BY <3>1, <3>3, <1>a, <1>b, <1>w DEF WrittenOrdered
      <4> QED
        BY <4>1, <1>c DEF WasQueued, Begun
    <3> QED
      BY <3>1, <3>4, <3>5, <3>6, <1>w DEF WrittenOrdered, LogOrder, Before
  <2> QED
    BY <1>4, <2>1, <2>3, <2>4, <2>5 DEF LogDispatch, Write
<1>5. ASSUME NEW c \in LogClients,
             \/ Vlog(c) \/ LogAwait(c) \/ RemoveLogger(c) \/ AddLogger(c)
             \/ VlogNotify(c) \/ LogAwaitReturns(c) \/ LogGoOn(c)
      PROVE  WrittenOrdered'
  <2>1. UNCHANGED <<log_queue, written, popped, dpc>>
    BY <1>5 DEF Vlog, LogAwait, RemoveLogger, AddLogger, VlogNotify, LogAwaitReturns,
       LogGoOn
  <2> QED
    BY <2>1, <1>1
<1>6. CASE UNCHANGED log_vars
  <2>1. UNCHANGED <<log_queue, written, popped, dpc>>
    BY <1>6 DEF log_vars
  <2> QED
    BY <2>1, <1>1
<1> QED
  BY <1>2, <1>3, <1>4, <1>5, <1>6 DEF LogNext, LogClientCall, LogClientStep

(* Every step keeps the order of what has been written.                    *)
LEMMA OrderInvStep ==
  LogInv /\ OrderInv /\ (LogNext \/ UNCHANGED log_vars) => OrderInv'
BY WorkerAloneStep, WrittenOrderedStep DEF OrderInv, LogInv

-----------------------------------------------------------------------------
(* Both on one worker.                                                     *)

-----------------------------------------------------------------------------
(* A step of the log as the scheduler sees it: the worker's dispatch() of  *)
(* the log returns, a client notifies the worker, or nothing happens.      *)
LEMMA LogNextIsSurrounding ==
  ASSUME LogNext, UNCHANGED shedule_vars PROVE SheduleStep
<1>1. ASSUME NEW d \in Dispatchers, PopNothing(d) PROVE SheduleStep
  <2>1. CASE d = WorkerThread
    <3>1. OtherReturns
      BY <1>1, <2>1 DEF PopNothing, DispatchAt, Dispatching, Turn, OtherReturns
    <3> QED
      BY <3>1 DEF SheduleStep, Surroundings
  <2>2. CASE d # WorkerThread
    BY <1>1, <2>2 DEF PopNothing, SheduleStep, svars
  <2> QED
    BY <2>1, <2>2
<1>2. ASSUME NEW d \in Dispatchers, Pop(d) \/ Write(d) \/ Count(d) PROVE SheduleStep
  BY <1>2 DEF Pop, Write, Count, SheduleStep, svars
<1>3. ASSUME NEW c \in LogClients, VlogNotify(c) PROVE SheduleStep
  <2>1. OtherNotify
    BY <1>3 DEF VlogNotify, OtherNotify
  <2> QED
    BY <2>1 DEF SheduleStep, Surroundings
<1>4. ASSUME NEW c \in LogClients,
             \/ LogClientCall(c) \/ VlogPush(c) \/ LogAwaitReturns(c) \/ LogGoOn(c)
      PROVE  SheduleStep
  BY <1>4 DEF LogClientCall, Vlog, LogAwait, LogAwaitForce, RemoveLogger, AddLogger,
     VlogPush, LogAwaitReturns, LogGoOn, SheduleStep, svars
<1> QED
  BY <1>1, <1>2, <1>3, <1>4 DEF LogNext, LogDispatch, LogClientStep

(* Every step of the composition is a step of the scheduler's and of the   *)
(* log's; a client enters dispatch() only by ClientDispatch.               *)
LEMMA StepsOfEach ==
  ASSUME [ClientDispatchNext]_all_vars
  PROVE  /\ SheduleStep
         /\ LogStep
         /\ [ServicesNext]_all_vars => LogNext \/ UNCHANGED log_vars
<1>1. ASSUME SheduleNext, UNCHANGED log_vars
      PROVE  SheduleStep /\ UNCHANGED log_vars
  BY <1>1 DEF SheduleStep
<1>2. ASSUME LogNext, UNCHANGED shedule_vars PROVE SheduleStep /\ LogNext
  BY <1>2, LogNextIsSurrounding
<1>3. ASSUME DispatcherStep \/ SpuriousWake \/ Tick \/ Shutdown,
             UNCHANGED <<shedule_vars, log_vars>>
      PROVE  SheduleStep /\ UNCHANGED log_vars
  BY <1>3 DEF SheduleStep, Surroundings, DispatcherStep
<1>4. ASSUME UNCHANGED all_vars PROVE SheduleStep /\ UNCHANGED log_vars
  BY <1>4 DEF all_vars, SheduleStep, svars
<1>5. ASSUME NEW c \in LogClients, ClientDispatch(c), UNCHANGED shedule_vars
      PROVE  SheduleStep /\ LogStep
  BY <1>5 DEF ClientDispatch, SheduleStep, LogStep, svars
<1>6. [ServicesNext]_all_vars => SheduleStep /\ (LogNext \/ UNCHANGED log_vars)
  BY <1>1, <1>2, <1>3, <1>4 DEF ServicesNext
<1> QED
  BY <1>5, <1>6 DEF ClientDispatchNext, LogStep

-----------------------------------------------------------------------------
(* The invariants.                                                         *)

(* The scheduler's and the log's invariant hold in every reachable state,  *)
(* whoever calls dispatch() of the log.                                    *)
THEOREM ClientDispatchInvariance == ClientDispatchSpec => [](SheduleInv /\ LogInv)
<1>1. ServicesInit => SheduleInv /\ LogInv
  BY SheduleInvInit, LogInvInit DEF ServicesInit
<1>2. SheduleInv /\ LogInv /\ [ClientDispatchNext]_all_vars => (SheduleInv /\ LogInv)'
  BY StepsOfEach, SheduleInvStep, LogInvStep
<1> QED
  BY <1>1, <1>2, PTL DEF ClientDispatchSpec

(* With the worker alone in dispatch() the order of the log is kept too.   *)
THEOREM ServicesInvariance == ServicesSpec => [](SheduleInv /\ LogInv /\ OrderInv)
<1>1. ServicesInit => SheduleInv /\ LogInv /\ OrderInv
  BY SheduleInvInit, LogInvInit, OrderInvInit DEF ServicesInit
<1>2. SheduleInv /\ LogInv /\ OrderInv /\ [ServicesNext]_all_vars
      => (SheduleInv /\ LogInv /\ OrderInv)'
  <2>1. [ServicesNext]_all_vars => [ClientDispatchNext]_all_vars
    BY DEF ClientDispatchNext
  <2> QED
    BY <2>1, StepsOfEach, SheduleInvStep, LogInvStep, OrderInvStep
<1> QED
  BY <1>1, <1>2, PTL DEF ServicesSpec

(* What await(false) promises when it returns, and what the counter is.    *)
LEMMA LogInvImplies == LogInv => AwaitFlushes /\ CountAccounting
<1> SUFFICES ASSUME LogInv PROVE AwaitFlushes /\ CountAccounting
  OBVIOUS
<1>1. AwaitFlushes
  <2> SUFFICES ASSUME NEW c \in LogClients, lpc[c] = "awaited",
                      NEW m \in Messages, m.by = c, m.n <= sent[c]
               PROVE  IsWritten(m) \/ m \in cleared \cup dangling
    BY DEF AwaitFlushes, Logged
  <2>1. Somewhere(m)
    BY DEF LogInv, Placed, Begun
  <2>2. ~Waited(m.by) /\ ~ToBeQueued(m)
    BY DEF Waited, ToBeQueued
  <2>3. ~IsQueued(m) /\ \A d \in Dispatchers : ~InHand(d, m)
    BY <2>2 DEF LogInv, OnTheirWay, IsQueued, InHand
  <2> QED
    BY <2>1, <2>2, <2>3 DEF Somewhere
<1>2. CountAccounting
  BY DEF LogInv, Accounted, Busy, Pushing, CountAccounting
<1> QED
  BY <1>1, <1>2

(* A client that is back from await(false) has no message in the queue or  *)
(* in a dispatcher's hand, so that freeing its logger leaves none behind.  *)
LEMMA AwaitedRemoval ==
  ASSUME LogInv, LogStep, NEW c \in loggers \ loggers', lpc[c] = "awaited"
  PROVE  dangling' = dangling
<1>1. LogTypeOK /\ OnTheirWay /\ c \in LogClients
  BY DEF LogInv, LogTypeOK
<1>2. ToWrite(c) = {}
  BY <1>1 DEF ToWrite, OnTheirWay, Waited
<1>3. PICK b \in LogClients : RemoveLogger(b)
  BY DEF LogStep, LogNext, LogDispatch, LogClientCall, LogClientStep, Vlog, LogAwait,
     LogAwaitForce, AddLogger, VlogPush, VlogNotify, LogAwaitReturns, LogGoOn,
     ClientDispatch, Pop, PopNothing, Write, Count, log_vars
<1>4. b = c
  BY <1>3 DEF RemoveLogger
<1> QED
  BY <1>2, <1>3, <1>4 DEF RemoveLogger

-----------------------------------------------------------------------------
(* The theorems.                                                           *)

(* Every variable of the worker and both services keeps its type; the      *)
(* counter of pending messages never falls below 0.                        *)
THEOREM ServicesTypeCorrect == ServicesSpec => []ServicesTypeOK
<1>1. SheduleInv /\ LogInv => ServicesTypeOK
  BY DEF SheduleInv, TypeOK, LogInv, ServicesTypeOK
<1> QED
  BY <1>1, ServicesInvariance, PTL

(* The scheduler keeps its promises beside the log: no task is lost or run *)
(* twice, the worker oversleeps only for a notify() that was missed, and   *)
(* await() returns with the immediate tasks run.                           *)
THEOREM SheduleBesideLog ==
  ClientDispatchSpec => [](TaskConserved /\ OversleepsOnlyMissed /\ AwaitRunsImmediate)
BY SheduleInvImplies, ClientDispatchInvariance, PTL

(* The log's dispatch() and notify() do not make the worker sleep past a   *)
(* task of the scheduler whose notify() reached it.                        *)
THEOREM ServicesOversleepOnlyMissed == ServicesSpec => []OversleepsOnlyMissed
BY SheduleInvImplies, ServicesInvariance, PTL

(* remove_logger() right after await(false) leaves no queued or popped     *)
(* message without its logger, whoever calls dispatch() and whatever other *)
(* clients remove meanwhile.                                               *)
THEOREM AwaitedRemovalSafeHolds ==
  /\ ServicesSpec => AwaitedRemovalSafe
  /\ ClientDispatchSpec => AwaitedRemovalSafe
<1>1. LogInv /\ [ClientDispatchNext]_all_vars
      => [\A c \in loggers \ loggers' : lpc[c] = "awaited" => dangling' = dangling]_lvars
  BY StepsOfEach, AwaitedRemoval
<1>2. [ServicesNext]_all_vars => [ClientDispatchNext]_all_vars
  BY DEF ClientDispatchNext
<1>3. ServicesSpec => AwaitedRemovalSafe
  BY <1>1, <1>2, ServicesInvariance, PTL DEF ServicesSpec, AwaitedRemovalSafe
<1>4. ClientDispatchSpec => AwaitedRemovalSafe
  BY <1>1, ClientDispatchInvariance, PTL DEF ClientDispatchSpec, AwaitedRemovalSafe
<1> QED
  BY <1>3, <1>4

(* await(false) returns with every message of its caller written, thrown   *)
(* away or bereft of its logger, whoever calls dispatch().                 *)
THEOREM AwaitFlushesHolds ==
  /\ ServicesSpec => []AwaitFlushes
  /\ ClientDispatchSpec => []AwaitFlushes
<1>1. ServicesSpec => []AwaitFlushes
  BY LogInvImplies, ServicesInvariance, PTL
<1>2. ClientDispatchSpec => []AwaitFlushes
  BY LogInvImplies, ClientDispatchInvariance, PTL
<1> QED
  BY <1>1, <1>2

(* The counter of await(false) is what is on its way plus all that         *)
(* await(true) has thrown away, whoever calls dispatch().                  *)
THEOREM CountAccountingHolds ==
  /\ ServicesSpec => []CountAccounting
  /\ ClientDispatchSpec => []CountAccounting
<1>1. ServicesSpec => []CountAccounting
  BY LogInvImplies, ServicesInvariance, PTL
<1>2. ClientDispatchSpec => []CountAccounting
  BY LogInvImplies, ClientDispatchInvariance, PTL
<1> QED
  BY <1>1, <1>2

(* As long as the worker alone calls dispatch(), the messages of a client  *)
(* are written in the order it logged them.                                *)
THEOREM LogOrderHolds == ServicesSpec => []LogOrder
<1>1. OrderInv => LogOrder
  BY DEF OrderInv, WrittenOrdered
<1> QED
  BY <1>1, ServicesInvariance, PTL
=============================================================================
