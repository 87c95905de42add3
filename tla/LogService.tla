------------------------------ MODULE LogService ------------------------------
(***************************************************************************)
(* acul::log::log_service on a service_dispatch: clients format messages   *)
(* and queue them, whoever calls dispatch() writes them to their loggers,  *)
(* await(false) spins until the counter of pending messages is 0,          *)
(* await(true) throws the queued ones away, remove_logger() frees a logger *)
(* at any time, whatever is still to be written to it.                     *)
(*                                                                         *)
(* Every client logs to a logger of its own.  A message that the level     *)
(* filters out changes nothing and is left out, and so is the layout of    *)
(* the text.  dispatch() is called by the worker and, with ClientDispatch, *)
(* which is not part of LogNext, by clients too, as tests/log.cpp does.    *)
(***************************************************************************)
EXTENDS ServiceDispatch, FiniteSets

CONSTANTS LogClients,       (* the threads that log                         *)
          WorkerThread,     (* the worker thread of service_dispatch        *)
          MaxMessages       (* bound: messages a client logs                *)

ASSUME LogAssumption ==
  /\ IsFiniteSet(LogClients)
  /\ WorkerThread \notin LogClients
  /\ MaxMessages \in Nat

Dispatchers == {WorkerThread} \cup LogClients

Messages == [by : LogClients, n : 1 .. MaxMessages]

NoMessage == <<>>

VARIABLES log_queue,        (* _queue of log_service                        *)
          count,            (* _count                                       *)
          loggers,          (* the loggers that exist, by their client      *)
          lpc,              (* where each client is                         *)
          sent,             (* messages each client has begun to log        *)
          dpc,              (* where each dispatcher is in dispatch()       *)
          popped,           (* the pair each dispatcher has popped          *)
          written,          (* the messages written, in order               *)
          cleared,          (* the messages await(true) threw away          *)
          dangling          (* those whose logger was freed before them     *)

log_vars == <<log_queue, count, loggers, lpc, sent, dpc, popped, written, cleared,
              dangling>>

lvars == <<dispatch_vars, log_vars>>

LogTypeOK ==
  /\ log_queue \in Seq(Messages)
  /\ count \in Nat
  /\ loggers \subseteq LogClients
  /\ lpc \in [LogClients -> {"idle", "push", "notify", "await", "awaited", "forced",
                             "dispatch", "dispatched"}]
  /\ sent \in [LogClients -> 0 .. MaxMessages]
  /\ dpc \in [Dispatchers -> {"pop", "write", "count"}]
  /\ popped \in [Dispatchers -> Messages \cup {NoMessage}]
  /\ written \in Seq(Messages)
  /\ cleared \subseteq Messages
  /\ dangling \subseteq Messages

(* Every client has added its logger.                                      *)
LogInit ==
  /\ log_queue = <<>>
  /\ count = 0
  /\ loggers = LogClients
  /\ lpc = [c \in LogClients |-> "idle"]
  /\ sent = [c \in LogClients |-> 0]
  /\ dpc = [d \in Dispatchers |-> "pop"]
  /\ popped = [d \in Dispatchers |-> NoMessage]
  /\ written = <<>>
  /\ cleared = {}
  /\ dangling = {}

LogClient(c, from, to) == running /\ lpc[c] = from /\ lpc' = [lpc EXCEPT ![c] = to]

Message(c) == [by |-> c, n |-> sent[c]]

-----------------------------------------------------------------------------
(* log() and vlog(): the message is formatted and counted ...              *)
Vlog(c) ==
  /\ LogClient(c, "idle", "push")
  /\ c \in loggers
  /\ sent[c] < MaxMessages
  /\ sent' = [sent EXCEPT ![c] = @ + 1]
  /\ count' = count + 1
  /\ UNCHANGED <<dispatch_vars, log_queue, loggers, dpc, popped, written,
                 cleared, dangling>>

(* ... queued, and the worker notified.                                    *)
VlogPush(c) ==
  /\ LogClient(c, "push", "notify")
  /\ log_queue' = Append(log_queue, Message(c))
  /\ UNCHANGED <<dispatch_vars, count, loggers, sent, dpc, popped, written,
                 cleared, dangling>>

VlogNotify(c) ==
  /\ LogClient(c, "notify", "idle")
  /\ Notify
  /\ UNCHANGED <<now, running, log_queue, count, loggers, sent, dpc, popped,
                 written, cleared, dangling>>

-----------------------------------------------------------------------------
(* dispatch(), by the worker or by a client.                               *)

Dispatching(d) ==
  IF d = WorkerThread THEN Turn("log") ELSE running /\ lpc[d] = "dispatch"

DispatchAt(d, from, to) ==
  Dispatching(d) /\ dpc[d] = from /\ dpc' = [dpc EXCEPT ![d] = to]

(* Mutant: the last message is popped, not the first.                      *)
PopLast(d) ==
  /\ log_queue # <<>>
  /\ DispatchAt(d, "pop", "write")
  /\ popped' = [popped EXCEPT ![d] = log_queue[Len(log_queue)]]
  /\ log_queue' = SubSeq(log_queue, 1, Len(log_queue) - 1)
  /\ UNCHANGED <<dispatch_vars, count, loggers, lpc, sent, written, cleared,
                 dangling>>

(* Mutant: a message is no longer pending as soon as it is popped.         *)
PopUncounts(d) ==
  /\ log_queue # <<>>
  /\ DispatchAt(d, "pop", "write")
  /\ popped' = [popped EXCEPT ![d] = Head(log_queue)]
  /\ log_queue' = Tail(log_queue)
  /\ count' = count - 1
  /\ UNCHANGED <<dispatch_vars, loggers, lpc, sent, written, cleared, dangling>>

Pop(d) ==
  /\ log_queue # <<>>
  /\ DispatchAt(d, "pop", "write")
  /\ popped' = [popped EXCEPT ![d] = Head(log_queue)]
  /\ log_queue' = Tail(log_queue)
  /\ UNCHANGED <<dispatch_vars, count, loggers, lpc, sent, written, cleared,
                 dangling>>

(* try_pop() fails: dispatch() returns time_point::max().                  *)
PopNothing(d) ==
  /\ log_queue = <<>>
  /\ DispatchAt(d, "pop", "pop")
  /\ IF d = WorkerThread
     THEN DispatchReturns(Never) /\ UNCHANGED lpc
     ELSE lpc' = [lpc EXCEPT ![d] = "dispatched"] /\ UNCHANGED dispatch_vars
  /\ UNCHANGED <<log_queue, count, loggers, sent, popped, written, cleared,
                 dangling>>

(* logger_base::write() of the message's logger.  If that was freed the    *)
(* call is undefined: the message is written or is not.                    *)
Write(d) ==
  /\ DispatchAt(d, "write", "count")
  /\ \/ written' = Append(written, popped[d])
     \/ popped[d] \in dangling /\ UNCHANGED written
  /\ UNCHANGED <<dispatch_vars, log_queue, count, loggers, lpc, sent, popped,
                 cleared, dangling>>

Count(d) ==
  /\ DispatchAt(d, "count", "pop")
  /\ count' = count - 1
  /\ popped' = [popped EXCEPT ![d] = NoMessage]
  /\ UNCHANGED <<dispatch_vars, log_queue, loggers, lpc, sent, written,
                 cleared, dangling>>

-----------------------------------------------------------------------------
(* The other calls of a client.                                            *)

(* A client calls dispatch() in the worker's stead.                        *)
ClientDispatch(c) ==
  /\ LogClient(c, "idle", "dispatch")
  /\ UNCHANGED <<dispatch_vars, log_queue, count, loggers, sent, dpc, popped,
                 written, cleared, dangling>>

(* await(false)                                                            *)
LogAwait(c) ==
  /\ LogClient(c, "idle", "await")
  /\ UNCHANGED <<dispatch_vars, log_queue, count, loggers, sent, dpc, popped,
                 written, cleared, dangling>>

LogAwaitReturns(c) ==
  /\ count <= 0
  /\ LogClient(c, "await", "awaited")
  /\ UNCHANGED <<dispatch_vars, log_queue, count, loggers, sent, dpc, popped,
                 written, cleared, dangling>>

(* Mutant: await(true) resets the counter with the queue.                  *)
LogAwaitForceResets(c) ==
  /\ LogClient(c, "idle", "forced")
  /\ cleared' = cleared \cup {log_queue[k] : k \in DOMAIN log_queue}
  /\ log_queue' = <<>>
  /\ count' = 0
  /\ UNCHANGED <<dispatch_vars, loggers, sent, dpc, popped, written, dangling>>

(* await(true): the queue is cleared, the counter is not.                  *)
LogAwaitForce(c) ==
  /\ LogClient(c, "idle", "forced")
  /\ cleared' = cleared \cup {log_queue[k] : k \in DOMAIN log_queue}
  /\ log_queue' = <<>>
  /\ UNCHANGED <<dispatch_vars, count, loggers, sent, dpc, popped, written,
                 dangling>>

(* The messages still to be written to the client's logger.                *)
ToWrite(c) ==
  {m \in Messages :
     /\ m.by = c
     /\ \/ \E k \in DOMAIN log_queue : log_queue[k] = m
        \/ \E d \in Dispatchers : dpc[d] = "write" /\ popped[d] = m}

(* remove_logger(), between any two calls of the logger's client: after an *)
(* await() or a dispatch(), or after neither.                              *)
RemoveLogger(c) ==
  /\ running /\ lpc[c] \in {"idle", "awaited", "forced", "dispatched"}
  /\ c \in loggers
  /\ lpc' = [lpc EXCEPT ![c] = "idle"]
  /\ loggers' = loggers \ {c}
  /\ dangling' = dangling \cup ToWrite(c)
  /\ UNCHANGED <<dispatch_vars, log_queue, count, sent, dpc, popped, written,
                 cleared>>

AddLogger(c) ==
  /\ LogClient(c, "idle", "idle")
  /\ c \notin loggers
  /\ loggers' = loggers \cup {c}
  /\ UNCHANGED <<dispatch_vars, log_queue, count, sent, dpc, popped, written,
                 cleared, dangling>>

(* The caller of await() or dispatch() goes on.                            *)
LogGoOn(c) ==
  /\ \E place \in {"awaited", "forced", "dispatched"} : LogClient(c, place, "idle")
  /\ UNCHANGED <<dispatch_vars, log_queue, count, loggers, sent, dpc, popped,
                 written, cleared, dangling>>

LogDispatch(d) == Pop(d) \/ PopNothing(d) \/ Write(d) \/ Count(d)

LogClientCall(c) ==
  \/ Vlog(c) \/ LogAwait(c) \/ LogAwaitForce(c)
  \/ RemoveLogger(c) \/ AddLogger(c)

LogClientStep(c) ==
  VlogPush(c) \/ VlogNotify(c) \/ LogAwaitReturns(c) \/ LogGoOn(c)

LogNext ==
  \/ \E d \in Dispatchers : LogDispatch(d)
  \/ \E c \in LogClients : LogClientCall(c) \/ LogClientStep(c)

LogClientsIdle == \A c \in LogClients : lpc[c] = "idle"

-----------------------------------------------------------------------------
(* Properties                                                              *)

(* The messages a client has logged, up to its last complete call.         *)
Logged(c) == {m \in Messages : m.by = c /\ m.n <= sent[c]}

IsWritten(m) == \E k \in DOMAIN written : written[k] = m

(* No logger is used after it was freed: the message that dispatch() is    *)
(* about to write belongs to a logger that remove_logger() has not freed   *)
(* since.  Nothing in remove_logger() sees to it.                          *)
NoDanglingLogger ==
  \A d \in Dispatchers : dpc[d] = "write" => popped[d] \notin dangling

(* A logger removed right after a returned await(false) leaves nothing     *)
(* behind: no message for it is in the queue or in a dispatcher's hand.    *)
AwaitedRemovalSafe ==
  [][\A c \in loggers \ loggers' : lpc[c] = "awaited" => dangling' = dangling]_lvars

(* await(false) returns only when everything its caller logged has been    *)
(* written, thrown away by an await(true) or bereft of its logger.         *)
AwaitFlushes ==
  \A c \in LogClients : lpc[c] = "awaited" =>
    \A m \in Logged(c) : IsWritten(m) \/ m \in cleared \cup dangling

(* The messages of one client are written in the order it logged them.     *)
LogOrder ==
  \A j, k \in DOMAIN written :
    j < k /\ written[j].by = written[k].by => written[j].n < written[k].n

(* The counter is what is still to be written (queued, popped, or counted  *)
(* and not yet queued) plus everything await(true) has ever thrown away,   *)
(* for await(true) does not take the messages it drops off the counter.    *)
CountAccounting ==
  count = Len(log_queue)
          + Cardinality({d \in Dispatchers : dpc[d] # "pop"})
          + Cardinality({c \in LogClients : lpc[c] = "push"})
          + Cardinality(cleared)
=============================================================================
