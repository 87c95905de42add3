---------------------------- MODULE JatcEntrypoint ----------------------------
(***************************************************************************)
(* One entrypoint of acul::fs::jatc::cache: a journal file that request    *)
(* tasks append to, clients read and filter, and a deregistration closes   *)
(* and frees.  op_count says how many operations are pending; whoever      *)
(* wants the file at rest waits for 0 on the condition variable cv.        *)
(*                                                                         *)
(* entrypoint::lock is a shared_mutex with one entry, taken and given back *)
(* in one step: SharedMutex shows that its calls behave so when they are   *)
(* balanced, and UnlockCas there that an unlock() nobody paired with a     *)
(* lock() clears the entry all the same.  After the exchange that gives it *)
(* back, unlock() still wakes the sleepers and tests the bound of its      *)
(* loop: a request is then at "leave".  Those accesses of a read() or of a *)
(* filter need no step, as they belong to a call of a client that has not  *)
(* returned, and a deregistration starts when all of those have.           *)
(*                                                                         *)
(* The file is a sequence of cells, the header and then one cell for every *)
(* entry, uncompressed.  A client reads the entry of a request it knows to *)
(* be answered.  filter_index_entries() reads and closes the file without  *)
(* the lock, one operation of the stream at a time.                        *)
(***************************************************************************)
EXTENDS Integers, Sequences, FiniteSets, SequencesExt

CONSTANTS Requests,         (* the requests; each runs in a task of its own *)
          Readers,          (* the threads that call read()                 *)
          MaxFilters        (* bound: calls of filter_index_entries()       *)

ASSUME JatcAssumption ==
  /\ IsFiniteSet(Requests) /\ IsFiniteSet(Readers)
  /\ MaxFilters \in Nat

LOCK_W_MASK == -2147483647 - 1

Header == "header"

NoEntry == 0                (* no offset: the header is there               *)

VARIABLES lock,             (* entrypoint::lock, the value of its entry     *)
          op_count,         (* entrypoint::op_count                         *)
          file,             (* the cells of the journal                     *)
          open,             (* fd.is_open()                                 *)
          app,              (* it was opened with std::ios::app             *)
          cursor,           (* the position of fd                           *)
          index,            (* index_entry::offset of each request          *)
          rpc,              (* where each request's task is                 *)
          state,            (* response::state of each request              *)
          offset,           (* data_offset of each request's task           *)
          tpc,              (* where each reader is                         *)
          target,           (* the request whose entry a reader reads       *)
          result,           (* what its last read() gave                    *)
          fpc,              (* where filter_index_entries() is              *)
          entries,          (* its index_entries                            *)
          buffers,          (* the cells it has read of them, in that order *)
          filters,          (* how often it was called                      *)
          dereg             (* where deregister_entrypoint() is             *)

request_vars == <<rpc, state, offset>>
reader_vars == <<tpc, target, result>>
filter_vars == <<fpc, entries, buffers, filters>>
fd_vars == <<file, open, app, cursor>>

jvars == <<lock, op_count, fd_vars, index, request_vars, reader_vars, filter_vars, dereg>>

JatcTypeOK ==
  /\ lock \in Int
  /\ op_count \in Nat
  /\ file \in Seq(Requests \cup {Header})
  /\ open \in BOOLEAN /\ app \in BOOLEAN
  /\ cursor \in Nat
  /\ index \in [Requests -> Nat]
  /\ rpc \in [Requests -> {"new", "callback", "lock", "seek", "write", "account",
                           "answer", "notify", "unlock", "leave", "done"}]
  /\ state \in [Requests -> {"unknown", "success", "error"}]
  /\ offset \in [Requests -> Nat]
  /\ tpc \in [Readers -> {"idle", "lock", "test", "asleep", "seek", "read", "unlock"}]
  /\ target \in [Readers -> Requests \cup {NoEntry}]
  /\ result \in [Readers -> {"none", "data", "wrong", "failed"}]
  /\ fpc \in {"idle", "read_lock", "test", "asleep", "release", "stream", "seek", "read",
              "count", "write_lock", "rewrite", "account", "notify", "unlock"}
  /\ entries \in Seq(Requests)
  /\ buffers \in Seq([of : Requests, data : Requests \cup {Header}])
  /\ filters \in 0 .. MaxFilters
  /\ dereg \in {"idle", "lock", "test", "asleep", "close", "unlock", "free", "freed"}

(* register_entrypoint()                                                   *)
JatcInit ==
  /\ lock = 0 /\ op_count = 0
  /\ file = <<>> /\ open = FALSE /\ app = FALSE /\ cursor = 0
  /\ index = [r \in Requests |-> NoEntry]
  /\ rpc = [r \in Requests |-> "new"]
  /\ state = [r \in Requests |-> "unknown"]
  /\ offset = [r \in Requests |-> 0]
  /\ tpc = [t \in Readers |-> "idle"]
  /\ target = [t \in Readers |-> NoEntry]
  /\ result = [t \in Readers |-> "none"]
  /\ fpc = "idle" /\ entries = <<>> /\ buffers = <<>> /\ filters = 0
  /\ dereg = "idle"

-----------------------------------------------------------------------------
(* The mutex, the condition variable and the stream.                       *)

LockExclusive == lock = 0 /\ lock' = LOCK_W_MASK

UnlockExclusive == lock' = 0

AddReader == lock >= 0 /\ lock' = lock + 1

RemoveReader == lock' = lock - 1

(* cv.notify_all(): the waiters go for the lock again.                     *)
NotifyReaders == tpc' = [t \in Readers |-> IF tpc[t] = "asleep" THEN "lock" ELSE tpc[t]]

NotifyDereg == dereg' = IF dereg = "asleep" THEN "lock" ELSE dereg

NotifyFilter == fpc' = IF fpc = "asleep" THEN "read_lock" ELSE fpc

(* get_file_stream(): the stream is open, in append mode if it was not so  *)
(* before, and the file has its header from the first time on (pos is 0    *)
(* until then).                                                            *)
Opened == IF file = <<>> THEN <<Header>> ELSE file

GetFileStream == open' = TRUE /\ app' = (open => app) /\ file' = Opened

RequestAt(r, from, to) == rpc[r] = from /\ rpc' = [rpc EXCEPT ![r] = to]

ReaderAt(t, from, to) == tpc[t] = from /\ tpc' = [tpc EXCEPT ![t] = to]

FilterAt(from, to) == fpc = from /\ fpc' = to

DeregAt(from, to) == dereg = from /\ dereg' = to

-----------------------------------------------------------------------------
(* add_request() and write_to_entrypoint(), its task.                      *)

AddRequest(r) ==
  /\ dereg = "idle"
  /\ RequestAt(r, "new", "callback")
  /\ op_count' = op_count + 1
  /\ UNCHANGED <<lock, fd_vars, index, state, offset, reader_vars, filter_vars, dereg>>

(* The callback fills the stream.                                          *)
WriteCallback(r) ==
  /\ RequestAt(r, "callback", "lock")
  /\ UNCHANGED <<lock, op_count, fd_vars, index, state, offset, reader_vars, filter_vars, dereg>>

(* No callback, or fs::compress() fails: goto on_error without the lock.   *)
RequestFails(r) ==
  /\ RequestAt(r, "callback", "account")
  /\ state' = [state EXCEPT ![r] = "error"]
  /\ UNCHANGED <<lock, op_count, fd_vars, index, offset, reader_vars, filter_vars, dereg>>

(* Mutant: lock_shared() in place of lock().                               *)
RequestLockShared(r) ==
  /\ RequestAt(r, "lock", "seek")
  /\ AddReader
  /\ UNCHANGED <<op_count, fd_vars, index, state, offset, reader_vars, filter_vars, dereg>>

RequestLock(r) ==
  /\ RequestAt(r, "lock", "seek")
  /\ LockExclusive
  /\ UNCHANGED <<op_count, fd_vars, index, state, offset, reader_vars, filter_vars, dereg>>

(* seekp(0, end), tellp()                                                  *)
WriteSeek(r) ==
  /\ RequestAt(r, "seek", "write")
  /\ GetFileStream
  /\ cursor' = Len(Opened)
  /\ offset' = [offset EXCEPT ![r] = Len(Opened)]
  /\ UNCHANGED <<lock, op_count, index, state, reader_vars, filter_vars, dereg>>

(* In append mode write() goes to the end of the file, else to where the   *)
(* stream is.  It fails if the stream was closed meanwhile.                *)
WriteData(r) ==
  /\ RequestAt(r, "write", "account")
  /\ open
  /\ IF app \/ cursor >= Len(file)
     THEN file' = Append(file, r) /\ cursor' = Len(file) + 1
     ELSE file' = [file EXCEPT ![cursor + 1] = r] /\ cursor' = cursor + 1
  /\ index' = [index EXCEPT ![r] = offset[r]]
  /\ state' = [state EXCEPT ![r] = "success"]
  /\ UNCHANGED <<lock, op_count, open, app, offset, reader_vars, filter_vars, dereg>>

(* The file cannot be opened, or the write fails.                          *)
WriteFails(r) ==
  /\ \/ RequestAt(r, "seek", "account")
     \/ RequestAt(r, "write", "account")
  /\ state' = [state EXCEPT ![r] = "error"]
  /\ UNCHANGED <<lock, op_count, fd_vars, index, offset, reader_vars, filter_vars, dereg>>

(* Mutant: --op_count only when the entry was written.                     *)
AccountSuccess(r) ==
  /\ RequestAt(r, "account", "answer")
  /\ op_count' = IF state[r] = "success" THEN op_count - 1 ELSE op_count
  /\ UNCHANGED <<lock, fd_vars, index, state, offset, reader_vars, filter_vars, dereg>>

(* Mutant: a failed request is taken off op_count twice.                   *)
AccountTwice(r) ==
  /\ RequestAt(r, "account", "answer")
  /\ op_count' = IF state[r] = "error" THEN op_count - 2 ELSE op_count - 1
  /\ UNCHANGED <<lock, fd_vars, index, state, offset, reader_vars, filter_vars, dereg>>

(* --op_count ...                                                          *)
Account(r) ==
  /\ RequestAt(r, "account", "answer")
  /\ op_count' = op_count - 1
  /\ UNCHANGED <<lock, fd_vars, index, state, offset, reader_vars, filter_vars, dereg>>

(* ... ready_promise.set_value() ...                                       *)
Answer(r) ==
  /\ RequestAt(r, "answer", "notify")
  /\ UNCHANGED <<lock, op_count, fd_vars, index, state, offset, reader_vars, filter_vars, dereg>>

(* Mutant: only readers are notified.                                      *)
RequestNotifyReaders(r) ==
  /\ RequestAt(r, "notify", "unlock")
  /\ NotifyReaders
  /\ UNCHANGED <<lock, op_count, fd_vars, index, state, offset, target, result, filter_vars, dereg>>

(* ... cv.notify_all() ...                                                 *)
RequestNotify(r) ==
  /\ RequestAt(r, "notify", "unlock")
  /\ NotifyReaders /\ NotifyFilter /\ NotifyDereg
  /\ UNCHANGED <<lock, op_count, fd_vars, index, state, offset, target, result,
                 entries, buffers, filters>>

(* ... lock.unlock(), whatever led here: it gives the lock back ...        *)
RequestUnlock(r) ==
  /\ RequestAt(r, "unlock", "leave")
  /\ UnlockExclusive
  /\ UNCHANGED <<op_count, fd_vars, index, state, offset, reader_vars, filter_vars, dereg>>

(* ... and is done with the mutex after the futex_wake() and the test of   *)
(* its loop.  Should the entrypoint be freed by then, what they do is      *)
(* undefined; a task that goes on ends here.                               *)
RequestLeave(r) ==
  /\ RequestAt(r, "leave", "done")
  /\ UNCHANGED <<lock, op_count, fd_vars, index, state, offset, reader_vars, filter_vars, dereg>>

Request(r) ==
  \/ WriteCallback(r) \/ RequestLock(r)
  \/ WriteSeek(r) \/ WriteData(r) \/ WriteFails(r)
  \/ Account(r) \/ Answer(r) \/ RequestNotify(r) \/ RequestUnlock(r)
  \/ RequestLeave(r)

-----------------------------------------------------------------------------
(* read()                                                                  *)

Answered(r) == rpc[r] \in {"notify", "unlock", "leave", "done"}

HasEntry(r) == state[r] = "success" /\ Answered(r) /\ index[r] # NoEntry

ReadBegin(t, r) ==
  /\ dereg = "idle"
  /\ HasEntry(r)
  /\ ReaderAt(t, "idle", "lock")
  /\ target' = [target EXCEPT ![t] = r]
  /\ result' = [result EXCEPT ![t] = "none"]
  /\ UNCHANGED <<lock, op_count, fd_vars, index, request_vars, filter_vars, dereg>>

ReadLock(t) ==
  /\ ReaderAt(t, "lock", "test")
  /\ AddReader
  /\ UNCHANGED <<op_count, fd_vars, index, request_vars, target, result, filter_vars, dereg>>

(* cv.wait(): the reader gives the lock up and sleeps, in one step for a   *)
(* notifier, while operations are pending.                                 *)
ReadTest(t) ==
  /\ \/ op_count = 0 /\ ReaderAt(t, "test", "seek") /\ UNCHANGED lock
     \/ op_count # 0 /\ ReaderAt(t, "test", "asleep") /\ RemoveReader
  /\ UNCHANGED <<op_count, fd_vars, index, request_vars, target, result, filter_vars, dereg>>

ReadSeek(t) ==
  /\ ReaderAt(t, "seek", "read")
  /\ GetFileStream
  /\ cursor' = index[target[t]]
  /\ UNCHANGED <<lock, op_count, index, request_vars, target, result, filter_vars, dereg>>

(* read() and the checksum: COMPRESS_ERROR or READ_ERROR ("wrong") unless  *)
(* the cell is the entry's.                                                *)
ReadData(t) ==
  /\ ReaderAt(t, "read", "unlock")
  /\ open
  /\ cursor' = cursor + 1
  /\ result' = [result EXCEPT ![t] =
       IF cursor < Len(file) /\ file[cursor + 1] = target[t] THEN "data" ELSE "wrong"]
  /\ UNCHANGED <<lock, op_count, file, open, app, index, request_vars, target, filter_vars, dereg>>

(* The stream cannot be opened, sought or read.                            *)
ReadFails(t) ==
  /\ \/ ReaderAt(t, "seek", "unlock")
     \/ ReaderAt(t, "read", "unlock")
  /\ result' = [result EXCEPT ![t] = "failed"]
  /\ UNCHANGED <<lock, op_count, fd_vars, index, request_vars, target, filter_vars, dereg>>

ReadUnlock(t) ==
  /\ ReaderAt(t, "unlock", "idle")
  /\ RemoveReader
  /\ UNCHANGED <<op_count, fd_vars, index, request_vars, target, result, filter_vars, dereg>>

Read(t) ==
  \/ ReadLock(t) \/ ReadTest(t) \/ ReadSeek(t)
  \/ ReadData(t) \/ ReadFails(t) \/ ReadUnlock(t)

-----------------------------------------------------------------------------
(* filter_index_entries(), for the entries of kept in that order.  The     *)
(* client gives the other entries up, and so reads none of them.           *)

FilterBegin(kept) ==
  /\ dereg = "idle" /\ FilterAt("idle", "read_lock")
  /\ filters < MaxFilters /\ filters' = filters + 1
  /\ \A k \in DOMAIN kept : HasEntry(kept[k])
  /\ \A t \in Readers : tpc[t] # "idle" => \E k \in DOMAIN kept : kept[k] = target[t]
  /\ entries' = kept
  /\ index' = [r \in Requests |-> IF \E k \in DOMAIN kept : kept[k] = r
                                  THEN index[r] ELSE NoEntry]
  /\ UNCHANGED <<lock, op_count, fd_vars, request_vars, reader_vars, buffers, dereg>>

FilterReadLock ==
  /\ FilterAt("read_lock", "test")
  /\ AddReader
  /\ UNCHANGED <<op_count, fd_vars, index, request_vars, reader_vars, entries, buffers, filters, dereg>>

(* cv.wait()                                                               *)
FilterTest ==
  /\ \/ op_count = 0 /\ FilterAt("test", "release") /\ UNCHANGED lock
     \/ op_count # 0 /\ FilterAt("test", "asleep") /\ RemoveReader
  /\ UNCHANGED <<op_count, fd_vars, index, request_vars, reader_vars, entries, buffers, filters, dereg>>

(* The block ends, and with it read_lock.                                  *)
FilterRelease ==
  /\ FilterAt("release", "stream")
  /\ RemoveReader
  /\ UNCHANGED <<op_count, fd_vars, index, request_vars, reader_vars, entries, buffers, filters, dereg>>

(* get_file_stream()                                                       *)
FilterStream ==
  /\ FilterAt("stream", "seek")
  /\ GetFileStream
  /\ cursor' = IF open THEN cursor ELSE 0
  /\ UNCHANGED <<lock, op_count, index, request_vars, reader_vars, entries, buffers, filters, dereg>>

(* seekg() to the next entry ...                                           *)
FilterSeek ==
  /\ open /\ Len(buffers) < Len(entries)
  /\ FilterAt("seek", "read")
  /\ cursor' = index[entries[Len(buffers) + 1]]
  /\ UNCHANGED <<lock, op_count, file, open, app, index, request_vars, reader_vars,
                 entries, buffers, filters, dereg>>

(* ... and read().                                                         *)
FilterRead ==
  /\ open /\ cursor < Len(file)
  /\ FilterAt("read", "seek")
  /\ cursor' = cursor + 1
  /\ buffers' = Append(buffers, [of |-> entries[Len(buffers) + 1], data |-> file[cursor + 1]])
  /\ UNCHANGED <<lock, op_count, file, open, app, index, request_vars, reader_vars,
                 entries, filters, dereg>>

(* The stream cannot be opened, or seekg() and read() leave it bad: the    *)
(* call returns an error.                                                  *)
FilterFails ==
  /\ FilterAt("stream", "idle") \/ FilterAt("read", "idle")
  /\ entries' = <<>> /\ buffers' = <<>>
  /\ UNCHANGED <<lock, op_count, fd_vars, index, request_vars, reader_vars, filters, dereg>>

FilterClose ==
  /\ Len(buffers) = Len(entries)
  /\ FilterAt("seek", "count")
  /\ open' = FALSE
  /\ UNCHANGED <<lock, op_count, file, app, cursor, index, request_vars, reader_vars,
                 entries, buffers, filters, dereg>>

FilterCount ==
  /\ FilterAt("count", "write_lock")
  /\ op_count' = op_count + 1
  /\ UNCHANGED <<lock, fd_vars, index, request_vars, reader_vars, entries, buffers, filters, dereg>>

FilterLock ==
  /\ FilterAt("write_lock", "rewrite")
  /\ LockExclusive
  /\ UNCHANGED <<op_count, fd_vars, index, request_vars, reader_vars, entries, buffers, filters, dereg>>

(* Mutant: the new offsets do not count the header.                        *)
FilterRewriteHeader ==
  /\ FilterAt("rewrite", "account")
  /\ open' = ~open /\ app' = FALSE
  /\ IF open
     THEN UNCHANGED <<file, cursor, index>>
     ELSE /\ file' = <<Header>> \o [k \in DOMAIN buffers |-> buffers[k].data]
          /\ cursor' = Len(buffers) + 1
          /\ index' = [r \in Requests |->
               IF \E k \in DOMAIN buffers : buffers[k].of = r
               THEN (CHOOSE k \in DOMAIN buffers : buffers[k].of = r) - 1
               ELSE index[r]]
  /\ UNCHANGED <<lock, op_count, request_vars, reader_vars, entries, buffers, filters, dereg>>

(* rewrite_file().  Somebody may have opened the stream again since: its   *)
(* open() then fails, write_header() closes the stream, and the file stays *)
(* as it is.  The result is ignored.                                       *)
FilterRewrite ==
  /\ FilterAt("rewrite", "account")
  /\ open' = ~open /\ app' = FALSE
  /\ IF open
     THEN UNCHANGED <<file, cursor, index>>
     ELSE /\ file' = <<Header>> \o [k \in DOMAIN buffers |-> buffers[k].data]
          /\ cursor' = Len(buffers) + 1
          /\ index' = [r \in Requests |->
               IF \E k \in DOMAIN buffers : buffers[k].of = r
               THEN CHOOSE k \in DOMAIN buffers : buffers[k].of = r
               ELSE index[r]]
  /\ UNCHANGED <<lock, op_count, request_vars, reader_vars, entries, buffers, filters, dereg>>

FilterAccount ==
  /\ FilterAt("account", "notify")
  /\ op_count' = op_count - 1
  /\ UNCHANGED <<lock, fd_vars, index, request_vars, reader_vars, entries, buffers, filters, dereg>>

FilterNotify ==
  /\ FilterAt("notify", "unlock")
  /\ NotifyReaders /\ NotifyDereg
  /\ UNCHANGED <<lock, op_count, fd_vars, index, request_vars, target, result,
                 entries, buffers, filters>>

FilterUnlock ==
  /\ FilterAt("unlock", "idle")
  /\ UnlockExclusive
  /\ entries' = <<>> /\ buffers' = <<>>
  /\ UNCHANGED <<op_count, fd_vars, index, request_vars, reader_vars, filters, dereg>>

Filter ==
  \/ FilterReadLock \/ FilterTest \/ FilterRelease
  \/ FilterStream \/ FilterSeek \/ FilterRead \/ FilterFails \/ FilterClose
  \/ FilterCount \/ FilterLock \/ FilterRewrite
  \/ FilterAccount \/ FilterNotify \/ FilterUnlock

-----------------------------------------------------------------------------
(* deregister_entrypoint(), by a client whose own calls have returned, and *)
(* its task.  Requests may still be pending.                               *)

Deregister ==
  /\ \A t \in Readers : tpc[t] = "idle"
  /\ fpc = "idle"
  /\ DeregAt("idle", "lock")
  /\ UNCHANGED <<lock, op_count, fd_vars, index, request_vars, reader_vars, filter_vars>>

DeregLock ==
  /\ DeregAt("lock", "test")
  /\ LockExclusive
  /\ UNCHANGED <<op_count, fd_vars, index, request_vars, reader_vars, filter_vars>>

(* Mutant: the task does not wait for the pending operations.              *)
DeregNoWait ==
  /\ DeregAt("test", "close")
  /\ UNCHANGED <<lock, op_count, fd_vars, index, request_vars, reader_vars, filter_vars>>

DeregTest ==
  /\ \/ op_count = 0 /\ DeregAt("test", "close") /\ UNCHANGED lock
     \/ op_count # 0 /\ DeregAt("test", "asleep") /\ UnlockExclusive
  /\ UNCHANGED <<op_count, fd_vars, index, request_vars, reader_vars, filter_vars>>

DeregClose ==
  /\ DeregAt("close", "unlock")
  /\ open' = FALSE
  /\ UNCHANGED <<lock, op_count, file, app, cursor, index, request_vars, reader_vars, filter_vars>>

DeregUnlock ==
  /\ DeregAt("unlock", "free")
  /\ UnlockExclusive
  /\ UNCHANGED <<op_count, fd_vars, index, request_vars, reader_vars, filter_vars>>

(* release(entrypoint), and the file is removed.                           *)
DeregFree ==
  /\ DeregAt("free", "freed")
  /\ file' = <<>>
  /\ UNCHANGED <<lock, op_count, open, app, cursor, index, request_vars, reader_vars, filter_vars>>

Deregistration ==
  DeregLock \/ DeregTest \/ DeregClose \/ DeregUnlock \/ DeregFree

-----------------------------------------------------------------------------
(* cv.wait() may return for no reason.                                     *)
SpuriousWake ==
  /\ \/ \E t \in Readers : ReaderAt(t, "asleep", "lock") /\ UNCHANGED <<dereg, fpc>>
     \/ DeregAt("asleep", "lock") /\ UNCHANGED <<tpc, fpc>>
     \/ FilterAt("asleep", "read_lock") /\ UNCHANGED <<tpc, dereg>>
  /\ UNCHANGED <<lock, op_count, fd_vars, index, request_vars, target, result,
                 entries, buffers, filters>>

Orders == UNION {[1 .. n -> Requests] : n \in 0 .. Cardinality(Requests)}

Terminated == dereg = "freed" /\ UNCHANGED jvars

JatcNext ==
  \/ \E r \in Requests : AddRequest(r) \/ Request(r)
  \/ \E t \in Readers : Read(t) \/ \E r \in Requests : ReadBegin(t, r)
  \/ \E kept \in {s \in Orders : IsInjective(s)} : FilterBegin(kept)
  \/ Filter
  \/ Deregister \/ Deregistration
  \/ SpuriousWake
  \/ Terminated

(* Every request gets as far as the lock.                                  *)
JatcSpec == JatcInit /\ [][JatcNext]_jvars

Transferring == \E t \in Readers : tpc[t] \in {"seek", "read"}

(* No request is under way that has not been answered.                     *)
Settled == \A r \in Requests : rpc[r] = "new" \/ Answered(r)

FilterReading == fpc \in {"release", "stream", "seek", "read"}

(* filter_index_entries() needs the file for itself: its client adds no    *)
(* request, and nobody reads, from the call until the stream is closed.    *)
FilterAlone ==
  fpc \in {"read_lock", "test", "asleep"} \/ FilterReading => Settled /\ ~Transferring

(* Its client has no request pending until the filter has waited for 0,    *)
(* and nobody reads while the filter does; requests may be added then.     *)
FilterStartsAlone ==
  /\ fpc \in {"read_lock", "test", "asleep"} => Settled
  /\ FilterReading => ~Transferring

JatcFilterSpec == JatcInit /\ [][JatcNext /\ FilterStartsAlone']_jvars

(* Requests may fail before the lock.                                      *)
JatcFailingSpec ==
  JatcInit /\ [][JatcNext \/ \E r \in Requests : RequestFails(r)]_jvars

(* Tasks and calls run, and spurious wake-ups do not go on for ever.  A    *)
(* thread that finds the lock free again and again gets it in the end: the *)
(* others take it a bounded number of times.                               *)
JatcFairness ==
  /\ \A r \in Requests : SF_jvars(Request(r))
  /\ \A t \in Readers : SF_jvars(Read(t))
  /\ SF_jvars(Filter) /\ SF_jvars(Deregistration)
  /\ <>[][~SpuriousWake]_jvars

JatcFairSpec == JatcSpec /\ JatcFairness
-----------------------------------------------------------------------------
(* Properties *)

InRequest(r) == rpc[r] \notin {"new", "done"}

(* The tasks and calls that use the file as if they were alone.            *)
Writing ==
  {r \in Requests : rpc[r] \in {"seek", "write"}}
  \cup (IF fpc = "rewrite" THEN {"filter"} ELSE {})
  \cup (IF dereg = "close" THEN {"deregister"} ELSE {})

(* The journal is written by one task at a time and never while it is      *)
(* read: the lock, which the error path of a request releases too, still   *)
(* protects the stream.                                                    *)
WritersExclude ==
  /\ Cardinality(Writing) <= 1
  /\ Writing # {} => ~Transferring

(* op_count is the number of requests added and not accounted for, plus    *)
(* the rewrite under way: it is 0 only when the file is at rest, and comes *)
(* back to 0 whatever way a request ends.                                  *)
OpCountAccounting ==
  op_count = Cardinality({r \in Requests :
                 rpc[r] \in {"callback", "lock", "seek", "write", "account"}})
             + (IF fpc \in {"write_lock", "rewrite", "account"} THEN 1 ELSE 0)

(* An entry a request was answered with, and that no filter has given up,  *)
(* reads back as what the request wrote, wherever rewrites have moved it.  *)
ReadsBack == \A t \in Readers : result[t] # "wrong"

(* It does as long as every filter has the file for itself until it has    *)
(* closed it.                                                              *)
AloneReadsBack == []FilterAlone => []ReadsBack

(* Nobody touches an entrypoint that was freed.                            *)
NoUseAfterFree ==
  dereg = "freed" =>
    /\ \A r \in Requests : ~InRequest(r)
    /\ \A t \in Readers : tpc[t] = "idle"
    /\ fpc = "idle"

(* An entrypoint is freed after every request has given its lock back and  *)
(* every call has returned, and after that no request begins: all that can *)
(* still touch it is the end of an unlock().                               *)
FreedAfterUnlock ==
  dereg = "freed" =>
    /\ \A r \in Requests : rpc[r] \in {"new", "leave", "done"}
    /\ \A t \in Readers : tpc[t] = "idle"
    /\ fpc = "idle"

(* No waiter is forgotten: every request gives its lock back, and every    *)
(* read(), filter and deregistration comes to its end.                     *)
JatcCallsReturn ==
  /\ \A r \in Requests : InRequest(r) ~> rpc[r] \in {"leave", "done"}
  /\ \A t \in Readers : (tpc[t] # "idle") ~> (tpc[t] = "idle")
  /\ (fpc # "idle") ~> (fpc = "idle")
  /\ (dereg = "lock") ~> (dereg = "freed")
=============================================================================
