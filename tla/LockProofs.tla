------------------------------ MODULE LockProofs ------------------------------
(***************************************************************************)
(* Theorems about SharedMutex, for every number of threads and entries,    *)
(* both builds, and with or without spurious failures of the weak          *)
(* compare-and-swap; and, from "JATC" on, about JatcEntrypoint, whose      *)
(* requests and readers share such a lock, for every set of them and every *)
(* number of filters.                                                      *)
(*                                                                         *)
(* The mutex: the control state says what a thread holds (Control), so     *)
(* ownership of the entries can be read off the control state; the entry   *)
(* values agree with ownership (Accounting); mutual exclusion and the      *)
(* refinement of RWLock follow.                                            *)
(*                                                                         *)
(* The entrypoint: op_count follows the places of the tasks (CountInv),    *)
(* whatever happens to the lock.  Where no request jumps to its error path *)
(* before it has the lock, the value of the lock says who holds it         *)
(* (LockFits), so a deregistration that finds op_count 0 finds every       *)
(* request past its unlock (DeregFits).  Where a filter has the file for   *)
(* itself until it closes the stream (FilterAlone), it gathers the cells   *)
(* of all entries that are kept (GatherFits), and what was written stays   *)
(* where the index says (FileFits); with one reader the stream is where    *)
(* that reader has put it (CursorFits).                                    *)
(***************************************************************************)
EXTENDS SharedMutex, JatcEntrypoint, FiniteSetTheorems, SequenceTheorems, TLAPS

-----------------------------------------------------------------------------
(* Facts about the constants and the finite types, so that the proofs can  *)
(* leave the definitions of Entries, Locations and Modes folded.           *)

(* What the assumption on the constants says of each of them.              *)
LEMMA Constants ==
  /\ NumEntries \in Nat \ {0}
  /\ MAX_INT \in Nat \ {0}
  /\ MaxOps \in Nat
  /\ Linux \in BOOLEAN
  /\ SpuriousFailure \in BOOLEAN
  /\ IsFiniteSet(Threads)
BY ConstantsAssumption

(* The loop variables and the hint stay inside the array of entries.       *)
LEMMA EntryFacts ==
  /\ 0 \in Entries
  /\ Entries \subseteq Nat
  /\ \A e \in Entries : e < NumEntries
  /\ \A e \in Entries : e + 1 < NumEntries => e + 1 \in Entries
  /\ \A e \in Entries : (e + 1) % NumEntries \in Entries
  /\ NoIdx \notin Entries
BY Constants DEF Entries, NoIdx

(* Every label an action assigns to pc is a location.                      *)
LEMMA LocationFacts ==
  /\ {"idle", "ls_load", "ls_wait", "ls_sleep", "ls_cas"} \subseteq Locations
  /\ {"us_load", "us_cas", "us_wake"} \subseteq Locations
  /\ {"l_load", "l_wait", "l_sleep", "l_cas"} \subseteq Locations
  /\ {"u_load", "u_cas", "u_wait", "u_sleep", "u_wake"} \subseteq Locations
  /\ {"none", "shared", "exclusive"} = Modes
BY DEF Locations, Modes

(* A counter of an entry stays an integer when it is changed.              *)
LEMMA IncDecInt ==
  /\ W_MASK \in Int
  /\ W_MASK < 0
  /\ \A v \in Int : Inc(v) \in Int /\ Dec(v) \in Int
BY Constants DEF Inc, Dec, W_MASK

-----------------------------------------------------------------------------
(* The control state says what a thread holds.                             *)

(* A thread in the shared half of the mutex has its entry, and a thread    *)
(* that is a reader keeps the one it was counted in.                       *)
HasIndex(t) ==
  \/ pc[t] \in {"ls_load", "ls_wait", "ls_sleep", "ls_cas",
                "us_load", "us_cas", "us_wake"}
  \/ mode[t] = "shared"
  => idx[t] \in Entries

(* Inside a call the mode is the one the call starts or ends with; unlock  *)
(* gives the lock up with the first entry.                                 *)
ModeFitsPc(t) ==
  /\ pc[t] \in {"us_load", "us_cas"} => mode[t] = "shared"
  /\ pc[t] \in {"ls_load", "ls_wait", "ls_sleep", "ls_cas", "us_wake",
                "l_load", "l_wait", "l_sleep", "l_cas", "u_wake"} =>
       mode[t] = "none"
  /\ pc[t] \in {"u_load", "u_cas", "u_wait", "u_sleep"} =>
       mode[t] = IF i[t] = 0 THEN "exclusive" ELSE "none"

(* What the thread knows of the value it loaded.                           *)
LoadedFits(t) ==
  /\ pc[t] \in {"ls_wait", "ls_sleep"} => HasWriter(cur[t])
  /\ pc[t] = "ls_cas" => ~HasWriter(cur[t])
  /\ pc[t] \in {"l_wait", "l_sleep"} => cur[t] # 0
  /\ pc[t] = "l_cas" => cur[t] = 0

ControlOf(t) == HasIndex(t) /\ ModeFitsPc(t) /\ LoadedFits(t)

Control == \A t \in Threads : ControlOf(t)

(* Types and control together are inductive: the type of what a reader     *)
(* loads depends on its having an entry.                                   *)
LEMMA TypeStep == TypeOK /\ Control /\ [Next]_vars => TypeOK'
<1> SUFFICES ASSUME TypeOK, Control, [Next]_vars PROVE TypeOK'
  OBVIOUS
<1> USE LocationFacts, EntryFacts DEF TypeOK, Goto
<1>1. ASSUME NEW t \in Threads, LockShared(t) PROVE TypeOK'
  BY <1>1, Constants DEF LockShared
<1>2. ASSUME NEW t \in Threads, Lock(t) PROVE TypeOK'
  BY <1>2, Constants DEF Lock
<1>3. ASSUME NEW t \in Threads, UnlockShared(t) PROVE TypeOK'
  BY <1>3 DEF UnlockShared, CallUnlockShared
<1>4. ASSUME NEW t \in Threads, Unlock(t) PROVE TypeOK'
  BY <1>4 DEF Unlock, CallUnlock
<1>5. ASSUME NEW t \in Threads, Step(t) PROVE TypeOK'
  <2>1. CASE LockSharedLoad(t)
    BY <2>1 DEF LockSharedLoad, Control, ControlOf, HasIndex
  <2>2. CASE LockSharedCas(t)
    <3>1. Inc(cur[t]) \in Int
      BY IncDecInt
    <3> QED
      BY <2>2, <3>1 DEF LockSharedCas
  <2>3. CASE LockSharedCasFails(t)
    BY <2>3 DEF LockSharedCasFails
  <2>4. CASE UnlockSharedLoad(t)
    BY <2>4 DEF UnlockSharedLoad, Control, ControlOf, HasIndex
  <2>5. CASE UnlockSharedCas(t)
    <3>1. Dec(cur[t]) \in Int
      BY IncDecInt
    <3> QED
      BY <2>5, <3>1 DEF UnlockSharedCas
  <2>6. CASE UnlockSharedCasFails(t)
    BY <2>6 DEF UnlockSharedCasFails
  <2>7. CASE UnlockSharedWake(t)
    BY <2>7 DEF UnlockSharedWake, WakeAll, Sleepers, Asleep, Resume
  <2>8. CASE LockLoad(t)
    BY <2>8 DEF LockLoad
  <2>9. CASE LockCas(t)
    <3>1. val' \in [Entries -> Int]
      BY <2>9, IncDecInt DEF LockCas
    <3>a. i[t] \in Entries /\ (i[t] + 1 < NumEntries => i[t] + 1 \in Entries)
      BY Zenon
    <3>2. i' \in [Threads -> Entries]
      BY <2>9, <3>a DEF LockCas
    <3> QED
      BY <2>9, <3>1, <3>2 DEF LockCas
  <2>10. CASE LockCasFails(t)
    BY <2>10 DEF LockCasFails
  <2>11. CASE UnlockLoad(t)
    BY <2>11 DEF UnlockLoad
  <2>12. CASE UnlockCas(t)
    BY <2>12 DEF UnlockCas
  <2>13. CASE UnlockCasFails(t)
    BY <2>13 DEF UnlockCasFails
  <2>14. CASE UnlockWake(t)
    BY <2>14 DEF UnlockWake, WakeAll, Sleepers, Asleep, Resume
  <2>15. CASE FutexWait(t)
    BY <2>15 DEF FutexWait, InKernel, Resume
  <2> QED
    BY <1>5, <2>1, <2>2, <2>3, <2>4, <2>5, <2>6, <2>7, <2>8, <2>9,
       <2>10, <2>11, <2>12, <2>13, <2>14, <2>15 DEF Step
<1>6. ASSUME NEW t \in Threads, Interrupt(t) PROVE TypeOK'
  BY <1>6 DEF Interrupt, Asleep
<1>7. CASE UNCHANGED vars
  BY <1>7 DEF vars
<1> QED
  BY <1>1, <1>2, <1>3, <1>4, <1>5, <1>6, <1>7 DEF Next, Release, Joined

(* Every step keeps the control state in line with what the threads hold.  *)
LEMMA ControlStep == TypeOK /\ Control /\ [Next]_vars => Control'
<1> SUFFICES ASSUME TypeOK, Control, [Next]_vars, NEW u \in Threads
             PROVE  ControlOf(u)'
  BY DEF Control
<1>a. ControlOf(u)
  BY DEF Control
<1> USE <1>a, EntryFacts
        DEF TypeOK, Goto, ControlOf, HasIndex, ModeFitsPc, LoadedFits, HasWriter
<1>1. ASSUME NEW t \in Threads, LockShared(t) PROVE ControlOf(u)'
  BY <1>1 DEF LockShared
<1>2. ASSUME NEW t \in Threads, Lock(t) PROVE ControlOf(u)'
  BY <1>2 DEF Lock
<1>3. ASSUME NEW t \in Threads, UnlockShared(t) PROVE ControlOf(u)'
  BY <1>3 DEF UnlockShared, CallUnlockShared
<1>4. ASSUME NEW t \in Threads, Unlock(t) PROVE ControlOf(u)'
  BY <1>4 DEF Unlock, CallUnlock
<1>5. ASSUME NEW t \in Threads, Step(t) PROVE ControlOf(u)'
  <2>1. CASE LockSharedLoad(t)
    BY <2>1 DEF LockSharedLoad
  <2>2. CASE LockSharedCas(t)
    BY <2>2 DEF LockSharedCas
  <2>3. CASE LockSharedCasFails(t)
    BY <2>3 DEF LockSharedCasFails
  <2>4. CASE UnlockSharedLoad(t)
    BY <2>4 DEF UnlockSharedLoad
  <2>5. CASE UnlockSharedCas(t)
    BY <2>5 DEF UnlockSharedCas
  <2>6. CASE UnlockSharedCasFails(t)
    BY <2>6 DEF UnlockSharedCasFails
  <2>7. CASE UnlockSharedWake(t)
    BY <2>7 DEF UnlockSharedWake, WakeAll, Sleepers, Asleep, Resume
  <2>8. CASE LockLoad(t)
    BY <2>8 DEF LockLoad
  <2>9. CASE LockCas(t)
    BY <2>9 DEF LockCas
  <2>10. CASE LockCasFails(t)
    BY <2>10 DEF LockCasFails
  <2>11. CASE UnlockLoad(t)
    BY <2>11 DEF UnlockLoad
  <2>12. CASE UnlockCas(t)
    BY <2>12 DEF UnlockCas
  <2>13. CASE UnlockCasFails(t)
    BY <2>13 DEF UnlockCasFails
  <2>14. CASE UnlockWake(t)
    BY <2>14 DEF UnlockWake, WakeAll, Sleepers, Asleep, Resume
  <2>15. CASE FutexWait(t)
    BY <2>15 DEF FutexWait, InKernel, Resume
  <2> QED
    BY <1>5, <2>1, <2>2, <2>3, <2>4, <2>5, <2>6, <2>7, <2>8, <2>9,
       <2>10, <2>11, <2>12, <2>13, <2>14, <2>15 DEF Step
<1>6. ASSUME NEW t \in Threads, Interrupt(t) PROVE ControlOf(u)'
  BY <1>6 DEF Interrupt, Asleep
<1>7. CASE UNCHANGED vars
  BY <1>7 DEF vars
<1> QED
  BY <1>1, <1>2, <1>3, <1>4, <1>5, <1>6, <1>7 DEF Next, Release, Joined

-----------------------------------------------------------------------------
(* The entries agree with the threads.                                     *)

(* A counter cannot overflow: there are fewer threads than MAX_INT.        *)
LEMMA ReadersBound ==
  ASSUME NEW e
  PROVE  /\ IsFiniteSet(ReadersOf(e))
         /\ Cardinality(ReadersOf(e)) \in Nat
         /\ Cardinality(ReadersOf(e)) < MAX_INT
<1>1. ReadersOf(e) \subseteq Threads
  BY DEF ReadersOf
<1>2. IsFiniteSet(Threads) /\ Cardinality(Threads) < MAX_INT /\ MAX_INT \in Nat
  BY ConstantsAssumption
<1>3. IsFiniteSet(ReadersOf(e)) /\ Cardinality(ReadersOf(e)) <= Cardinality(Threads)
  BY <1>1, <1>2, FS_Subset
<1>4. Cardinality(ReadersOf(e)) \in Nat /\ Cardinality(Threads) \in Nat
  BY <1>2, <1>3, FS_CardinalityType
<1> QED
  BY <1>2, <1>3, <1>4

(* Counting a reader in, or out, of an entry that no writer has.           *)
LEMMA CountOne ==
  ASSUME NEW S, IsFiniteSet(S), NEW t, Cardinality(S) < MAX_INT
  PROVE  /\ t \notin S => Cardinality(S \cup {t}) = Inc(Cardinality(S))
         /\ t \in S => Cardinality(S \ {t}) = Dec(Cardinality(S))
<1>1. Cardinality(S) \in Nat
  BY FS_CardinalityType
<1>2. t \notin S => Cardinality(S \cup {t}) = Cardinality(S) + 1
  BY FS_AddElement
<1>3. t \in S => Cardinality(S \ {t}) = Cardinality(S) - 1
  BY FS_RemoveElement
<1> QED
  BY <1>1, <1>2, <1>3, Constants DEF Inc, Dec, W_MASK

(* Moving the loop variable on by one adds just the entry it left.         *)
LEMMA NextIndex ==
  ASSUME NEW e \in Nat, NEW f \in Nat, e # f
  PROVE  e < f + 1 <=> e < f
OBVIOUS

(* The entries that no step of ownership, counting or value touches keep   *)
(* their accounts: the part of EntryAccounting about one entry.            *)
EntryAccount(e) ==
  IF \E t \in Threads : Owns(t, e)
  THEN /\ val[e] = W_MASK
       /\ ReadersOf(e) = {}
       /\ \A t, u \in Threads : Owns(t, e) /\ Owns(u, e) => t = u
  ELSE val[e] = Cardinality(ReadersOf(e))

(* An entry whose value, readers and owners stay is accounted for still.   *)
LEMMA AccountKept ==
  ASSUME NEW e, EntryAccount(e), val'[e] = val[e], ReadersOf(e)' = ReadersOf(e),
         \A t \in Threads : Owns(t, e)' <=> Owns(t, e)
  PROVE  EntryAccount(e)'
BY DEF EntryAccount

(* An entry whose value is not W_MASK has no owner; without one its value  *)
(* is the number of its readers.                                           *)
LEMMA FreeEntry ==
  ASSUME NEW e \in Entries, EntryAccount(e), val[e] # W_MASK
  PROVE  /\ \A t \in Threads : ~Owns(t, e)
         /\ val[e] = Cardinality(ReadersOf(e))
BY DEF EntryAccount

(* Every step keeps the accounts.                                          *)
LEMMA AccountStep ==
  TypeOK /\ Control /\ EntryAccounting /\ [Next]_vars => EntryAccounting'
<1> SUFFICES ASSUME TypeOK, Control, EntryAccounting, [Next]_vars,
                    NEW e \in Entries
             PROVE  EntryAccount(e)'
  BY DEF EntryAccounting, EntryAccount
<1>a. \A f \in Entries : EntryAccount(f)
  BY DEF EntryAccounting, EntryAccount
<1>b. \A u \in Threads : HasIndex(u) /\ ModeFitsPc(u) /\ LoadedFits(u)
  BY DEF Control, ControlOf
<1> USE <1>a, <1>b, EntryFacts
        DEF TypeOK, Goto, HasIndex, ModeFitsPc, LoadedFits, HasWriter
<1>1. ASSUME NEW t \in Threads, LockShared(t) PROVE EntryAccount(e)'
  <2>1. val' = val /\ ReadersOf(e)' = ReadersOf(e)
    BY <1>1 DEF LockShared, ReadersOf
  <2>2. \A u \in Threads : Owns(u, e)' <=> Owns(u, e)
    BY <1>1 DEF LockShared, Owns
  <2> QED
    BY <2>1, <2>2, AccountKept
<1>2. ASSUME NEW t \in Threads, Lock(t) PROVE EntryAccount(e)'
  <2>1. val' = val /\ ReadersOf(e)' = ReadersOf(e)
    BY <1>2 DEF Lock, ReadersOf
  <2>2. \A u \in Threads : Owns(u, e)' <=> Owns(u, e)
    BY <1>2 DEF Lock, Owns
  <2> QED
    BY <2>1, <2>2, AccountKept
<1>3. ASSUME NEW t \in Threads, UnlockShared(t) PROVE EntryAccount(e)'
  <2>1. val' = val /\ ReadersOf(e)' = ReadersOf(e)
    BY <1>3 DEF UnlockShared, CallUnlockShared, ReadersOf
  <2>2. \A u \in Threads : Owns(u, e)' <=> Owns(u, e)
    BY <1>3 DEF UnlockShared, CallUnlockShared, Owns
  <2> QED
    BY <2>1, <2>2, AccountKept
<1>4. ASSUME NEW t \in Threads, Unlock(t) PROVE EntryAccount(e)'
  <2>1. val' = val /\ ReadersOf(e)' = ReadersOf(e)
    BY <1>4 DEF Unlock, CallUnlock, ReadersOf
  <2>2. \A u \in Threads : Owns(u, e)' <=> Owns(u, e)
    BY <1>4 DEF Unlock, CallUnlock, Owns
  <2> QED
    BY <2>1, <2>2, AccountKept
<1>5. ASSUME NEW t \in Threads, Step(t) PROVE EntryAccount(e)'
  <2>1. CASE LockSharedLoad(t)
    <3>1. val' = val /\ ReadersOf(e)' = ReadersOf(e)
      BY <2>1 DEF LockSharedLoad, ReadersOf
    <3>2. \A u \in Threads : Owns(u, e)' <=> Owns(u, e)
      BY <2>1 DEF LockSharedLoad, Owns
    <3> QED
      BY <3>1, <3>2, AccountKept
  <2>2. CASE LockSharedCas(t)
    <3> DEFINE f == idx[t]
    <3>1. f \in Entries /\ val[f] = cur[t] /\ cur[t] >= 0 /\ mode[t] = "none"
      BY <2>2 DEF LockSharedCas
    <3>a. EntryAccount(f)
      BY <3>1
    <3>2. val[f] # W_MASK
      BY <3>1, IncDecInt
    <3>3. (\A u \in Threads : ~Owns(u, f)) /\ val[f] = Cardinality(ReadersOf(f))
      BY <3>1, <3>a, <3>2, FreeEntry
    <3>4. \A u \in Threads : Owns(u, e)' <=> Owns(u, e)
      BY <2>2 DEF LockSharedCas, Owns
    <3>5. CASE e = f
      <4>1. t \notin ReadersOf(f) /\ ReadersOf(e)' = ReadersOf(f) \cup {t}
        BY <2>2, <3>1, <3>5 DEF LockSharedCas, ReadersOf
      <4>2. Cardinality(ReadersOf(e)') = Inc(val[f])
        BY <3>3, <4>1, ReadersBound, CountOne
      <4>3. val'[e] = Inc(val[f])
        BY <2>2, <3>1, <3>5 DEF LockSharedCas
      <4> QED
        BY <3>3, <3>4, <3>5, <4>2, <4>3 DEF EntryAccount
    <3>6. CASE e # f
      <4>1. val'[e] = val[e] /\ ReadersOf(e)' = ReadersOf(e)
        BY <2>2, <3>6 DEF LockSharedCas, ReadersOf
      <4> QED
        BY <3>4, <4>1, AccountKept
    <3> QED
      BY <3>5, <3>6
  <2>3. CASE LockSharedCasFails(t)
    <3>1. val' = val /\ ReadersOf(e)' = ReadersOf(e)
      BY <2>3 DEF LockSharedCasFails, ReadersOf
    <3>2. \A u \in Threads : Owns(u, e)' <=> Owns(u, e)
      BY <2>3 DEF LockSharedCasFails, Owns
    <3> QED
      BY <3>1, <3>2, AccountKept
  <2>4. CASE UnlockSharedLoad(t)
    <3>1. val' = val /\ ReadersOf(e)' = ReadersOf(e)
      BY <2>4 DEF UnlockSharedLoad, ReadersOf
    <3>2. \A u \in Threads : Owns(u, e)' <=> Owns(u, e)
      BY <2>4 DEF UnlockSharedLoad, Owns
    <3> QED
      BY <3>1, <3>2, AccountKept
  <2>5. CASE UnlockSharedCas(t)
    <3> DEFINE f == idx[t]
    <3>1. f \in Entries /\ val[f] = cur[t] /\ mode[t] = "shared"
      BY <2>5 DEF UnlockSharedCas
    <3>2. EntryAccount(f) /\ t \in ReadersOf(f)
      BY <3>1 DEF ReadersOf
    <3>3. (\A u \in Threads : ~Owns(u, f)) /\ val[f] = Cardinality(ReadersOf(f))
      BY <3>2 DEF EntryAccount
    <3>4. \A u \in Threads : Owns(u, e)' <=> Owns(u, e)
      BY <2>5 DEF UnlockSharedCas, Owns
    <3>5. CASE e = f
      <4>1. ReadersOf(e)' = ReadersOf(f) \ {t}
        BY <2>5, <3>1, <3>5 DEF UnlockSharedCas, ReadersOf
      <4>2. Cardinality(ReadersOf(e)') = Dec(val[f])
        BY <3>2, <3>3, <4>1, ReadersBound, CountOne
      <4>3. val'[e] = Dec(val[f])
        BY <2>5, <3>1, <3>5 DEF UnlockSharedCas
      <4> QED
        BY <3>3, <3>4, <3>5, <4>2, <4>3 DEF EntryAccount
    <3>6. CASE e # f
      <4>1. val'[e] = val[e] /\ ReadersOf(e)' = ReadersOf(e)
        BY <2>5, <3>6 DEF UnlockSharedCas, ReadersOf
      <4> QED
        BY <3>4, <4>1, AccountKept
    <3> QED
      BY <3>5, <3>6
  <2>6. CASE UnlockSharedCasFails(t)
    <3>1. val' = val /\ ReadersOf(e)' = ReadersOf(e)
      BY <2>6 DEF UnlockSharedCasFails, ReadersOf
    <3>2. \A u \in Threads : Owns(u, e)' <=> Owns(u, e)
      BY <2>6 DEF UnlockSharedCasFails, Owns
    <3> QED
      BY <3>1, <3>2, AccountKept
  <2>7. CASE UnlockSharedWake(t)
    <3>1. val' = val /\ ReadersOf(e)' = ReadersOf(e)
      BY <2>7 DEF UnlockSharedWake, WakeAll, Sleepers, Asleep, Resume, ReadersOf
    <3>2. \A u \in Threads : Owns(u, e)' <=> Owns(u, e)
      BY <2>7 DEF UnlockSharedWake, WakeAll, Sleepers, Asleep, Resume, Owns
    <3> QED
      BY <3>1, <3>2, AccountKept
  <2>8. CASE LockLoad(t)
    <3>1. val' = val /\ ReadersOf(e)' = ReadersOf(e)
      BY <2>8 DEF LockLoad, ReadersOf
    <3>2. \A u \in Threads : Owns(u, e)' <=> Owns(u, e)
      BY <2>8 DEF LockLoad, Owns
    <3> QED
      BY <3>1, <3>2, AccountKept
  <2>9. CASE LockCas(t)
    <3> DEFINE f == i[t]
    <3>n. e \in Nat /\ f \in Nat /\ NumEntries \in Nat /\ e < NumEntries
      BY Constants
    <3>1. f \in Entries /\ val[f] = 0
      BY <2>9 DEF LockCas
    <3>a. EntryAccount(f)
      BY <3>1
    <3>b. val[f] # W_MASK
      BY <3>1, IncDecInt
    <3>2. (\A u \in Threads : ~Owns(u, f)) /\ Cardinality(ReadersOf(f)) = 0
      BY <3>1, <3>a, <3>b, FreeEntry
    <3>3. ReadersOf(f) = {}
      BY <3>2, ReadersBound, FS_EmptySet
    <3>4. ReadersOf(e)' = ReadersOf(e)
      BY <2>9 DEF LockCas, ReadersOf
    <3>5. \A u \in Threads \ {t} : Owns(u, e)' <=> Owns(u, e)
      BY <2>9 DEF LockCas, Owns
    <3>6. CASE e = f
      <4>1. Owns(t, e)'
        BY <2>9, <3>1, <3>6 DEF LockCas, Owns
      <4>2. val'[e] = W_MASK
        BY <2>9, <3>1, <3>6 DEF LockCas
      <4> QED
        BY <3>2, <3>3, <3>4, <3>5, <3>6, <4>1, <4>2 DEF EntryAccount
    <3>7. CASE e # f
      <4>1. Owns(t, e)' <=> Owns(t, e)
        <5>1. Owns(t, e) <=> e < f
          BY <2>9 DEF LockCas, Owns
        <5>2. CASE f + 1 < NumEntries
          <6>1. pc'[t] = "l_load" /\ i'[t] = f + 1 /\ mode'[t] = "none"
            BY <2>9, <5>2 DEF LockCas
          <6>2. Owns(t, e)' <=> e < f + 1
            BY <6>1 DEF Owns
          <6>3. e < f + 1 <=> e < f
            BY <3>n, <3>7, NextIndex
          <6> QED
            BY <5>1, <6>2, <6>3
        <5>3. CASE ~(f + 1 < NumEntries)
          <6>1. Owns(t, e)'
            BY <2>9, <5>3 DEF LockCas, Owns
          <6> QED
            BY <5>1, <5>3, <6>1, <3>n, <3>7
        <5> QED
          BY <5>2, <5>3
      <4>2. val'[e] = val[e]
        BY <2>9, <3>7 DEF LockCas
      <4> QED
        BY <3>4, <3>5, <4>1, <4>2, AccountKept
    <3> QED
      BY <3>6, <3>7
  <2>10. CASE LockCasFails(t)
    <3>1. val' = val /\ ReadersOf(e)' = ReadersOf(e)
      BY <2>10 DEF LockCasFails, ReadersOf
    <3>2. \A u \in Threads : Owns(u, e)' <=> Owns(u, e)
      BY <2>10 DEF LockCasFails, Owns
    <3> QED
      BY <3>1, <3>2, AccountKept
  <2>11. CASE UnlockLoad(t)
    <3>1. val' = val /\ ReadersOf(e)' = ReadersOf(e)
      BY <2>11 DEF UnlockLoad, ReadersOf
    <3>2. \A u \in Threads : Owns(u, e)' <=> Owns(u, e)
      BY <2>11 DEF UnlockLoad, Owns
    <3> QED
      BY <3>1, <3>2, AccountKept
  <2>12. CASE UnlockCas(t)
    <3> DEFINE f == i[t]
    <3>n. e \in Nat /\ f \in Nat /\ NumEntries \in Nat /\ e < NumEntries
      BY Constants
    <3>1. f \in Entries /\ Owns(t, f)
      BY <2>12, <3>n DEF UnlockCas, Owns
    <3>2. /\ ReadersOf(f) = {}
          /\ \A u \in Threads \ {t} : ~Owns(u, f)
      BY <3>1 DEF EntryAccount
    <3>3. ReadersOf(e)' = ReadersOf(e)
      BY <2>12 DEF UnlockCas, ReadersOf
    <3>4. \A u \in Threads \ {t} : Owns(u, e)' <=> Owns(u, e)
      BY <2>12 DEF UnlockCas, Owns
    <3>5. CASE e = f
      <4>1. ~Owns(t, e)'
        BY <2>12, <3>1, <3>5 DEF UnlockCas, Owns
      <4>2. val'[e] = 0
        BY <2>12, <3>1, <3>5 DEF UnlockCas
      <4> QED
        BY <3>2, <3>3, <3>4, <3>5, <4>1, <4>2, FS_EmptySet DEF EntryAccount
    <3>6. CASE e # f
      <4>1. Owns(t, e)' <=> Owns(t, e)
        BY <2>12, <3>n, <3>6 DEF UnlockCas, Owns
      <4>2. val'[e] = val[e]
        BY <2>12, <3>6 DEF UnlockCas
      <4> QED
        BY <3>3, <3>4, <4>1, <4>2, AccountKept
    <3> QED
      BY <3>5, <3>6
  <2>13. CASE UnlockCasFails(t)
    <3>1. val' = val /\ ReadersOf(e)' = ReadersOf(e)
      BY <2>13 DEF UnlockCasFails, ReadersOf
    <3>2. \A u \in Threads : Owns(u, e)' <=> Owns(u, e)
      BY <2>13 DEF UnlockCasFails, Owns
    <3> QED
      BY <3>1, <3>2, AccountKept
  <2>14. CASE UnlockWake(t)
    <3>n. e \in Nat /\ i[t] \in Nat /\ NumEntries \in Nat /\ e < NumEntries
      BY Constants
    <3>1. val' = val /\ ReadersOf(e)' = ReadersOf(e)
      BY <2>14 DEF UnlockWake, WakeAll, Sleepers, Asleep, Resume, ReadersOf
    <3>2. \A u \in Threads : Owns(u, e)' <=> Owns(u, e)
      BY <2>14, <3>n DEF UnlockWake, WakeAll, Sleepers, Asleep, Resume, Owns
    <3> QED
      BY <3>1, <3>2, AccountKept
  <2>15. CASE FutexWait(t)
    <3>1. val' = val /\ ReadersOf(e)' = ReadersOf(e)
      BY <2>15 DEF FutexWait, InKernel, Resume, ReadersOf
    <3>2. \A u \in Threads : Owns(u, e)' <=> Owns(u, e)
      BY <2>15 DEF FutexWait, InKernel, Resume, Owns
    <3> QED
      BY <3>1, <3>2, AccountKept
  <2> QED
    BY <1>5, <2>1, <2>2, <2>3, <2>4, <2>5, <2>6, <2>7, <2>8, <2>9,
       <2>10, <2>11, <2>12, <2>13, <2>14, <2>15 DEF Step
<1>6. ASSUME NEW t \in Threads, Interrupt(t) PROVE EntryAccount(e)'
  <2>1. val' = val /\ ReadersOf(e)' = ReadersOf(e)
    BY <1>6 DEF Interrupt, Asleep, ReadersOf
  <2>2. \A u \in Threads : Owns(u, e)' <=> Owns(u, e)
    BY <1>6 DEF Interrupt, Asleep, Owns
  <2> QED
    BY <2>1, <2>2, AccountKept
<1>7. CASE UNCHANGED vars
  <2>1. val' = val /\ ReadersOf(e)' = ReadersOf(e)
    BY <1>7 DEF vars, ReadersOf
  <2>2. \A u \in Threads : Owns(u, e)' <=> Owns(u, e)
    BY <1>7 DEF vars, Owns
  <2> QED
    BY <2>1, <2>2, AccountKept
<1> QED
  BY <1>1, <1>2, <1>3, <1>4, <1>5, <1>6, <1>7 DEF Next, Release, Joined

-----------------------------------------------------------------------------
(* unlock() and sleeping.                                                  *)

(* Without spurious failures the value unlock() loads is the W_MASK its    *)
(* thread stored, so the exchange succeeds.                                *)
UnlockDirect ==
  ~SpuriousFailure =>
    \A t \in Threads : /\ pc[t] = "u_cas" => cur[t] = W_MASK
                      /\ pc[t] \notin {"u_wait", "u_sleep"}

(* Every step leaves unlock() with the value its thread has stored.        *)
LEMMA UnlockStep ==
  TypeOK /\ Control /\ EntryAccounting /\ UnlockDirect /\ [Next]_vars
    => UnlockDirect'
<1> SUFFICES ASSUME TypeOK, Control, EntryAccounting, UnlockDirect, [Next]_vars,
                    ~SpuriousFailure, NEW u \in Threads
             PROVE  /\ pc'[u] = "u_cas" => cur'[u] = W_MASK
                    /\ pc'[u] \notin {"u_wait", "u_sleep"}
  BY DEF UnlockDirect
<1> DEFINE Goal == /\ pc'[u] = "u_cas" => cur'[u] = W_MASK
                   /\ pc'[u] \notin {"u_wait", "u_sleep"}
<1>a. /\ pc[u] = "u_cas" => cur[u] = W_MASK
      /\ pc[u] \notin {"u_wait", "u_sleep"}
  BY DEF UnlockDirect
<1>b. pc[u] \in {"u_load", "u_cas"} => val[i[u]] = W_MASK
  <2> SUFFICES ASSUME pc[u] \in {"u_load", "u_cas"} PROVE val[i[u]] = W_MASK
    OBVIOUS
  <2>a. i[u] \in Entries
    BY DEF TypeOK
  <2>1. i[u] \in Entries /\ i[u] <= i[u]
    BY <2>a, EntryFacts
  <2>2. Owns(u, i[u])
    BY <2>1 DEF Owns
  <2> QED
    BY <2>1, <2>2 DEF EntryAccounting
<1> USE <1>a, <1>b DEF TypeOK, Goto
<1>1. ASSUME NEW t \in Threads, LockShared(t) PROVE Goal
  BY <1>1 DEF LockShared
<1>2. ASSUME NEW t \in Threads, Lock(t) PROVE Goal
  BY <1>2 DEF Lock
<1>3. ASSUME NEW t \in Threads, UnlockShared(t) PROVE Goal
  BY <1>3 DEF UnlockShared, CallUnlockShared
<1>4. ASSUME NEW t \in Threads, Unlock(t) PROVE Goal
  BY <1>4 DEF Unlock, CallUnlock
<1>5. ASSUME NEW t \in Threads, Step(t) PROVE Goal
  <2>1. CASE LockSharedLoad(t)
    BY <2>1 DEF LockSharedLoad
  <2>2. CASE LockSharedCas(t)
    BY <2>2 DEF LockSharedCas
  <2>3. CASE LockSharedCasFails(t)
    BY <2>3 DEF LockSharedCasFails
  <2>4. CASE UnlockSharedLoad(t)
    BY <2>4 DEF UnlockSharedLoad
  <2>5. CASE UnlockSharedCas(t)
    BY <2>5 DEF UnlockSharedCas
  <2>6. CASE UnlockSharedCasFails(t)
    BY <2>6 DEF UnlockSharedCasFails
  <2>7. CASE UnlockSharedWake(t)
    BY <2>7 DEF UnlockSharedWake, WakeAll, Sleepers, Asleep, Resume
  <2>8. CASE LockLoad(t)
    BY <2>8 DEF LockLoad
  <2>9. CASE LockCas(t)
    BY <2>9 DEF LockCas
  <2>10. CASE LockCasFails(t)
    BY <2>10 DEF LockCasFails
  <2>11. CASE UnlockLoad(t)
    BY <2>11 DEF UnlockLoad
  <2>12. CASE UnlockCas(t)
    BY <2>12 DEF UnlockCas
  <2>13. CASE UnlockCasFails(t)
    BY <2>13 DEF UnlockCasFails
  <2>14. CASE UnlockWake(t)
    BY <2>14 DEF UnlockWake, WakeAll, Sleepers, Asleep, Resume
  <2>15. CASE FutexWait(t)
    BY <2>15 DEF FutexWait, InKernel, Resume
  <2> QED
    BY <1>5, <2>1, <2>2, <2>3, <2>4, <2>5, <2>6, <2>7, <2>8, <2>9,
       <2>10, <2>11, <2>12, <2>13, <2>14, <2>15 DEF Step
<1>6. ASSUME NEW t \in Threads, Interrupt(t) PROVE Goal
  BY <1>6 DEF Interrupt, Asleep
<1>7. CASE UNCHANGED vars
  BY <1>7 DEF vars
<1> QED
  BY <1>1, <1>2, <1>3, <1>4, <1>5, <1>6, <1>7 DEF Next, Release, Joined

(* The part of NoLostWakeup about one thread.                              *)
WakeComes(e) == \E u \in Threads : WillWake(u, e)

WaitOK(u) ==
  /\ pc[u] = "ls_sleep" => HasWriter(val[idx[u]]) \/ WakeComes(idx[u])
  /\ pc[u] = "l_sleep" => val[i[u]] # 0 \/ WakeComes(i[u])

(* A sleeper is not forgotten by a step that leaves it asleep, frees no    *)
(* entry without a wake-up to follow and takes no wake-up away.            *)
LEMMA WaitKept ==
  ASSUME NEW u, WaitOK(u),
         pc'[u] = "ls_sleep" => /\ pc[u] = "ls_sleep"
                                /\ idx'[u] = idx[u] /\ idx[u] \in Entries,
         pc'[u] = "l_sleep" => /\ pc[u] = "l_sleep"
                               /\ i'[u] = i[u] /\ i[u] \in Entries,
         \A e \in Entries : WakeComes(e) => WakeComes(e)',
         \A e \in Entries : HasWriter(val[e]) => HasWriter(val'[e]) \/ WakeComes(e)',
         \A e \in Entries : val[e] # 0 => val'[e] # 0 \/ WakeComes(e)'
  PROVE  WaitOK(u)'
BY DEF WaitOK

(* Every step leaves somebody to wake each thread that sleeps.             *)
LEMMA WaitStep ==
  TypeOK /\ Control /\ EntryAccounting /\ NoLostWakeup /\ [Next]_vars
    => NoLostWakeup'
<1> SUFFICES ASSUME TypeOK, Control, EntryAccounting, NoLostWakeup, [Next]_vars,
                    NEW u \in Threads
             PROVE  WaitOK(u)'
  BY DEF NoLostWakeup, WaitOK, WakeComes
<1>a. WaitOK(u)
  BY DEF NoLostWakeup, WaitOK, WakeComes
<1>b. \A t \in Threads : HasIndex(t) /\ ModeFitsPc(t) /\ LoadedFits(t)
  BY DEF Control, ControlOf
<1> USE <1>a, <1>b, EntryFacts
        DEF TypeOK, Goto, HasIndex, ModeFitsPc, LoadedFits
<1>1. ASSUME NEW t \in Threads, LockShared(t) PROVE WaitOK(u)'
  <2>1. \A e \in Entries : WakeComes(e) => WakeComes(e)'
    BY <1>1 DEF LockShared, WakeComes, WillWake, EntryOf
  <2>2. val' = val
    BY <1>1 DEF LockShared
  <2>3. /\ pc'[u] = "ls_sleep" => pc[u] = "ls_sleep" /\ idx'[u] = idx[u]
        /\ pc'[u] = "l_sleep" => pc[u] = "l_sleep" /\ i'[u] = i[u]
    BY <1>1 DEF LockShared
  <2> QED
    BY <2>1, <2>2, <2>3, WaitKept
<1>2. ASSUME NEW t \in Threads, Lock(t) PROVE WaitOK(u)'
  <2>1. \A e \in Entries : WakeComes(e) => WakeComes(e)'
    BY <1>2 DEF Lock, WakeComes, WillWake, EntryOf
  <2>2. val' = val
    BY <1>2 DEF Lock
  <2>3. /\ pc'[u] = "ls_sleep" => pc[u] = "ls_sleep" /\ idx'[u] = idx[u]
        /\ pc'[u] = "l_sleep" => pc[u] = "l_sleep" /\ i'[u] = i[u]
    BY <1>2 DEF Lock
  <2> QED
    BY <2>1, <2>2, <2>3, WaitKept
<1>3. ASSUME NEW t \in Threads, UnlockShared(t) PROVE WaitOK(u)'
  <2>1. \A e \in Entries : WakeComes(e) => WakeComes(e)'
    BY <1>3 DEF UnlockShared, CallUnlockShared, WakeComes, WillWake, EntryOf
  <2>2. val' = val
    BY <1>3 DEF UnlockShared, CallUnlockShared
  <2>3. /\ pc'[u] = "ls_sleep" => pc[u] = "ls_sleep" /\ idx'[u] = idx[u]
        /\ pc'[u] = "l_sleep" => pc[u] = "l_sleep" /\ i'[u] = i[u]
    BY <1>3 DEF UnlockShared, CallUnlockShared
  <2> QED
    BY <2>1, <2>2, <2>3, WaitKept
<1>4. ASSUME NEW t \in Threads, Unlock(t) PROVE WaitOK(u)'
  <2>1. \A e \in Entries : WakeComes(e) => WakeComes(e)'
    BY <1>4 DEF Unlock, CallUnlock, WakeComes, WillWake, EntryOf
  <2>2. val' = val
    BY <1>4 DEF Unlock, CallUnlock
  <2>3. /\ pc'[u] = "ls_sleep" => pc[u] = "ls_sleep" /\ idx'[u] = idx[u]
        /\ pc'[u] = "l_sleep" => pc[u] = "l_sleep" /\ i'[u] = i[u]
    BY <1>4 DEF Unlock, CallUnlock
  <2> QED
    BY <2>1, <2>2, <2>3, WaitKept
<1>5. ASSUME NEW t \in Threads, Step(t) PROVE WaitOK(u)'
  <2>1. CASE LockSharedLoad(t)
    <3>1. \A e \in Entries : WakeComes(e) => WakeComes(e)'
      BY <2>1 DEF LockSharedLoad, WakeComes, WillWake, EntryOf
    <3>2. val' = val
      BY <2>1 DEF LockSharedLoad
    <3>3. /\ pc'[u] = "ls_sleep" => pc[u] = "ls_sleep" /\ idx'[u] = idx[u]
          /\ pc'[u] = "l_sleep" => pc[u] = "l_sleep" /\ i'[u] = i[u]
      BY <2>1 DEF LockSharedLoad
    <3> QED
      BY <3>1, <3>2, <3>3, WaitKept
  <2>2. CASE LockSharedCas(t)
    <3>1. \A e \in Entries : WakeComes(e) => WakeComes(e)'
      BY <2>2 DEF LockSharedCas, WakeComes, WillWake, EntryOf
    <3>a. Inc(cur[t]) # 0 /\ ~HasWriter(cur[t])
      BY <2>2, Constants DEF LockSharedCas, Inc, W_MASK, HasWriter
    <3>b. /\ idx[t] \in Entries /\ val[idx[t]] = cur[t]
          /\ val' = [val EXCEPT ![idx[t]] = Inc(cur[t])]
      BY <2>2 DEF LockSharedCas
    <3>2. \A e \in Entries :
            /\ HasWriter(val[e]) => HasWriter(val'[e]) \/ WakeComes(e)'
            /\ val[e] # 0 => val'[e] # 0 \/ WakeComes(e)'
      BY <3>a, <3>b
    <3>3. /\ pc'[u] = "ls_sleep" => pc[u] = "ls_sleep" /\ idx'[u] = idx[u]
          /\ pc'[u] = "l_sleep" => pc[u] = "l_sleep" /\ i'[u] = i[u]
      BY <2>2 DEF LockSharedCas
    <3> QED
      BY <3>1, <3>2, <3>3, WaitKept
  <2>3. CASE LockSharedCasFails(t)
    <3>1. \A e \in Entries : WakeComes(e) => WakeComes(e)'
      BY <2>3 DEF LockSharedCasFails, WakeComes, WillWake, EntryOf
    <3>2. val' = val
      BY <2>3 DEF LockSharedCasFails
    <3>3. /\ pc'[u] = "ls_sleep" => pc[u] = "ls_sleep" /\ idx'[u] = idx[u]
          /\ pc'[u] = "l_sleep" => pc[u] = "l_sleep" /\ i'[u] = i[u]
      BY <2>3 DEF LockSharedCasFails
    <3> QED
      BY <3>1, <3>2, <3>3, WaitKept
  <2>4. CASE UnlockSharedLoad(t)
    <3>1. \A e \in Entries : WakeComes(e) => WakeComes(e)'
      BY <2>4 DEF UnlockSharedLoad, WakeComes, WillWake, EntryOf
    <3>2. val' = val
      BY <2>4 DEF UnlockSharedLoad
    <3>3. /\ pc'[u] = "ls_sleep" => pc[u] = "ls_sleep" /\ idx'[u] = idx[u]
          /\ pc'[u] = "l_sleep" => pc[u] = "l_sleep" /\ i'[u] = i[u]
      BY <2>4 DEF UnlockSharedLoad
    <3> QED
      BY <3>1, <3>2, <3>3, WaitKept
  <2>5. CASE UnlockSharedCas(t)
    <3>1. \A e \in Entries : WakeComes(e) => WakeComes(e)'
      BY <2>5 DEF UnlockSharedCas, WakeComes, WillWake, EntryOf
    <3>a. \A e \in Entries : e = idx[t] => WillWake(t, e)'
      BY <2>5 DEF UnlockSharedCas, WillWake, EntryOf
    <3>b. \A e \in Entries : e # idx[t] => val'[e] = val[e]
      BY <2>5 DEF UnlockSharedCas
    <3>c. \A e \in Entries : e = idx[t] => WakeComes(e)'
      BY <3>a DEF WakeComes
    <3>2. \A e \in Entries :
            /\ HasWriter(val[e]) => HasWriter(val'[e]) \/ WakeComes(e)'
            /\ val[e] # 0 => val'[e] # 0 \/ WakeComes(e)'
      BY <3>b, <3>c
    <3>3. /\ pc'[u] = "ls_sleep" => pc[u] = "ls_sleep" /\ idx'[u] = idx[u]
          /\ pc'[u] = "l_sleep" => pc[u] = "l_sleep" /\ i'[u] = i[u]
      BY <2>5 DEF UnlockSharedCas
    <3> QED
      BY <3>1, <3>2, <3>3, WaitKept
  <2>6. CASE UnlockSharedCasFails(t)
    <3>1. \A e \in Entries : WakeComes(e) => WakeComes(e)'
      BY <2>6 DEF UnlockSharedCasFails, WakeComes, WillWake, EntryOf
    <3>2. val' = val
      BY <2>6 DEF UnlockSharedCasFails
    <3>3. /\ pc'[u] = "ls_sleep" => pc[u] = "ls_sleep" /\ idx'[u] = idx[u]
          /\ pc'[u] = "l_sleep" => pc[u] = "l_sleep" /\ i'[u] = i[u]
      BY <2>6 DEF UnlockSharedCasFails
    <3> QED
      BY <3>1, <3>2, <3>3, WaitKept
  <2>7. CASE UnlockSharedWake(t)
    <3> DEFINE f == EntryOf(t)
    <3>1. f = idx[t] /\ pc[t] \in {"us_wake", "u_wake"}
      BY <2>7 DEF UnlockSharedWake, EntryOf
    <3>2. \A w \in Threads \ {t} : \A e \in Entries :
            WillWake(w, e) => WillWake(w, e)'
      BY <2>7 DEF UnlockSharedWake, WakeAll, Sleepers, Asleep, Resume, WillWake, EntryOf
    <3>3. \A e \in Entries : e # f => (WakeComes(e) => WakeComes(e)')
      BY <3>2 DEF WakeComes, WillWake
    <3>4. val' = val /\ idx' = idx
      BY <2>7 DEF UnlockSharedWake
    <3>5. pc'[u] = "ls_sleep" => pc[u] = "ls_sleep" /\ idx[u] # f
      BY <2>7, <3>1 DEF UnlockSharedWake, WakeAll, Sleepers, Asleep, Resume, EntryOf
    <3>6. pc'[u] = "l_sleep" => pc[u] = "l_sleep" /\ i'[u] = i[u] /\ i[u] # f
      BY <2>7, <3>1 DEF UnlockSharedWake, WakeAll, Sleepers, Asleep, Resume, EntryOf
    <3> QED
      BY <3>3, <3>4, <3>5, <3>6 DEF WaitOK
  <2>8. CASE LockLoad(t)
    <3>1. \A e \in Entries : WakeComes(e) => WakeComes(e)'
      BY <2>8 DEF LockLoad, WakeComes, WillWake, EntryOf
    <3>2. val' = val
      BY <2>8 DEF LockLoad
    <3>3. /\ pc'[u] = "ls_sleep" => pc[u] = "ls_sleep" /\ idx'[u] = idx[u]
          /\ pc'[u] = "l_sleep" => pc[u] = "l_sleep" /\ i'[u] = i[u]
      BY <2>8 DEF LockLoad
    <3> QED
      BY <3>1, <3>2, <3>3, WaitKept
  <2>9. CASE LockCas(t)
    <3>1. \A e \in Entries : WakeComes(e) => WakeComes(e)'
      BY <2>9 DEF LockCas, WakeComes, WillWake, EntryOf
    <3>a. HasWriter(W_MASK) /\ W_MASK # 0
      BY IncDecInt DEF HasWriter
    <3>b. val' = [val EXCEPT ![i[t]] = W_MASK]
      BY <2>9 DEF LockCas
    <3>2. \A e \in Entries :
            /\ HasWriter(val[e]) => HasWriter(val'[e]) \/ WakeComes(e)'
            /\ val[e] # 0 => val'[e] # 0 \/ WakeComes(e)'
      BY <3>a, <3>b
    <3>3. /\ pc'[u] = "ls_sleep" => pc[u] = "ls_sleep" /\ idx'[u] = idx[u]
          /\ pc'[u] = "l_sleep" => pc[u] = "l_sleep" /\ i'[u] = i[u]
      BY <2>9 DEF LockCas
    <3> QED
      BY <3>1, <3>2, <3>3, WaitKept
  <2>10. CASE LockCasFails(t)
    <3>1. \A e \in Entries : WakeComes(e) => WakeComes(e)'
      BY <2>10 DEF LockCasFails, WakeComes, WillWake, EntryOf
    <3>2. val' = val
      BY <2>10 DEF LockCasFails
    <3>3. /\ pc'[u] = "ls_sleep" => pc[u] = "ls_sleep" /\ idx'[u] = idx[u]
          /\ pc'[u] = "l_sleep" => pc[u] = "l_sleep" /\ i'[u] = i[u]
      BY <2>10 DEF LockCasFails
    <3> QED
      BY <3>1, <3>2, <3>3, WaitKept
  <2>11. CASE UnlockLoad(t)
    <3>1. \A e \in Entries : WakeComes(e) => WakeComes(e)'
      BY <2>11 DEF UnlockLoad, WakeComes, WillWake, EntryOf
    <3>2. val' = val
      BY <2>11 DEF UnlockLoad
    <3>3. /\ pc'[u] = "ls_sleep" => pc[u] = "ls_sleep" /\ idx'[u] = idx[u]
          /\ pc'[u] = "l_sleep" => pc[u] = "l_sleep" /\ i'[u] = i[u]
      BY <2>11 DEF UnlockLoad
    <3> QED
      BY <3>1, <3>2, <3>3, WaitKept
  <2>12. CASE UnlockCas(t)
    <3>1. \A e \in Entries : WakeComes(e) => WakeComes(e)'
      BY <2>12 DEF UnlockCas, WakeComes, WillWake, EntryOf
    <3>a. \A e \in Entries : e = i[t] => WillWake(t, e)'
      BY <2>12 DEF UnlockCas, WillWake, EntryOf
    <3>b. \A e \in Entries : e # i[t] => val'[e] = val[e]
      BY <2>12 DEF UnlockCas
    <3>c. \A e \in Entries : e = i[t] => WakeComes(e)'
      BY <3>a DEF WakeComes
    <3>2. \A e \in Entries :
            /\ HasWriter(val[e]) => HasWriter(val'[e]) \/ WakeComes(e)'
            /\ val[e] # 0 => val'[e] # 0 \/ WakeComes(e)'
      BY <3>b, <3>c
    <3>3. /\ pc'[u] = "ls_sleep" => pc[u] = "ls_sleep" /\ idx'[u] = idx[u]
          /\ pc'[u] = "l_sleep" => pc[u] = "l_sleep" /\ i'[u] = i[u]
      BY <2>12 DEF UnlockCas
    <3> QED
      BY <3>1, <3>2, <3>3, WaitKept
  <2>13. CASE UnlockCasFails(t)
    <3>1. \A e \in Entries : WakeComes(e) => WakeComes(e)'
      BY <2>13 DEF UnlockCasFails, WakeComes, WillWake, EntryOf
    <3>2. val' = val
      BY <2>13 DEF UnlockCasFails
    <3>3. /\ pc'[u] = "ls_sleep" => pc[u] = "ls_sleep" /\ idx'[u] = idx[u]
          /\ pc'[u] = "l_sleep" => pc[u] = "l_sleep" /\ i'[u] = i[u]
      BY <2>13 DEF UnlockCasFails
    <3> QED
      BY <3>1, <3>2, <3>3, WaitKept
  <2>14. CASE UnlockWake(t)
    <3> DEFINE f == EntryOf(t)
    <3>1. f = i[t] /\ pc[t] \in {"us_wake", "u_wake"}
      BY <2>14 DEF UnlockWake, EntryOf
    <3>2. \A w \in Threads \ {t} : \A e \in Entries :
            WillWake(w, e) => WillWake(w, e)'
      BY <2>14 DEF UnlockWake, WakeAll, Sleepers, Asleep, Resume, WillWake, EntryOf
    <3>3. \A e \in Entries : e # f => (WakeComes(e) => WakeComes(e)')
      BY <3>2 DEF WakeComes, WillWake
    <3>4. val' = val /\ idx' = idx
      BY <2>14 DEF UnlockWake
    <3>5. pc'[u] = "ls_sleep" => pc[u] = "ls_sleep" /\ idx[u] # f
      BY <2>14, <3>1 DEF UnlockWake, WakeAll, Sleepers, Asleep, Resume, EntryOf
    <3>6. pc'[u] = "l_sleep" => pc[u] = "l_sleep" /\ i'[u] = i[u] /\ i[u] # f
      BY <2>14, <3>1 DEF UnlockWake, WakeAll, Sleepers, Asleep, Resume, EntryOf
    <3> QED
      BY <3>3, <3>4, <3>5, <3>6 DEF WaitOK
  <2>15. CASE FutexWait(t)
    <3>1. \A e \in Entries : WakeComes(e) => WakeComes(e)'
      BY <2>15 DEF FutexWait, WakeComes, WillWake, EntryOf, InKernel, Resume
    <3>2. val' = val /\ idx' = idx /\ i' = i
      BY <2>15 DEF FutexWait
    <3>3. CASE u # t
      <4>1. pc'[u] = pc[u]
        BY <2>15, <3>3 DEF FutexWait
      <4> QED
        BY <3>1, <3>2, <4>1, WaitKept
    <3>4. CASE u = t
      <4>1. pc'[u] = "ls_sleep" => HasWriter(val[idx[u]])
        BY <2>15, <3>4 DEF FutexWait, EntryOf, InKernel, Resume
      <4>2. pc'[u] = "l_sleep" => val[i[u]] # 0
        BY <2>15, <3>4 DEF FutexWait, EntryOf, InKernel, Resume
      <4> QED
        BY <3>2, <4>1, <4>2 DEF WaitOK
    <3> QED
      BY <3>3, <3>4
  <2> QED
    BY <1>5, <2>1, <2>2, <2>3, <2>4, <2>5, <2>6, <2>7, <2>8, <2>9,
       <2>10, <2>11, <2>12, <2>13, <2>14, <2>15 DEF Step
<1>6. ASSUME NEW t \in Threads, Interrupt(t) PROVE WaitOK(u)'
  <2>1. \A e \in Entries : WakeComes(e) => WakeComes(e)'
    BY <1>6 DEF Interrupt, Asleep, WakeComes, WillWake, EntryOf
  <2>2. val' = val
    BY <1>6 DEF Interrupt, Asleep
  <2>3. /\ pc'[u] = "ls_sleep" => pc[u] = "ls_sleep" /\ idx'[u] = idx[u]
        /\ pc'[u] = "l_sleep" => pc[u] = "l_sleep" /\ i'[u] = i[u]
    BY <1>6 DEF Interrupt, Asleep
  <2> QED
    BY <2>1, <2>2, <2>3, WaitKept
<1>7. CASE UNCHANGED vars
  <2>1. \A e \in Entries : WakeComes(e) => WakeComes(e)'
    BY <1>7 DEF vars, WakeComes, WillWake, EntryOf
  <2>2. val' = val
    BY <1>7 DEF vars
  <2>3. /\ pc'[u] = "ls_sleep" => pc[u] = "ls_sleep" /\ idx'[u] = idx[u]
        /\ pc'[u] = "l_sleep" => pc[u] = "l_sleep" /\ i'[u] = i[u]
    BY <1>7 DEF vars
  <2> QED
    BY <2>1, <2>2, <2>3, WaitKept
<1> QED
  BY <1>1, <1>2, <1>3, <1>4, <1>5, <1>6, <1>7 DEF Next, Release, Joined

-----------------------------------------------------------------------------
(* The theorems.                                                           *)

IInv == TypeOK /\ Control /\ EntryAccounting /\ UnlockDirect /\ NoLostWakeup

(* The inductive invariant holds in every reachable state.                 *)
THEOREM Invariance == Spec => []IInv
<1>1. Init => IInv
  <2> SUFFICES ASSUME Init PROVE IInv
    OBVIOUS
  <2>1. TypeOK
    BY LocationFacts, EntryFacts, Constants DEF Init, TypeOK
  <2>2. Control
    BY DEF Init, Control, ControlOf, HasIndex, ModeFitsPc, LoadedFits
  <2>3. EntryAccounting
    <3> SUFFICES ASSUME NEW e \in Entries PROVE EntryAccount(e)
      BY DEF EntryAccounting, EntryAccount
    <3>1. ReadersOf(e) = {} /\ val[e] = 0
      BY DEF Init, ReadersOf
    <3>2. \A t \in Threads : ~Owns(t, e)
      BY DEF Init, Owns
    <3> QED
      BY <3>1, <3>2, FS_EmptySet DEF EntryAccount
  <2>4. UnlockDirect /\ NoLostWakeup
    BY DEF Init, UnlockDirect, NoLostWakeup
  <2> QED
    BY <2>1, <2>2, <2>3, <2>4 DEF IInv
<1>2. IInv /\ [Next]_vars => IInv'
  BY TypeStep, ControlStep, AccountStep, UnlockStep, WaitStep DEF IInv
<1> QED
  BY <1>1, <1>2, PTL DEF Spec

(* The variables always have their types (TypeOK).                         *)
THEOREM TypeCorrect == Spec => []TypeOK
<1>1. IInv => TypeOK
  BY DEF IInv
<1> QED
  BY <1>1, Invariance, PTL

(* Every entry always says who is in (EntryAccounting): whatever the       *)
(* threads do, lock and unlock leave no counter wrong.                     *)
THEOREM AccountingCorrect == Spec => []EntryAccounting
<1>1. IInv => EntryAccounting
  BY DEF IInv
<1> QED
  BY <1>1, Invariance, PTL

(* The accounts imply mutual exclusion: a writer owns every entry, so no   *)
(* entry counts a reader and there is no second writer.                    *)
LEMMA AccountsExclude == IInv => MutualExclusion
<1> SUFFICES ASSUME IInv, NEW t \in Threads, NEW u \in Threads,
                    t # u, mode[t] = "exclusive", mode[u] # "none"
             PROVE  FALSE
  BY DEF MutualExclusion
<1>1. \A e \in Entries : Owns(t, e)
  BY DEF Owns
<1>2. CASE mode[u] = "shared"
  <2>1. idx[u] \in Entries
    BY <1>2 DEF IInv, Control, ControlOf, HasIndex
  <2>2. u \in ReadersOf(idx[u])
    BY <1>2 DEF ReadersOf
  <2> QED
    BY <1>1, <2>1, <2>2 DEF IInv, EntryAccounting
<1>3. CASE mode[u] = "exclusive"
  <2>1. Owns(u, 0)
    BY <1>3 DEF Owns
  <2> QED
    BY <1>1, <2>1, EntryFacts DEF IInv, EntryAccounting
<1> QED
  BY <1>2, <1>3, LocationFacts DEF IInv, TypeOK

(* A writer is alone (MutualExclusion): shared_mutex::lock() excludes      *)
(* every other holder, lock_shared() every writer.                         *)
THEOREM MutualExclusionHolds == Spec => []MutualExclusion
<1> QED
  BY Invariance, AccountsExclude, PTL

(* No wake-up is lost (NoLostWakeup): a thread inside futex_wait waits for *)
(* an entry that is taken, or a futex_wake for it is on its way.           *)
THEOREM NoLostWakeupHolds == Spec => []NoLostWakeup
<1>1. IInv => NoLostWakeup
  BY DEF IInv
<1> QED
  BY <1>1, Invariance, PTL

(* unlock() never waits (UnlockNeverBlocks) where compare_exchange_weak    *)
(* fails only on a different value, as it does on x86.                     *)
THEOREM UnlockNeverBlocksHolds == Spec => []UnlockNeverBlocks
<1>1. IInv => UnlockNeverBlocks
  BY DEF IInv, UnlockDirect, UnlockNeverBlocks
<1> QED
  BY <1>1, Invariance, PTL

-----------------------------------------------------------------------------
(* Refinement of RWLock.                                                   *)

SharedHolders == {t \in Threads : mode[t] = "shared"}

Writers == {t \in Threads : mode[t] = "exclusive"}

(* A step that leaves every mode alone is a stutter of RWLock.             *)
LEMMA ModeKept == mode' = mode => UNCHANGED RW!vars
BY DEF RW!vars

(* After the last entry there is none left.                                *)
LEMMA LastIndex ==
  ASSUME NEW e \in Nat, NEW f \in Nat, NEW n \in Nat,
         e < n, ~(f + 1 < n), e # f
  PROVE  e < f
OBVIOUS

(* Every step of the mutex is a step of RWLock or a stutter.               *)
LEMMA RefinementStep == IInv /\ [Next]_vars => [RW!Next]_(RW!vars)
<1> SUFFICES ASSUME IInv, [Next]_vars PROVE [RW!Next]_(RW!vars)
  OBVIOUS
<1>a. TypeOK /\ MutualExclusion
  BY AccountsExclude DEF IInv
<1>b. \A u \in Threads : HasIndex(u) /\ ModeFitsPc(u) /\ LoadedFits(u)
  BY DEF IInv, Control, ControlOf
<1>c. \A e \in Entries : EntryAccount(e)
  BY DEF IInv, EntryAccounting, EntryAccount
<1> USE <1>a DEF TypeOK, Goto
<1>1. ASSUME NEW t \in Threads, LockShared(t) PROVE [RW!Next]_(RW!vars)
  <2>1. mode' = mode
    BY <1>1 DEF LockShared
  <2> QED
    BY <2>1, ModeKept
<1>2. ASSUME NEW t \in Threads, Lock(t) PROVE [RW!Next]_(RW!vars)
  <2>1. mode' = mode
    BY <1>2 DEF Lock
  <2> QED
    BY <2>1, ModeKept
<1>3. ASSUME NEW t \in Threads, UnlockShared(t) PROVE [RW!Next]_(RW!vars)
  <2>1. mode' = mode
    BY <1>3 DEF UnlockShared, CallUnlockShared
  <2> QED
    BY <2>1, ModeKept
<1>4. ASSUME NEW t \in Threads, Unlock(t) PROVE [RW!Next]_(RW!vars)
  <2>1. mode' = mode
    BY <1>4 DEF Unlock, CallUnlock
  <2> QED
    BY <2>1, ModeKept
<1>5. ASSUME NEW t \in Threads, Step(t) PROVE [RW!Next]_(RW!vars)
  <2>1. CASE LockSharedLoad(t)
    <3>1. mode' = mode
      BY <2>1 DEF LockSharedLoad
    <3> QED
      BY <3>1, ModeKept
  <2>2. CASE LockSharedCas(t)
    <3> DEFINE f == idx[t]
    <3>1. f \in Entries /\ val[f] = cur[t] /\ ~HasWriter(cur[t]) /\ mode[t] = "none"
      BY <2>2, <1>b DEF LockSharedCas, HasIndex, LoadedFits, ModeFitsPc
    <3>a. EntryAccount(f)
      BY <1>c, <3>1
    <3>b. val[f] # W_MASK
      BY <3>1, IncDecInt DEF HasWriter
    <3>2. \A u \in Threads : ~Owns(u, f)
      BY <3>1, <3>a, <3>b, FreeEntry
    <3>3. Writers = {}
      BY <3>2 DEF Writers, Owns
    <3>4. mode' = [mode EXCEPT ![t] = "shared"]
      BY <2>2 DEF LockSharedCas
    <3>5. SharedHolders' = SharedHolders \cup {t} /\ Writers' = Writers /\ t \notin SharedHolders
      BY <3>1, <3>4 DEF SharedHolders, Writers
    <3> QED
      BY <3>3, <3>5 DEF RW!Next, RW!AcquireShared, SharedHolders, Writers
  <2>3. CASE LockSharedCasFails(t)
    <3>1. mode' = mode
      BY <2>3 DEF LockSharedCasFails
    <3> QED
      BY <3>1, ModeKept
  <2>4. CASE UnlockSharedLoad(t)
    <3>1. mode' = mode
      BY <2>4 DEF UnlockSharedLoad
    <3> QED
      BY <3>1, ModeKept
  <2>5. CASE UnlockSharedCas(t)
    <3>1. mode[t] = "shared"
      BY <2>5, <1>b DEF UnlockSharedCas, ModeFitsPc
    <3>2. mode' = [mode EXCEPT ![t] = "none"]
      BY <2>5 DEF UnlockSharedCas
    <3>3. SharedHolders' = SharedHolders \ {t} /\ Writers' = Writers /\ t \in SharedHolders
      BY <3>1, <3>2 DEF SharedHolders, Writers
    <3> QED
      BY <3>3 DEF RW!Next, RW!ReleaseShared, SharedHolders, Writers
  <2>6. CASE UnlockSharedCasFails(t)
    <3>1. mode' = mode
      BY <2>6 DEF UnlockSharedCasFails
    <3> QED
      BY <3>1, ModeKept
  <2>7. CASE UnlockSharedWake(t)
    <3>1. mode' = mode
      BY <2>7 DEF UnlockSharedWake
    <3> QED
      BY <3>1, ModeKept
  <2>8. CASE LockLoad(t)
    <3>1. mode' = mode
      BY <2>8 DEF LockLoad
    <3> QED
      BY <3>1, ModeKept
  <2>9. CASE LockCas(t)
    <3> DEFINE f == i[t]
    <3>1. CASE f + 1 < NumEntries
      <4>1. mode' = mode
        BY <2>9, <3>1 DEF LockCas
      <4> QED
        BY <4>1, ModeKept
    <3>2. CASE ~(f + 1 < NumEntries)
      <4>1. f \in Entries /\ val[f] = 0
        BY <2>9, <1>b DEF LockCas, LoadedFits
      <4>a. EntryAccount(f)
        BY <1>c, <4>1
      <4>b. val[f] # W_MASK
        BY <4>1, IncDecInt
      <4>2. (\A u \in Threads : ~Owns(u, f)) /\ Cardinality(ReadersOf(f)) = 0
        BY <4>1, <4>a, <4>b, FreeEntry
      <4>3. ReadersOf(f) = {}
        BY <4>2, ReadersBound, FS_EmptySet
      <4>4. \A e \in Entries : e # f => Owns(t, e)
        <5> SUFFICES ASSUME NEW e \in Entries, e # f PROVE Owns(t, e)
          OBVIOUS
        <5>1. e < f
          <6>1. e \in Nat /\ f \in Nat /\ NumEntries \in Nat /\ e < NumEntries
            BY <4>1, EntryFacts, Constants
          <6> QED
            BY <3>2, <6>1, LastIndex
        <5> QED
          BY <2>9, <5>1 DEF LockCas, Owns
      <4>5. SharedHolders = {}
        <5> SUFFICES ASSUME NEW u \in Threads, mode[u] = "shared" PROVE FALSE
          BY DEF SharedHolders
        <5>1. idx[u] \in Entries /\ u \in ReadersOf(idx[u])
          BY <1>b DEF HasIndex, ReadersOf
        <5> QED
          BY <1>c, <4>3, <4>4, <5>1 DEF EntryAccount
      <4>6. Writers = {}
        BY <4>2 DEF Writers, Owns
      <4>7. mode' = [mode EXCEPT ![t] = "exclusive"]
        BY <2>9, <3>2 DEF LockCas
      <4>8. SharedHolders' = SharedHolders /\ Writers' = {t}
        BY <4>5, <4>6, <4>7 DEF SharedHolders, Writers
      <4> QED
        BY <4>5, <4>6, <4>8 DEF RW!Next, RW!AcquireExclusive, SharedHolders, Writers
    <3> QED
      BY <3>1, <3>2
  <2>10. CASE LockCasFails(t)
    <3>1. mode' = mode
      BY <2>10 DEF LockCasFails
    <3> QED
      BY <3>1, ModeKept
  <2>11. CASE UnlockLoad(t)
    <3>1. mode' = mode
      BY <2>11 DEF UnlockLoad
    <3> QED
      BY <3>1, ModeKept
  <2>12. CASE UnlockCas(t)
    <3>1. mode' = [mode EXCEPT ![t] = "none"]
      BY <2>12 DEF UnlockCas
    <3>2. mode[t] \in {"exclusive", "none"}
      BY <2>12, <1>b DEF UnlockCas, ModeFitsPc
    <3>3. CASE mode[t] = "none"
      <4>1. mode' = mode
        BY <3>1, <3>3
      <4> QED
        BY <4>1, ModeKept
    <3>4. CASE mode[t] = "exclusive"
      <4>1. Writers = {t}
        BY <3>4 DEF MutualExclusion, Writers
      <4>2. SharedHolders' = SharedHolders /\ Writers' = {}
        BY <3>1, <3>4, <4>1 DEF SharedHolders, Writers
      <4> QED
        BY <4>1, <4>2 DEF RW!Next, RW!ReleaseExclusive, SharedHolders, Writers
    <3> QED
      BY <3>2, <3>3, <3>4
  <2>13. CASE UnlockCasFails(t)
    <3>1. mode' = mode
      BY <2>13 DEF UnlockCasFails
    <3> QED
      BY <3>1, ModeKept
  <2>14. CASE UnlockWake(t)
    <3>1. mode' = mode
      BY <2>14 DEF UnlockWake
    <3> QED
      BY <3>1, ModeKept
  <2>15. CASE FutexWait(t)
    <3>1. mode' = mode
      BY <2>15 DEF FutexWait
    <3> QED
      BY <3>1, ModeKept
  <2> QED
    BY <1>5, <2>1, <2>2, <2>3, <2>4, <2>5, <2>6, <2>7, <2>8, <2>9,
       <2>10, <2>11, <2>12, <2>13, <2>14, <2>15 DEF Step
<1>6. ASSUME NEW t \in Threads, Interrupt(t) PROVE [RW!Next]_(RW!vars)
  <2>1. mode' = mode
    BY <1>6 DEF Interrupt
  <2> QED
    BY <2>1, ModeKept
<1>7. CASE UNCHANGED vars
  <2>1. mode' = mode
    BY <1>7 DEF vars
  <2> QED
    BY <2>1, ModeKept
<1> QED
  BY <1>1, <1>2, <1>3, <1>4, <1>5, <1>6, <1>7 DEF Next, Release, Joined

(* SharedMutex implements RWLock (ImplementsRWLock): what the callers see  *)
(* of the array of entries is one reader/writer lock.                      *)
THEOREM Refinement == Spec => ImplementsRWLock
<1>1. Init => RW!Init
  BY DEF Init, RW!Init
<1> QED
  BY <1>1, RefinementStep, Invariance, PTL DEF Spec, RW!Spec, ImplementsRWLock

-----------------------------------------------------------------------------
(* JATC: the inductive invariants of the entrypoint.                       *)

RequestPlaces == {"new", "callback", "lock", "seek", "write", "account",
                  "answer", "notify", "unlock", "leave", "done"}

FilterPlaces == {"idle", "read_lock", "test", "asleep", "release", "stream", "seek", "read",
                 "count", "write_lock", "rewrite", "account", "notify", "unlock"}

FilterPending == fpc \in {"write_lock", "rewrite", "account"}

PendingRequests ==
  {r \in Requests : rpc[r] \in {"callback", "lock", "seek", "write", "account"}}

CountInv ==
  /\ rpc \in [Requests -> RequestPlaces]
  /\ fpc \in FilterPlaces
  /\ op_count = Cardinality(PendingRequests) + (IF FilterPending THEN 1 ELSE 0)

(* Who holds the lock exclusively, and who shared.                         *)
RequestOwns(r) ==
  rpc[r] \in {"seek", "write", "account", "answer", "notify", "unlock"}

FilterOwns == fpc \in {"rewrite", "account", "notify", "unlock"}

DeregOwns == dereg \in {"test", "close", "unlock"}

Owned == (\E r \in Requests : RequestOwns(r)) \/ FilterOwns \/ DeregOwns

Sharers == {t \in Readers : tpc[t] \in {"test", "seek", "read", "unlock"}}

FilterShares == fpc \in {"test", "release"}

LockFits ==
  /\ \A r, s \in Requests : RequestOwns(r) /\ RequestOwns(s) => r = s
  /\ \A r \in Requests : RequestOwns(r) => ~FilterOwns /\ ~DeregOwns
  /\ ~(FilterOwns /\ DeregOwns)
  /\ Owned => lock = LOCK_W_MASK /\ Sharers = {} /\ ~FilterShares
  /\ ~Owned => lock = Cardinality(Sharers) + (IF FilterShares THEN 1 ELSE 0)

(* A deregistration starts when no call is under way, and goes on when     *)
(* every request has given its lock back.                                  *)
DeregFits ==
  /\ dereg # "idle" => (\A t \in Readers : tpc[t] = "idle") /\ fpc = "idle"
  /\ dereg \in {"close", "unlock", "free", "freed"} =>
       \A r \in Requests : rpc[r] \in {"new", "leave", "done"}

(* A reader reads a request's entry, and a filter one of those it lists.   *)
CallsFit ==
  /\ \A t \in Readers : tpc[t] # "idle" => target[t] \in Requests
  /\ fpc = "read" => Len(buffers) < Len(entries)

JatcInv == JatcTypeOK /\ CountInv /\ LockFits /\ DeregFits /\ CallsFit

(* The places of a filter until it closes the stream.                      *)
Gathering ==
  fpc \in {"read_lock", "test", "asleep", "release", "stream", "seek", "read"}

Indexed(r) == index[r] # NoEntry

Listed(r) == \E k \in DOMAIN entries : entries[k] = r

Rewritten(r) == \E k \in DOMAIN buffers : buffers[k].of = r

(* The cell the index gives for a request is the one it wrote, and a       *)
(* filter gathers the cells of all requests that keep their entry.         *)
FileFits ==
  /\ dereg # "freed" =>
       \A r \in Requests : Indexed(r) => index[r] < Len(file) /\ file[index[r] + 1] = r
  /\ \A r \in Requests : rpc[r] = "write" =>
       open /\ file # <<>> /\ offset[r] = Len(file) /\ cursor = Len(file)
  /\ \A k \in DOMAIN buffers : buffers[k].data = buffers[k].of
  /\ fpc \in {"count", "write_lock", "rewrite"} /\ ~open =>
       \A r \in Requests : Indexed(r) => Rewritten(r)
  /\ \A t \in Readers : tpc[t] # "idle" => Indexed(target[t])

GatherFits ==
  /\ Gathering => \A r \in Requests : Indexed(r) <=> Listed(r)
  /\ Gathering => \A k \in DOMAIN buffers : k \in DOMAIN entries /\ buffers[k].of = entries[k]
  /\ fpc = "read" => cursor = index[entries[Len(buffers) + 1]]
  /\ fpc \in {"idle", "read_lock", "test", "asleep", "release", "stream"} => buffers = <<>>

AloneInv == JatcInv /\ FilterAlone /\ FileFits /\ GatherFits

(* A reader about to read finds the stream where it has put it.            *)
CursorFits ==
  \A t \in Readers : tpc[t] = "read" => cursor = index[target[t]]

OneReader == \A t, u \in Readers : t = u

JatcStep == JatcNext \/ UNCHANGED jvars

FailingStep == (JatcNext \/ \E r \in Requests : RequestFails(r)) \/ UNCHANGED jvars

AloneStep == JatcStep /\ FilterAlone'

-----------------------------------------------------------------------------
(* op_count, whatever the lock is worth.                                   *)

USE DEF jvars, fd_vars, request_vars, reader_vars, filter_vars

(* The actions with more than one way to go, or to leave: where they go,   *)
(* and what they leave alone.                                              *)

(* A request whose stream fails goes on to account for its error.           *)
LEMMA WriteFailsMoves ==
  ASSUME NEW r \in Requests, WriteFails(r)
  PROVE  /\ rpc[r] \in {"seek", "write"} /\ rpc' = [rpc EXCEPT ![r] = "account"]
         /\ state' = [state EXCEPT ![r] = "error"]
         /\ UNCHANGED <<lock, op_count, fd_vars, index, offset, reader_vars, filter_vars, dereg>>
  BY DEF WriteFails, RequestAt

(* A read whose stream fails goes on to give up the lock.                  *)
LEMMA ReadFailsMoves ==
  ASSUME NEW t \in Readers, ReadFails(t)
  PROVE  /\ tpc[t] \in {"seek", "read"} /\ tpc' = [tpc EXCEPT ![t] = "unlock"]
         /\ result' = [result EXCEPT ![t] = "failed"]
         /\ UNCHANGED <<lock, op_count, fd_vars, index, request_vars, target, filter_vars, dereg>>
  BY DEF ReadFails, ReaderAt

(* A reader that tests op_count goes on, or gives up its share and sleeps. *)
LEMMA ReadTestMoves ==
  ASSUME NEW t \in Readers, ReadTest(t)
  PROVE  /\ tpc[t] = "test"
         /\ \/ tpc' = [tpc EXCEPT ![t] = "seek"] /\ lock' = lock
            \/ tpc' = [tpc EXCEPT ![t] = "asleep"] /\ lock' = lock - 1
         /\ UNCHANGED <<op_count, fd_vars, index, request_vars, target, result, filter_vars, dereg>>
  BY DEF ReadTest, ReaderAt, RemoveReader

(* A filter that tests op_count goes on, or gives up its share and sleeps. *)
LEMMA FilterTestMoves ==
  ASSUME FilterTest
  PROVE  /\ fpc = "test"
         /\ \/ op_count = 0 /\ fpc' = "release" /\ lock' = lock
            \/ fpc' = "asleep" /\ lock' = lock - 1
         /\ UNCHANGED <<op_count, fd_vars, index, request_vars, reader_vars, entries, buffers, filters, dereg>>
  BY DEF FilterTest, FilterAt, RemoveReader

(* A filter whose stream fails ends, with nothing gathered.                 *)
LEMMA FilterFailsMoves ==
  ASSUME FilterFails
  PROVE  /\ fpc \in {"stream", "read"} /\ fpc' = "idle" /\ entries' = <<>> /\ buffers' = <<>>
         /\ UNCHANGED <<lock, op_count, fd_vars, index, request_vars, reader_vars, filters, dereg>>
  BY DEF FilterFails, FilterAt

(* A deregistration finds op_count 0, or gives up the lock and sleeps.      *)
LEMMA DeregTestMoves ==
  ASSUME DeregTest
  PROVE  /\ dereg = "test"
         /\ \/ op_count = 0 /\ dereg' = "close" /\ lock' = lock
            \/ dereg' = "asleep" /\ lock' = 0
         /\ UNCHANGED <<op_count, fd_vars, index, request_vars, reader_vars, filter_vars>>
  BY DEF DeregTest, DeregAt, UnlockExclusive

(* A sleeper that wakes for no reason goes for the lock again.             *)
LEMMA SpuriousWakeMoves ==
  ASSUME SpuriousWake
  PROVE  /\ \/ \E t \in Readers : /\ tpc[t] = "asleep" /\ tpc' = [tpc EXCEPT ![t] = "lock"]
                                  /\ UNCHANGED <<dereg, fpc>>
            \/ dereg = "asleep" /\ dereg' = "lock" /\ UNCHANGED <<tpc, fpc>>
            \/ fpc = "asleep" /\ fpc' = "read_lock" /\ UNCHANGED <<tpc, dereg>>
         /\ UNCHANGED <<lock, op_count, fd_vars, index, request_vars, target, result,
                        entries, buffers, filters>>
  BY DEF SpuriousWake, ReaderAt, DeregAt, FilterAt

(* A request that is pending is counted.                                   *)
LEMMA PendingCounted ==
  /\ IsFiniteSet(PendingRequests)
  /\ Cardinality(PendingRequests) \in Nat
  /\ Cardinality(PendingRequests) = 0 <=> PendingRequests = {}
<1>1. PendingRequests \subseteq Requests
  BY DEF PendingRequests
<1>2. IsFiniteSet(PendingRequests)
  BY <1>1, JatcAssumption, FS_Subset
<1> QED
  BY <1>2, FS_CardinalityType, FS_EmptySet

(* op_count is a number, and 0 only when nothing is pending.               *)
LEMMA CountFacts ==
  ASSUME CountInv
  PROVE  /\ op_count \in Nat
         /\ op_count = 0 => PendingRequests = {} /\ ~FilterPending
         /\ PendingRequests # {} => op_count - 1 \in Nat
         /\ FilterPending => op_count - 1 \in Nat
<1>1. CASE FilterPending
  <2>1. op_count = Cardinality(PendingRequests) + 1
    BY <1>1 DEF CountInv
  <2> QED
    BY <1>1, <2>1, PendingCounted
<1>2. CASE ~FilterPending
  <2>1. op_count = Cardinality(PendingRequests) + 0
    BY <1>2 DEF CountInv
  <2> QED
    BY <1>2, <2>1, PendingCounted
<1> QED
  BY <1>1, <1>2

(* Nothing is pending at the start.                                        *)
LEMMA CountInvInit == JatcInit => CountInv
<1> SUFFICES ASSUME JatcInit PROVE CountInv
  OBVIOUS
<1>1. PendingRequests = {}
  BY DEF JatcInit, PendingRequests
<1>2. Cardinality(PendingRequests) = 0
  BY <1>1, PendingCounted
<1> QED
  BY <1>2 DEF JatcInit, CountInv, RequestPlaces, FilterPlaces, FilterPending

(* Every step that moves a request in or out of the pending places counts  *)
(* it, and so does the rewrite.                                            *)
LEMMA CountInvStep == CountInv /\ FailingStep => CountInv'
<1> SUFFICES ASSUME CountInv, FailingStep PROVE CountInv'
  OBVIOUS
<1>a. rpc \in [Requests -> RequestPlaces] /\ fpc \in FilterPlaces
  BY DEF CountInv
<1>b. Cardinality(PendingRequests) \in Nat /\ IsFiniteSet(PendingRequests)
  BY PendingCounted
<1>c. op_count \in Nat
  BY CountFacts
<1>1. ASSUME NEW r \in Requests, AddRequest(r) PROVE CountInv'
  <2>1. PendingRequests' = PendingRequests \cup {r} /\ r \notin PendingRequests
    BY <1>1, <1>a DEF AddRequest, RequestAt, PendingRequests, RequestPlaces
  <2>2. Cardinality(PendingRequests') = Cardinality(PendingRequests) + 1
    BY <2>1, <1>b, FS_AddElement
  <2>3. op_count' = op_count + 1 /\ UNCHANGED fpc /\ rpc' \in [Requests -> RequestPlaces]
    BY <1>1, <1>a DEF AddRequest, RequestAt, RequestPlaces
  <2> QED
    BY <2>2, <2>3, <1>b DEF CountInv, FilterPending
<1>2. ASSUME NEW r \in Requests, WriteCallback(r) PROVE CountInv'
  BY <1>2, <1>a, <1>b
     DEF WriteCallback, RequestAt, CountInv, PendingRequests, RequestPlaces,
         FilterPlaces, FilterPending
<1>3. ASSUME NEW r \in Requests, RequestLock(r) PROVE CountInv'
  BY <1>3, <1>a, <1>b
     DEF RequestLock, RequestAt, LockExclusive, CountInv, PendingRequests,
         RequestPlaces, FilterPlaces, FilterPending
<1>4. ASSUME NEW r \in Requests, WriteSeek(r) PROVE CountInv'
  BY <1>4, <1>a, <1>b
     DEF WriteSeek, RequestAt, GetFileStream, CountInv, PendingRequests,
         RequestPlaces, FilterPlaces, FilterPending
<1>5. ASSUME NEW r \in Requests, WriteData(r) PROVE CountInv'
  BY <1>5, <1>a, <1>b
     DEF WriteData, RequestAt, CountInv, PendingRequests, RequestPlaces,
         FilterPlaces, FilterPending
<1>6. ASSUME NEW r \in Requests, WriteFails(r) PROVE CountInv'
  BY <1>6, <1>a, <1>b, WriteFailsMoves
     DEF CountInv, PendingRequests, RequestPlaces, FilterPlaces, FilterPending
<1>7. ASSUME NEW r \in Requests, Account(r) PROVE CountInv'
  <2>1. PendingRequests' = PendingRequests \ {r} /\ r \in PendingRequests
    BY <1>7, <1>a DEF Account, RequestAt, PendingRequests, RequestPlaces
  <2>2. Cardinality(PendingRequests') = Cardinality(PendingRequests) - 1
    BY <2>1, <1>b, FS_RemoveElement
  <2>3. op_count' = op_count - 1 /\ UNCHANGED fpc /\ rpc' \in [Requests -> RequestPlaces]
    BY <1>7, <1>a DEF Account, RequestAt, RequestPlaces
  <2> QED
    BY <2>2, <2>3, <1>b DEF CountInv, FilterPending
<1>8. ASSUME NEW r \in Requests, Answer(r) PROVE CountInv'
  BY <1>8, <1>a, <1>b
     DEF Answer, RequestAt, CountInv, PendingRequests, RequestPlaces,
         FilterPlaces, FilterPending
<1>9. ASSUME NEW r \in Requests, RequestNotify(r) PROVE CountInv'
  BY <1>9, <1>a, <1>b
     DEF RequestNotify, RequestAt, NotifyReaders, NotifyFilter, NotifyDereg,
         CountInv, PendingRequests, RequestPlaces, FilterPlaces, FilterPending
<1>10. ASSUME NEW r \in Requests, RequestUnlock(r) PROVE CountInv'
  BY <1>10, <1>a, <1>b
     DEF RequestUnlock, RequestAt, UnlockExclusive, CountInv, PendingRequests,
         RequestPlaces, FilterPlaces, FilterPending
<1>11. ASSUME NEW r \in Requests, RequestLeave(r) PROVE CountInv'
  BY <1>11, <1>a, <1>b
     DEF RequestLeave, RequestAt, CountInv, PendingRequests, RequestPlaces,
         FilterPlaces, FilterPending
<1>12. ASSUME NEW r \in Requests, RequestFails(r) PROVE CountInv'
  BY <1>12, <1>a, <1>b
     DEF RequestFails, RequestAt, CountInv, PendingRequests, RequestPlaces,
         FilterPlaces, FilterPending
<1>13. ASSUME NEW t \in Readers, NEW r \in Requests, ReadBegin(t, r)
       PROVE  CountInv'
  BY <1>13, <1>a, <1>b
     DEF ReadBegin, ReaderAt, HasEntry, CountInv, PendingRequests,
         RequestPlaces, FilterPlaces, FilterPending
<1>14. ASSUME NEW t \in Readers, ReadLock(t) PROVE CountInv'
  BY <1>14, <1>a, <1>b
     DEF ReadLock, ReaderAt, AddReader, CountInv, PendingRequests,
         RequestPlaces, FilterPlaces, FilterPending
<1>15. ASSUME NEW t \in Readers, ReadTest(t) PROVE CountInv'
  BY <1>15, <1>a, <1>b, ReadTestMoves
     DEF CountInv, PendingRequests, RequestPlaces, FilterPlaces, FilterPending
<1>16. ASSUME NEW t \in Readers, ReadSeek(t) PROVE CountInv'
  BY <1>16, <1>a, <1>b
     DEF ReadSeek, ReaderAt, GetFileStream, CountInv, PendingRequests,
         RequestPlaces, FilterPlaces, FilterPending
<1>17. ASSUME NEW t \in Readers, ReadData(t) PROVE CountInv'
  BY <1>17, <1>a, <1>b
     DEF ReadData, ReaderAt, CountInv, PendingRequests, RequestPlaces,
         FilterPlaces, FilterPending
<1>18. ASSUME NEW t \in Readers, ReadFails(t) PROVE CountInv'
  BY <1>18, <1>a, <1>b, ReadFailsMoves
     DEF CountInv, PendingRequests, RequestPlaces, FilterPlaces, FilterPending
<1>19. ASSUME NEW t \in Readers, ReadUnlock(t) PROVE CountInv'
  BY <1>19, <1>a, <1>b
     DEF ReadUnlock, ReaderAt, RemoveReader, CountInv, PendingRequests,
         RequestPlaces, FilterPlaces, FilterPending
<1>20. ASSUME NEW kept \in {s \in Orders : IsInjective(s)}, FilterBegin(kept)
       PROVE  CountInv'
  BY <1>20, <1>a, <1>b
     DEF FilterBegin, FilterAt, HasEntry, CountInv, PendingRequests,
         RequestPlaces, FilterPlaces, FilterPending
<1>21. ASSUME FilterReadLock PROVE CountInv'
  BY <1>21, <1>a, <1>b
     DEF FilterReadLock, FilterAt, AddReader, CountInv, PendingRequests,
         RequestPlaces, FilterPlaces, FilterPending
<1>22. ASSUME FilterTest PROVE CountInv'
  BY <1>22, <1>a, <1>b, FilterTestMoves
     DEF CountInv, PendingRequests, RequestPlaces, FilterPlaces, FilterPending
<1>23. ASSUME FilterRelease PROVE CountInv'
  BY <1>23, <1>a, <1>b
     DEF FilterRelease, FilterAt, RemoveReader, CountInv, PendingRequests,
         RequestPlaces, FilterPlaces, FilterPending
<1>24. ASSUME FilterStream PROVE CountInv'
  BY <1>24, <1>a, <1>b
     DEF FilterStream, FilterAt, GetFileStream, CountInv, PendingRequests,
         RequestPlaces, FilterPlaces, FilterPending
<1>25. ASSUME FilterSeek PROVE CountInv'
  BY <1>25, <1>a, <1>b
     DEF FilterSeek, FilterAt, CountInv, PendingRequests, RequestPlaces,
         FilterPlaces, FilterPending
<1>26. ASSUME FilterRead PROVE CountInv'
  BY <1>26, <1>a, <1>b
     DEF FilterRead, FilterAt, CountInv, PendingRequests, RequestPlaces,
         FilterPlaces, FilterPending
<1>27. ASSUME FilterFails PROVE CountInv'
  BY <1>27, <1>a, <1>b, FilterFailsMoves
     DEF CountInv, PendingRequests, RequestPlaces, FilterPlaces, FilterPending
<1>28. ASSUME FilterClose PROVE CountInv'
  BY <1>28, <1>a, <1>b
     DEF FilterClose, FilterAt, CountInv, PendingRequests, RequestPlaces,
         FilterPlaces, FilterPending
<1>29. ASSUME FilterCount PROVE CountInv'
  BY <1>29, <1>a, <1>b
     DEF FilterCount, FilterAt, CountInv, PendingRequests, RequestPlaces,
         FilterPlaces, FilterPending
<1>30. ASSUME FilterLock PROVE CountInv'
  BY <1>30, <1>a, <1>b
     DEF FilterLock, FilterAt, LockExclusive, CountInv, PendingRequests,
         RequestPlaces, FilterPlaces, FilterPending
<1>31. ASSUME FilterRewrite PROVE CountInv'
  BY <1>31, <1>a, <1>b
     DEF FilterRewrite, FilterAt, CountInv, PendingRequests, RequestPlaces,
         FilterPlaces, FilterPending
<1>32. ASSUME FilterAccount PROVE CountInv'
  BY <1>32, <1>a, <1>b
     DEF FilterAccount, FilterAt, CountInv, PendingRequests, RequestPlaces,
         FilterPlaces, FilterPending
<1>33. ASSUME FilterNotify PROVE CountInv'
  BY <1>33, <1>a, <1>b
     DEF FilterNotify, FilterAt, NotifyReaders, NotifyDereg, CountInv,
         PendingRequests, RequestPlaces, FilterPlaces, FilterPending
<1>34. ASSUME FilterUnlock PROVE CountInv'
  BY <1>34, <1>a, <1>b
     DEF FilterUnlock, FilterAt, UnlockExclusive, CountInv, PendingRequests,
         RequestPlaces, FilterPlaces, FilterPending
<1>35. ASSUME Deregister PROVE CountInv'
  BY <1>35, <1>a, <1>b
     DEF Deregister, DeregAt, CountInv, PendingRequests, RequestPlaces,
         FilterPlaces, FilterPending
<1>36. ASSUME DeregLock PROVE CountInv'
  BY <1>36, <1>a, <1>b
     DEF DeregLock, DeregAt, LockExclusive, CountInv, PendingRequests,
         RequestPlaces, FilterPlaces, FilterPending
<1>37. ASSUME DeregTest PROVE CountInv'
  BY <1>37, <1>a, <1>b, DeregTestMoves
     DEF CountInv, PendingRequests, RequestPlaces, FilterPlaces, FilterPending
<1>38. ASSUME DeregClose PROVE CountInv'
  BY <1>38, <1>a, <1>b
     DEF DeregClose, DeregAt, CountInv, PendingRequests, RequestPlaces,
         FilterPlaces, FilterPending
<1>39. ASSUME DeregUnlock PROVE CountInv'
  BY <1>39, <1>a, <1>b
     DEF DeregUnlock, DeregAt, UnlockExclusive, CountInv, PendingRequests,
         RequestPlaces, FilterPlaces, FilterPending
<1>40. ASSUME DeregFree PROVE CountInv'
  BY <1>40, <1>a, <1>b
     DEF DeregFree, DeregAt, CountInv, PendingRequests, RequestPlaces,
         FilterPlaces, FilterPending
<1>41. ASSUME SpuriousWake PROVE CountInv'
  BY <1>41, <1>a, <1>b, SpuriousWakeMoves
     DEF CountInv, PendingRequests, RequestPlaces, FilterPlaces, FilterPending
<1>42. ASSUME UNCHANGED jvars PROVE CountInv'
  BY <1>42, <1>a, <1>b
     DEF CountInv, PendingRequests, RequestPlaces, FilterPlaces, FilterPending
<1> QED
  BY <1>1, <1>2, <1>3, <1>4, <1>5, <1>6, <1>7, <1>8, <1>9, <1>10, <1>11, <1>12,
     <1>13, <1>14, <1>15, <1>16, <1>17, <1>18, <1>19, <1>20, <1>21, <1>22,
     <1>23, <1>24, <1>25, <1>26, <1>27, <1>28, <1>29, <1>30, <1>31, <1>32,
     <1>33, <1>34, <1>35, <1>36, <1>37, <1>38, <1>39, <1>40, <1>41, <1>42
     DEF FailingStep, JatcNext, Request, Read, Filter, Deregistration, Terminated

-----------------------------------------------------------------------------
(* Facts about sequences.                                                  *)

Cells == Requests \cup {Header}

Buffers == [of : Requests, data : Requests \cup {Header}]

(* The journal, once it is open, has its header and what it had.           *)
LEMMA OpenedFacts ==
  ASSUME file \in Seq(Cells)
  PROVE  /\ Len(file) \in Nat
         /\ Opened \in Seq(Cells) /\ Len(Opened) \in Nat \ {0}
         /\ Opened # <<>>
         /\ Len(file) # 0 => Opened = file
<1>1. Len(file) \in Nat /\ (file # <<>> => Len(file) \in Nat \ {0}) /\ Len(<<>>) = 0
  BY EmptySeq, LenProperties
<1>2. CASE file = <<>>
  <2>1. /\ <<Header>> \in Seq(Cells) /\ Len(<<Header>>) = 1
    BY DEF Cells
  <2> QED
    BY <1>1, <1>2, <2>1 DEF Opened
<1>3. CASE file # <<>>
  BY <1>1, <1>3 DEF Opened
<1> QED
  BY <1>2, <1>3

(* An entry at the end of the journal leaves the others where they are.    *)
LEMMA WrittenFacts ==
  ASSUME file \in Seq(Cells), NEW r \in Requests
  PROVE  /\ Append(file, r) \in Seq(Cells) /\ Append(file, r) # <<>>
         /\ Len(file) \in Nat
         /\ Len(Append(file, r)) = Len(file) + 1
         /\ \A k \in 0 .. Len(file) - 1 : Append(file, r)[k + 1] = file[k + 1]
         /\ Append(file, r)[Len(file) + 1] = r
<1>1. r \in Cells /\ Len(file) \in Nat
  BY LenProperties DEF Cells
<1>2. /\ Append(file, r) \in Seq(Cells) /\ Append(file, r) # <<>>
      /\ Len(Append(file, r)) = Len(file) + 1
      /\ \A k \in 1 .. Len(file) : Append(file, r)[k] = file[k]
      /\ Append(file, r)[Len(file) + 1] = r
  BY <1>1, AppendProperties
<1>3. ASSUME NEW k \in 0 .. Len(file) - 1
      PROVE  Append(file, r)[k + 1] = file[k + 1]
  <2>1. k + 1 \in 1 .. Len(file)
    BY <1>1, <1>3
  <2> QED
    BY <1>2, <2>1
<1> QED
  BY <1>1, <1>2, <1>3

(* The rewritten journal has the buffers behind its header, in their order.*)
LEMMA RewrittenFacts ==
  ASSUME buffers \in Seq(Buffers)
  PROVE  LET new == <<Header>> \o [k \in DOMAIN buffers |-> buffers[k].data]
         IN  /\ Len(buffers) \in Nat /\ DOMAIN buffers = 1 .. Len(buffers)
             /\ new \in Seq(Cells) /\ Len(new) = Len(buffers) + 1
             /\ \A k \in DOMAIN buffers :
                  /\ buffers[k] \in Buffers
                  /\ k \in Nat \ {0} /\ k < Len(new) /\ new[k + 1] = buffers[k].data
<1> DEFINE moved == [k \in DOMAIN buffers |-> buffers[k].data]
           new == <<Header>> \o moved
<1>1. Len(buffers) \in Nat /\ DOMAIN buffers = 1 .. Len(buffers)
  BY LenProperties
<1>2. \A k \in DOMAIN buffers : buffers[k] \in Buffers
  BY <1>1, ElementOfSeq
<1>3. \A k \in DOMAIN buffers : buffers[k].data \in Cells
  BY <1>2 DEF Buffers, Cells
<1>4. moved \in [1 .. Len(buffers) -> Cells]
  BY <1>1, <1>3
<1>5. moved \in Seq(Cells)
  BY <1>1, <1>4, SeqDef
<1>6. Len(moved) = Len(buffers)
  BY <1>1, <1>4, <1>5, LenProperties
<1>7. <<Header>> \in Seq(Cells) /\ Len(<<Header>>) = 1 /\ <<Header>>[1] = Header
  BY DEF Cells
<1> HIDE DEF moved
<1>8. /\ new \in Seq(Cells) /\ Len(new) = 1 + Len(buffers)
      /\ \A k \in 1 .. 1 + Len(buffers) :
           new[k] = IF k <= 1 THEN <<Header>>[k] ELSE moved[k - 1]
  BY <1>5, <1>6, <1>7, ConcatProperties
<1> HIDE DEF new
<1>9. ASSUME NEW k \in DOMAIN buffers
      PROVE  k \in Nat \ {0} /\ k < Len(new) /\ new[k + 1] = buffers[k].data
  <2>1. k \in Nat \ {0} /\ k <= Len(buffers) /\ k + 1 \in 1 .. 1 + Len(buffers)
    BY <1>1, <1>9
  <2>2. new[k + 1] = moved[k + 1 - 1] /\ k + 1 - 1 = k
    BY <1>8, <2>1
  <2>3. moved[k] = buffers[k].data
    BY <1>9 DEF moved
  <2> QED
    BY <1>1, <1>8, <2>1, <2>2, <2>3
<1>10. new = <<Header>> \o [k \in DOMAIN buffers |-> buffers[k].data]
  BY DEF new, moved
<1> QED
  BY <1>1, <1>2, <1>8, <1>9, <1>10

(* What a filter keeps is a list of requests that were written.            *)
LEMMA KeptFacts ==
  ASSUME NEW kept \in Orders
  PROVE  /\ kept \in Seq(Requests)
         /\ Len(kept) \in Nat /\ DOMAIN kept = 1 .. Len(kept)
         /\ \A k \in DOMAIN kept : kept[k] \in Requests
<1>1. PICK n \in 0 .. Cardinality(Requests) : kept \in [1 .. n -> Requests]
  BY DEF Orders
<1>2. Cardinality(Requests) \in Nat
  BY JatcAssumption, FS_CardinalityType
<1>3. n \in Nat
  BY <1>1, <1>2
<1>4. kept \in Seq(Requests)
  BY <1>1, <1>3, SeqDef
<1> QED
  BY <1>1, <1>4, LenProperties

(* There is a cell where the stream is, short of the end of the journal.   *)
LEMMA CellFacts ==
  ASSUME file \in Seq(Cells), cursor \in Nat, cursor < Len(file)
  PROVE  cursor + 1 \in 1 .. Len(file) /\ file[cursor + 1] \in Cells
<1>1. Len(file) \in Nat
  BY LenProperties
<1>2. cursor + 1 \in 1 .. Len(file)
  BY <1>1
<1> QED
  BY <1>2, ElementOfSeq

(* The next entry of a filter's list is one of its requests.               *)
LEMMA NextListed ==
  ASSUME entries \in Seq(Requests), buffers \in Seq(Buffers),
         Len(buffers) < Len(entries)
  PROVE  /\ Len(buffers) + 1 \in DOMAIN entries
         /\ entries[Len(buffers) + 1] \in Requests
<1>1. /\ Len(buffers) \in Nat /\ Len(entries) \in Nat
      /\ DOMAIN entries = 1 .. Len(entries)
  BY LenProperties
<1>2. Len(buffers) + 1 \in 1 .. Len(entries)
  BY <1>1
<1> QED
  BY <1>1, <1>2, ElementOfSeq

(* A cell that is written over leaves a journal.                           *)
LEMMA OverwrittenFacts ==
  ASSUME file \in Seq(Cells), cursor \in Nat, cursor < Len(file), NEW r \in Requests
  PROVE  [file EXCEPT ![cursor + 1] = r] \in Seq(Cells)
<1>1. cursor + 1 \in 1 .. Len(file) /\ r \in Cells
  BY CellFacts DEF Cells
<1> QED
  BY <1>1, ExceptSeq

-----------------------------------------------------------------------------
(* The types.                                                              *)

(* Every step keeps the variables in their types.                          *)
LEMMA JatcTypeStep == JatcInv /\ JatcStep => JatcTypeOK'
<1> SUFFICES ASSUME JatcInv, JatcStep PROVE JatcTypeOK'
  OBVIOUS
<1>t. JatcTypeOK /\ CallsFit
  BY DEF JatcInv
<1>c. CountInv
  BY DEF JatcInv
<1>f. file \in Seq(Cells) /\ buffers \in Seq(Buffers)
  BY <1>t DEF JatcTypeOK, Cells, Buffers
<1>o. Opened \in Seq(Requests \cup {Header}) /\ Len(Opened) \in Nat
  BY <1>f, OpenedFacts DEF Cells
<1>e. /\ <<>> \in Seq(Requests \cup {Header}) /\ <<>> \in Seq(Requests)
      /\ <<>> \in Seq([of : Requests, data : Requests \cup {Header}])
  BY EmptySeq
<1>m. LOCK_W_MASK \in Int /\ NoEntry \in Nat
  BY DEF LOCK_W_MASK, NoEntry
<1>1. ASSUME NEW r \in Requests, AddRequest(r) PROVE JatcTypeOK'
  BY <1>1, <1>t, <1>o, <1>e, <1>m DEF AddRequest, RequestAt, JatcTypeOK
<1>2. ASSUME NEW r \in Requests, WriteCallback(r) PROVE JatcTypeOK'
  BY <1>2, <1>t, <1>o, <1>e, <1>m DEF WriteCallback, RequestAt, JatcTypeOK
<1>3. ASSUME NEW r \in Requests, RequestLock(r) PROVE JatcTypeOK'
  BY <1>3, <1>t, <1>o, <1>e, <1>m
     DEF RequestLock, RequestAt, LockExclusive, JatcTypeOK
<1>4. ASSUME NEW r \in Requests, WriteSeek(r) PROVE JatcTypeOK'
  BY <1>4, <1>t, <1>o, <1>e, <1>m
     DEF WriteSeek, RequestAt, GetFileStream, JatcTypeOK
<1>5. ASSUME NEW r \in Requests, WriteData(r) PROVE JatcTypeOK'
  <2>1. CASE app \/ cursor >= Len(file)
    <3>1. Append(file, r) \in Seq(Requests \cup {Header}) /\ Len(file) + 1 \in Nat
      BY <1>f, WrittenFacts DEF Cells
    <3> QED
      BY <1>5, <1>t, <2>1, <3>1 DEF WriteData, RequestAt, JatcTypeOK
  <2>2. CASE ~(app \/ cursor >= Len(file))
    <3>1. [file EXCEPT ![cursor + 1] = r] \in Seq(Requests \cup {Header})
      BY <1>f, <1>t, <2>2, OverwrittenFacts DEF Cells, JatcTypeOK
    <3>2. /\ rpc' = [rpc EXCEPT ![r] = "account"] /\ state' = [state EXCEPT ![r] = "success"]
          /\ index' = [index EXCEPT ![r] = offset[r]]
          /\ file' = [file EXCEPT ![cursor + 1] = r] /\ cursor' = cursor + 1
          /\ UNCHANGED <<lock, op_count, open, app, offset, reader_vars, filter_vars, dereg>>
      BY <1>5, <2>2 DEF WriteData, RequestAt
    <3> QED
      BY <1>t, <3>1, <3>2 DEF JatcTypeOK
  <2> QED
    BY <2>1, <2>2
<1>6. ASSUME NEW r \in Requests, WriteFails(r) PROVE JatcTypeOK'
  <2>1. /\ rpc' = [rpc EXCEPT ![r] = "account"] /\ state' = [state EXCEPT ![r] = "error"]
        /\ UNCHANGED <<lock, op_count, fd_vars, index, offset, reader_vars, filter_vars, dereg>>
    BY <1>6, WriteFailsMoves
  <2> QED
    BY <1>t, <2>1 DEF JatcTypeOK
<1>7. ASSUME NEW r \in Requests, Account(r) PROVE JatcTypeOK'
  <2>1. r \in PendingRequests
    BY <1>7 DEF Account, RequestAt, PendingRequests
  <2>2. op_count - 1 \in Nat
    BY <1>c, <2>1, CountFacts
  <2> QED
    BY <1>7, <1>t, <2>2 DEF Account, RequestAt, JatcTypeOK
<1>8. ASSUME NEW r \in Requests, Answer(r) PROVE JatcTypeOK'
  BY <1>8, <1>t, <1>o, <1>e, <1>m DEF Answer, RequestAt, JatcTypeOK
<1>9. ASSUME NEW r \in Requests, RequestNotify(r) PROVE JatcTypeOK'
  BY <1>9, <1>t, <1>o, <1>e, <1>m
     DEF RequestNotify, RequestAt, NotifyReaders, NotifyFilter, NotifyDereg,
         JatcTypeOK
<1>10. ASSUME NEW r \in Requests, RequestUnlock(r) PROVE JatcTypeOK'
  BY <1>10, <1>t, <1>o, <1>e, <1>m
     DEF RequestUnlock, RequestAt, UnlockExclusive, JatcTypeOK
<1>11. ASSUME NEW r \in Requests, RequestLeave(r) PROVE JatcTypeOK'
  BY <1>11, <1>t, <1>o, <1>e, <1>m DEF RequestLeave, RequestAt, JatcTypeOK
<1>12. ASSUME NEW t \in Readers, NEW r \in Requests, ReadBegin(t, r)
       PROVE  JatcTypeOK'
  BY <1>12, <1>t, <1>o, <1>e, <1>m
     DEF ReadBegin, ReaderAt, HasEntry, JatcTypeOK
<1>13. ASSUME NEW t \in Readers, ReadLock(t) PROVE JatcTypeOK'
  BY <1>13, <1>t, <1>o, <1>e, <1>m
     DEF ReadLock, ReaderAt, AddReader, JatcTypeOK
<1>14. ASSUME NEW t \in Readers, ReadTest(t) PROVE JatcTypeOK'
  <2>1. /\ tpc' = [tpc EXCEPT ![t] = "seek"] \/ tpc' = [tpc EXCEPT ![t] = "asleep"]
        /\ UNCHANGED <<op_count, fd_vars, index, request_vars, target, result, filter_vars, dereg>>
    BY <1>14, ReadTestMoves
  <2>2. lock' \in Int
    <3>1. lock' = lock \/ lock' = lock - 1
      BY <1>14, ReadTestMoves
    <3> QED
      BY <1>t, <3>1 DEF JatcTypeOK
  <2>3. CASE tpc' = [tpc EXCEPT ![t] = "seek"]
    BY <1>t, <2>1, <2>2, <2>3 DEF JatcTypeOK
  <2>4. CASE tpc' = [tpc EXCEPT ![t] = "asleep"]
    BY <1>t, <2>1, <2>2, <2>4 DEF JatcTypeOK
  <2> QED
    BY <2>1, <2>3, <2>4
<1>15. ASSUME NEW t \in Readers, ReadSeek(t) PROVE JatcTypeOK'
  <2>1. target[t] \in Requests
    BY <1>15, <1>t DEF ReadSeek, ReaderAt, CallsFit
  <2> QED
    BY <1>15, <1>t, <1>o, <2>1 DEF ReadSeek, ReaderAt, GetFileStream, JatcTypeOK
<1>16. ASSUME NEW t \in Readers, ReadData(t) PROVE JatcTypeOK'
  BY <1>16, <1>t, <1>o, <1>e, <1>m DEF ReadData, ReaderAt, JatcTypeOK
<1>17. ASSUME NEW t \in Readers, ReadFails(t) PROVE JatcTypeOK'
  <2>1. /\ tpc' = [tpc EXCEPT ![t] = "unlock"] /\ result' = [result EXCEPT ![t] = "failed"]
        /\ UNCHANGED <<lock, op_count, fd_vars, index, request_vars, target, filter_vars, dereg>>
    BY <1>17, ReadFailsMoves
  <2> QED
    BY <1>t, <2>1 DEF JatcTypeOK
<1>18. ASSUME NEW t \in Readers, ReadUnlock(t) PROVE JatcTypeOK'
  BY <1>18, <1>t, <1>o, <1>e, <1>m
     DEF ReadUnlock, ReaderAt, RemoveReader, JatcTypeOK
<1>19. ASSUME NEW kept \in {s \in Orders : IsInjective(s)}, FilterBegin(kept)
       PROVE  JatcTypeOK'
  <2>1. kept \in Seq(Requests)
    BY <1>19, KeptFacts
  <2>2. filters' \in 0 .. MaxFilters
    BY <1>19, <1>t, JatcAssumption DEF FilterBegin, JatcTypeOK
  <2>3. index' \in [Requests -> Nat]
    BY <1>19, <1>t, <1>m DEF FilterBegin, JatcTypeOK
  <2> QED
    BY <1>19, <1>t, <2>1, <2>2, <2>3 DEF FilterBegin, FilterAt, JatcTypeOK
<1>20. ASSUME FilterReadLock PROVE JatcTypeOK'
  BY <1>20, <1>t, <1>o, <1>e, <1>m
     DEF FilterReadLock, FilterAt, AddReader, JatcTypeOK
<1>21. ASSUME FilterTest PROVE JatcTypeOK'
  <2>1. /\ fpc' \in {"release", "asleep"}
        /\ UNCHANGED <<op_count, fd_vars, index, request_vars, reader_vars, entries, buffers, filters, dereg>>
    BY <1>21, FilterTestMoves
  <2>2. lock' \in Int
    <3>1. lock' = lock \/ lock' = lock - 1
      BY <1>21, FilterTestMoves
    <3> QED
      BY <1>t, <3>1 DEF JatcTypeOK
  <2> QED
    BY <1>t, <2>1, <2>2 DEF JatcTypeOK
<1>22. ASSUME FilterRelease PROVE JatcTypeOK'
  BY <1>22, <1>t, <1>o, <1>e, <1>m
     DEF FilterRelease, FilterAt, RemoveReader, JatcTypeOK
<1>23. ASSUME FilterStream PROVE JatcTypeOK'
  BY <1>23, <1>t, <1>o, <1>e, <1>m
     DEF FilterStream, FilterAt, GetFileStream, JatcTypeOK
<1>24. ASSUME FilterSeek PROVE JatcTypeOK'
  <2>1. entries[Len(buffers) + 1] \in Requests
    BY <1>24, <1>t, <1>f, NextListed DEF FilterSeek, JatcTypeOK
  <2> QED
    BY <1>24, <1>t, <2>1 DEF FilterSeek, FilterAt, JatcTypeOK
<1>25. ASSUME FilterRead PROVE JatcTypeOK'
  <2>1. entries[Len(buffers) + 1] \in Requests
    BY <1>25, <1>t, <1>f, NextListed DEF FilterRead, FilterAt, CallsFit, JatcTypeOK
  <2>2. file[cursor + 1] \in Cells
    BY <1>25, <1>t, <1>f, CellFacts DEF FilterRead, JatcTypeOK
  <2>3. [of |-> entries[Len(buffers) + 1], data |-> file[cursor + 1]] \in Buffers
    BY <2>1, <2>2 DEF Buffers, Cells
  <2>4. buffers' \in Seq([of : Requests, data : Requests \cup {Header}])
    BY <1>25, <1>f, <2>3, AppendProperties DEF FilterRead, Buffers
  <2> QED
    BY SMTT(30), <1>25, <1>t, <2>4 DEF FilterRead, FilterAt, JatcTypeOK
<1>26. ASSUME FilterFails PROVE JatcTypeOK'
  <2>1. /\ fpc' = "idle" /\ entries' = <<>> /\ buffers' = <<>>
        /\ UNCHANGED <<lock, op_count, fd_vars, index, request_vars, reader_vars, filters, dereg>>
    BY <1>26, FilterFailsMoves
  <2> QED
    BY <1>t, <1>e, <2>1 DEF JatcTypeOK
<1>27. ASSUME FilterClose PROVE JatcTypeOK'
  BY <1>27, <1>t, <1>o, <1>e, <1>m DEF FilterClose, FilterAt, JatcTypeOK
<1>28. ASSUME FilterCount PROVE JatcTypeOK'
  BY <1>28, <1>t, <1>o, <1>e, <1>m DEF FilterCount, FilterAt, JatcTypeOK
<1>29. ASSUME FilterLock PROVE JatcTypeOK'
  BY <1>29, <1>t, <1>o, <1>e, <1>m
     DEF FilterLock, FilterAt, LockExclusive, JatcTypeOK
<1>30. ASSUME FilterRewrite PROVE JatcTypeOK'
  <2>1. CASE open
    BY <1>30, <1>t, <2>1 DEF FilterRewrite, FilterAt, JatcTypeOK
  <2>2. CASE ~open
    <3>4. Len(buffers) + 1 \in Nat
      BY <1>f, LenProperties
    <3>5. file' = <<Header>> \o [k \in DOMAIN buffers |-> buffers[k].data]
      BY <1>30, <2>2 DEF FilterRewrite
    <3>1. file' \in Seq(Requests \cup {Header})
      BY <1>f, <3>5, RewrittenFacts DEF Cells
    <3>2. ASSUME NEW r \in Requests, \E k \in DOMAIN buffers : buffers[k].of = r
          PROVE  (CHOOSE k \in DOMAIN buffers : buffers[k].of = r) \in Nat
      BY <1>f, <3>2, RewrittenFacts
    <3>3. index' \in [Requests -> Nat]
      <4> DEFINE place(r) == IF \E k \in DOMAIN buffers : buffers[k].of = r
                             THEN CHOOSE k \in DOMAIN buffers : buffers[k].of = r
                             ELSE index[r]
      <4>1. \A r \in Requests : index[r] \in Nat
        BY <1>t DEF JatcTypeOK
      <4>2. \A r \in Requests : place(r) \in Nat
        BY <3>2, <4>1
      <4>3. index' = [r \in Requests |-> place(r)]
        BY <1>30, <2>2 DEF FilterRewrite
      <4> HIDE DEF place
      <4> QED
        BY <4>2, <4>3
    <3> QED
      BY <1>30, <1>t, <2>2, <3>1, <3>3, <3>4 DEF FilterRewrite, FilterAt, JatcTypeOK
  <2> QED
    BY <2>1, <2>2
<1>31. ASSUME FilterAccount PROVE JatcTypeOK'
  <2>1. op_count - 1 \in Nat
    BY <1>31, <1>c, CountFacts DEF FilterAccount, FilterAt, FilterPending
  <2> QED
    BY <1>31, <1>t, <2>1 DEF FilterAccount, FilterAt, JatcTypeOK
<1>32. ASSUME FilterNotify PROVE JatcTypeOK'
  BY <1>32, <1>t, <1>o, <1>e, <1>m
     DEF FilterNotify, FilterAt, NotifyReaders, NotifyDereg, JatcTypeOK
<1>33. ASSUME FilterUnlock PROVE JatcTypeOK'
  BY <1>33, <1>t, <1>o, <1>e, <1>m
     DEF FilterUnlock, FilterAt, UnlockExclusive, JatcTypeOK
<1>34. ASSUME Deregister PROVE JatcTypeOK'
  BY <1>34, <1>t, <1>o, <1>e, <1>m DEF Deregister, DeregAt, JatcTypeOK
<1>35. ASSUME DeregLock PROVE JatcTypeOK'
  BY <1>35, <1>t, <1>o, <1>e, <1>m
     DEF DeregLock, DeregAt, LockExclusive, JatcTypeOK
<1>36. ASSUME DeregTest PROVE JatcTypeOK'
  <2>1. /\ dereg' \in {"close", "asleep"}
        /\ UNCHANGED <<op_count, fd_vars, index, request_vars, reader_vars, filter_vars>>
    BY <1>36, DeregTestMoves
  <2>2. lock' \in Int
    <3>1. lock' = lock \/ lock' = 0
      BY <1>36, DeregTestMoves
    <3> QED
      BY <1>t, <3>1 DEF JatcTypeOK
  <2> QED
    BY <1>t, <2>1, <2>2 DEF JatcTypeOK
<1>37. ASSUME DeregClose PROVE JatcTypeOK'
  BY <1>37, <1>t, <1>o, <1>e, <1>m DEF DeregClose, DeregAt, JatcTypeOK
<1>38. ASSUME DeregUnlock PROVE JatcTypeOK'
  BY <1>38, <1>t, <1>o, <1>e, <1>m
     DEF DeregUnlock, DeregAt, UnlockExclusive, JatcTypeOK
<1>39. ASSUME DeregFree PROVE JatcTypeOK'
  BY <1>39, <1>t, <1>o, <1>e, <1>m DEF DeregFree, DeregAt, JatcTypeOK
<1>40. ASSUME SpuriousWake PROVE JatcTypeOK'
  <2>1. CASE \E t \in Readers : tpc' = [tpc EXCEPT ![t] = "lock"] /\ UNCHANGED <<dereg, fpc>>
    BY <1>40, <1>t, <2>1, SpuriousWakeMoves DEF JatcTypeOK
  <2>2. CASE dereg' = "lock" /\ UNCHANGED <<tpc, fpc>>
    BY <1>40, <1>t, <2>2, SpuriousWakeMoves DEF JatcTypeOK
  <2>3. CASE fpc' = "read_lock" /\ UNCHANGED <<tpc, dereg>>
    BY <1>40, <1>t, <2>3, SpuriousWakeMoves DEF JatcTypeOK
  <2> QED
    BY <1>40, <2>1, <2>2, <2>3, SpuriousWakeMoves
<1>41. ASSUME UNCHANGED jvars PROVE JatcTypeOK'
  BY <1>41, <1>t, <1>o, <1>e, <1>m DEF JatcTypeOK
<1> QED
  BY <1>1, <1>2, <1>3, <1>4, <1>5, <1>6, <1>7, <1>8, <1>9, <1>10, <1>11, <1>12,
     <1>13, <1>14, <1>15, <1>16, <1>17, <1>18, <1>19, <1>20, <1>21, <1>22,
     <1>23, <1>24, <1>25, <1>26, <1>27, <1>28, <1>29, <1>30, <1>31, <1>32,
     <1>33, <1>34, <1>35, <1>36, <1>37, <1>38, <1>39, <1>40, <1>41
     DEF JatcStep, JatcNext, Request, Read, Filter, Deregistration, Terminated

-----------------------------------------------------------------------------
(* The lock.                                                               *)

(* A shared lock is held by a reader, and by no more of them than it says. *)
LEMMA SharersFinite ==
  /\ IsFiniteSet(Sharers)
  /\ Cardinality(Sharers) \in Nat
  /\ Cardinality(Sharers) = 0 <=> Sharers = {}
<1>1. Sharers \subseteq Readers
  BY DEF Sharers
<1>2. IsFiniteSet(Sharers)
  BY <1>1, JatcAssumption, FS_Subset
<1> QED
  BY <1>2, FS_CardinalityType, FS_EmptySet

(* What the value of the lock says.                                        *)
LEMMA LockFacts ==
  ASSUME LockFits
  PROVE  /\ lock = 0 => ~Owned /\ Sharers = {} /\ ~FilterShares
         /\ lock >= 0 => ~Owned
         /\ Sharers # {} \/ FilterShares => ~Owned
<1>1. Owned => ~(lock >= 0) /\ lock # 0
  BY DEF LockFits, LOCK_W_MASK
<1>2. ~Owned => lock = Cardinality(Sharers) + (IF FilterShares THEN 1 ELSE 0)
  BY DEF LockFits
<1> QED
  BY <1>1, <1>2, SharersFinite DEF LockFits

(* One sharer more or less is what the value says too.                     *)
LEMMA ShareStep ==
  ASSUME LockFits, ~Owned, ~Owned', UNCHANGED fpc,
         NEW t \in Readers,
         \/ Sharers' = Sharers \cup {t} /\ t \notin Sharers /\ lock' = lock + 1
         \/ Sharers' = Sharers \ {t} /\ t \in Sharers /\ lock' = lock - 1
  PROVE  LockFits'
<1>1. lock = Cardinality(Sharers) + (IF FilterShares THEN 1 ELSE 0)
  BY DEF LockFits
<1>2. FilterShares' <=> FilterShares
  BY DEF FilterShares
<1>3. IsFiniteSet(Sharers) /\ Cardinality(Sharers) \in Nat
  BY SharersFinite
<1>4. lock' = Cardinality(Sharers') + (IF FilterShares THEN 1 ELSE 0)
  <2>1. CASE Sharers' = Sharers \cup {t} /\ t \notin Sharers /\ lock' = lock + 1
    <3>1. Cardinality(Sharers') = Cardinality(Sharers) + 1
      BY <1>3, <2>1, FS_AddElement
    <3> QED
      BY <1>1, <1>3, <2>1, <3>1
  <2>2. CASE Sharers' = Sharers \ {t} /\ t \in Sharers /\ lock' = lock - 1
    <3>1. Cardinality(Sharers') = Cardinality(Sharers) - 1
      BY <1>3, <2>2, FS_RemoveElement
    <3> QED
      BY <1>1, <1>3, <2>2, <3>1
  <2> QED
    BY <2>1, <2>2
<1> QED
  BY <1>2, <1>4 DEF LockFits, Owned

(* The filter shares the lock, or no longer does.                          *)
LEMMA FilterShareStep ==
  ASSUME LockFits, ~Owned, ~Owned', UNCHANGED tpc,
         \/ ~FilterShares /\ FilterShares' /\ lock' = lock + 1
         \/ FilterShares /\ ~FilterShares' /\ lock' = lock - 1
         \/ (FilterShares <=> FilterShares') /\ lock' = lock
  PROVE  LockFits'
<1>1. lock = Cardinality(Sharers) + (IF FilterShares THEN 1 ELSE 0)
  BY DEF LockFits
<1>2. Sharers' = Sharers /\ Cardinality(Sharers) \in Nat
  BY SharersFinite DEF Sharers
<1>3. (lock = Cardinality(Sharers) + (IF FilterShares THEN 1 ELSE 0))'
  BY <1>1, <1>2
<1> QED
  BY <1>3 DEF LockFits, Owned

(* The lock is worth what its holders make of it.                          *)
LEMMA LockFitsStep == JatcInv /\ JatcStep => LockFits'
<1> SUFFICES ASSUME JatcInv, JatcStep PROVE LockFits'
  OBVIOUS
<1>t. JatcTypeOK
  BY DEF JatcInv
<1>l. LockFits
  BY DEF JatcInv
<1>n. /\ lock = 0 => ~Owned /\ Sharers = {} /\ ~FilterShares
      /\ lock >= 0 => ~Owned
      /\ Sharers # {} \/ FilterShares => ~Owned
  BY <1>l, LockFacts
<1>1. ASSUME NEW r \in Requests, AddRequest(r) PROVE LockFits'
  BY <1>1, <1>t, <1>l
     DEF AddRequest, RequestAt, JatcTypeOK, LockFits, Owned, RequestOwns,
         FilterOwns, DeregOwns, Sharers, FilterShares
<1>2. ASSUME NEW r \in Requests, WriteCallback(r) PROVE LockFits'
  BY <1>2, <1>t, <1>l
     DEF WriteCallback, RequestAt, JatcTypeOK, LockFits, Owned, RequestOwns,
         FilterOwns, DeregOwns, Sharers, FilterShares
<1>3. ASSUME NEW r \in Requests, RequestLock(r) PROVE LockFits'
  <2>1. ~Owned /\ Sharers = {} /\ ~FilterShares
    BY <1>3, <1>n DEF RequestLock, LockExclusive
  <2> QED
    BY <1>3, <1>t, <2>1
       DEF RequestLock, RequestAt, LockExclusive, JatcTypeOK, LockFits, Owned, RequestOwns,
           FilterOwns, DeregOwns, Sharers, FilterShares
<1>4. ASSUME NEW r \in Requests, WriteSeek(r) PROVE LockFits'
  BY <1>4, <1>t, <1>l
     DEF WriteSeek, RequestAt, GetFileStream, JatcTypeOK, LockFits, Owned,
         RequestOwns, FilterOwns, DeregOwns, Sharers, FilterShares
<1>5. ASSUME NEW r \in Requests, WriteData(r) PROVE LockFits'
  BY SMTT(30), <1>5, <1>t, <1>l
     DEF WriteData, RequestAt, JatcTypeOK, LockFits, Owned, RequestOwns,
         FilterOwns, DeregOwns, Sharers, FilterShares
<1>6. ASSUME NEW r \in Requests, WriteFails(r) PROVE LockFits'
  <2>1. /\ rpc[r] \in {"seek", "write"} /\ rpc' = [rpc EXCEPT ![r] = "account"]
        /\ UNCHANGED <<lock, tpc, fpc, dereg>>
    BY <1>6, WriteFailsMoves
  <2>2. \A s \in Requests : (RequestOwns(s))' <=> RequestOwns(s)
    BY <1>t, <2>1 DEF JatcTypeOK, RequestOwns
  <2> QED
    BY <1>l, <2>1, <2>2
       DEF LockFits, Owned, FilterOwns, DeregOwns, Sharers, FilterShares
<1>7. ASSUME NEW r \in Requests, Account(r) PROVE LockFits'
  BY <1>7, <1>t, <1>l
     DEF Account, RequestAt, JatcTypeOK, LockFits, Owned, RequestOwns,
         FilterOwns, DeregOwns, Sharers, FilterShares
<1>8. ASSUME NEW r \in Requests, Answer(r) PROVE LockFits'
  BY <1>8, <1>t, <1>l
     DEF Answer, RequestAt, JatcTypeOK, LockFits, Owned, RequestOwns,
         FilterOwns, DeregOwns, Sharers, FilterShares
<1>9. ASSUME NEW r \in Requests, RequestNotify(r) PROVE LockFits'
  BY <1>9, <1>t, <1>l
     DEF RequestNotify, RequestAt, NotifyReaders, NotifyFilter, NotifyDereg,
         JatcTypeOK, LockFits, Owned, RequestOwns, FilterOwns, DeregOwns,
         Sharers, FilterShares
<1>10. ASSUME NEW r \in Requests, RequestUnlock(r) PROVE LockFits'
  <2>1. RequestOwns(r) /\ Owned /\ Sharers = {} /\ ~FilterShares
    BY <1>10, <1>l DEF RequestUnlock, RequestAt, RequestOwns, Owned, LockFits
  <2>2. Sharers' = {} /\ lock' = 0 /\ ~FilterShares'
    BY <1>10, <2>1 DEF RequestUnlock, RequestAt, UnlockExclusive, Sharers, FilterShares
  <2>3. ~Owned'
    BY <1>10, <1>t, <1>l, <2>1
       DEF RequestUnlock, RequestAt, JatcTypeOK, LockFits, Owned, RequestOwns, FilterOwns,
           DeregOwns
  <2>4. lock' = Cardinality(Sharers') + 0
    BY <2>2, FS_EmptySet
  <2> QED
    BY <2>2, <2>3, <2>4 DEF LockFits, Owned
<1>11. ASSUME NEW r \in Requests, RequestLeave(r) PROVE LockFits'
  BY <1>11, <1>t, <1>l
     DEF RequestLeave, RequestAt, JatcTypeOK, LockFits, Owned, RequestOwns,
         FilterOwns, DeregOwns, Sharers, FilterShares
<1>12. ASSUME NEW t \in Readers, NEW r \in Requests, ReadBegin(t, r)
       PROVE  LockFits'
  BY <1>12, <1>t, <1>l
     DEF ReadBegin, ReaderAt, HasEntry, JatcTypeOK, LockFits, Owned,
         RequestOwns, FilterOwns, DeregOwns, Sharers, FilterShares
<1>13. ASSUME NEW t \in Readers, ReadLock(t) PROVE LockFits'
  <2>1. ~Owned /\ lock' = lock + 1
    BY <1>13, <1>n DEF ReadLock, AddReader
  <2>2. ~Owned' /\ UNCHANGED fpc
    BY <1>13, <2>1 DEF ReadLock, Owned, RequestOwns, FilterOwns, DeregOwns
  <2>3. Sharers' = Sharers \cup {t} /\ t \notin Sharers
    BY <1>13, <1>t DEF ReadLock, ReaderAt, JatcTypeOK, Sharers
  <2> QED
    BY <1>l, <2>1, <2>2, <2>3, ShareStep
<1>14. ASSUME NEW t \in Readers, ReadTest(t) PROVE LockFits'
  <2>1. UNCHANGED <<request_vars, filter_vars, dereg>> /\ t \in Sharers
    BY <1>14, ReadTestMoves DEF Sharers
  <2>2. ~Owned /\ ~Owned'
    BY <1>n, <2>1 DEF Owned, RequestOwns, FilterOwns, DeregOwns
  <2>3. CASE tpc' = [tpc EXCEPT ![t] = "seek"] /\ lock' = lock
    <3>1. Sharers' = Sharers
      BY <1>14, <1>t, <2>3, ReadTestMoves DEF JatcTypeOK, Sharers
    <3> QED
      BY <1>l, <2>1, <2>2, <2>3, <3>1 DEF LockFits, Owned, FilterShares
  <2>4. CASE tpc' = [tpc EXCEPT ![t] = "asleep"] /\ lock' = lock - 1
    <3>1. Sharers' = Sharers \ {t}
      BY <1>t, <2>4 DEF JatcTypeOK, Sharers
    <3> QED
      BY <1>l, <2>1, <2>2, <2>4, <3>1, ShareStep
  <2> QED
    BY <1>14, <2>3, <2>4, ReadTestMoves
<1>15. ASSUME NEW t \in Readers, ReadSeek(t) PROVE LockFits'
  BY <1>15, <1>t, <1>l
     DEF ReadSeek, ReaderAt, GetFileStream, JatcTypeOK, LockFits, Owned,
         RequestOwns, FilterOwns, DeregOwns, Sharers, FilterShares
<1>16. ASSUME NEW t \in Readers, ReadData(t) PROVE LockFits'
  BY <1>16, <1>t, <1>l
     DEF ReadData, ReaderAt, JatcTypeOK, LockFits, Owned, RequestOwns,
         FilterOwns, DeregOwns, Sharers, FilterShares
<1>17. ASSUME NEW t \in Readers, ReadFails(t) PROVE LockFits'
  <2>1. UNCHANGED Sharers
    BY <1>17, <1>t, ReadFailsMoves DEF JatcTypeOK, Sharers
  <2> QED
    BY <1>17, <1>l, <2>1, ReadFailsMoves
       DEF LockFits, Owned, RequestOwns, FilterOwns, DeregOwns, FilterShares
<1>18. ASSUME NEW t \in Readers, ReadUnlock(t) PROVE LockFits'
  <2>1. Sharers' = Sharers \ {t} /\ t \in Sharers
    BY <1>18, <1>t DEF ReadUnlock, ReaderAt, JatcTypeOK, Sharers
  <2>2. ~Owned /\ lock' = lock - 1
    BY <1>18, <1>n, <2>1 DEF ReadUnlock, RemoveReader
  <2>3. ~Owned' /\ UNCHANGED fpc
    BY <1>18, <2>2 DEF ReadUnlock, Owned, RequestOwns, FilterOwns, DeregOwns
  <2> QED
    BY <1>l, <2>1, <2>2, <2>3, ShareStep
<1>19. ASSUME NEW kept \in {s \in Orders : IsInjective(s)}, FilterBegin(kept)
       PROVE  LockFits'
  BY <1>19, <1>t, <1>l
     DEF FilterBegin, FilterAt, HasEntry, JatcTypeOK, LockFits, Owned,
         RequestOwns, FilterOwns, DeregOwns, Sharers, FilterShares
<1>20. ASSUME FilterReadLock PROVE LockFits'
  <2>1. ~Owned /\ lock' = lock + 1 /\ UNCHANGED tpc
    BY <1>20, <1>n DEF FilterReadLock, AddReader
  <2>2. ~Owned'
    BY <1>20, <2>1
       DEF FilterReadLock, FilterAt, Owned, RequestOwns, FilterOwns, DeregOwns
  <2>3. ~FilterShares /\ FilterShares'
    BY <1>20 DEF FilterReadLock, FilterAt, FilterShares
  <2> QED
    BY <1>l, <2>1, <2>2, <2>3, FilterShareStep
<1>21. ASSUME FilterTest PROVE LockFits'
  <2>1. UNCHANGED <<request_vars, reader_vars, dereg>> /\ FilterShares
    BY <1>21, FilterTestMoves DEF FilterShares
  <2>2. ~Owned /\ ~Owned'
    BY <1>21, <1>n, <2>1, FilterTestMoves DEF Owned, RequestOwns, FilterOwns, DeregOwns
  <2>3. \/ FilterShares' /\ lock' = lock
        \/ ~FilterShares' /\ lock' = lock - 1
    BY <1>21, FilterTestMoves DEF FilterShares
  <2> QED
    BY <1>l, <2>1, <2>2, <2>3, FilterShareStep
<1>22. ASSUME FilterRelease PROVE LockFits'
  <2>1. FilterShares /\ ~FilterShares' /\ lock' = lock - 1 /\ UNCHANGED tpc
    BY <1>22 DEF FilterRelease, FilterAt, FilterShares, RemoveReader
  <2>2. ~Owned
    BY <1>n, <2>1
  <2>3. ~Owned'
    BY <1>22, <2>2
       DEF FilterRelease, FilterAt, Owned, RequestOwns, FilterOwns, DeregOwns
  <2> QED
    BY <1>l, <2>1, <2>2, <2>3, FilterShareStep
<1>23. ASSUME FilterStream PROVE LockFits'
  BY <1>23, <1>t, <1>l
     DEF FilterStream, FilterAt, GetFileStream, JatcTypeOK, LockFits, Owned,
         RequestOwns, FilterOwns, DeregOwns, Sharers, FilterShares
<1>24. ASSUME FilterSeek PROVE LockFits'
  BY <1>24, <1>t, <1>l
     DEF FilterSeek, FilterAt, JatcTypeOK, LockFits, Owned, RequestOwns,
         FilterOwns, DeregOwns, Sharers, FilterShares
<1>25. ASSUME FilterRead PROVE LockFits'
  BY <1>25, <1>t, <1>l
     DEF FilterRead, FilterAt, JatcTypeOK, LockFits, Owned, RequestOwns,
         FilterOwns, DeregOwns, Sharers, FilterShares
<1>26. ASSUME FilterFails PROVE LockFits'
  BY <1>26, <1>t, <1>l, FilterFailsMoves
     DEF JatcTypeOK, LockFits, Owned, RequestOwns, FilterOwns, DeregOwns,
         Sharers, FilterShares
<1>27. ASSUME FilterClose PROVE LockFits'
  BY <1>27, <1>t, <1>l
     DEF FilterClose, FilterAt, JatcTypeOK, LockFits, Owned, RequestOwns,
         FilterOwns, DeregOwns, Sharers, FilterShares
<1>28. ASSUME FilterCount PROVE LockFits'
  BY <1>28, <1>t, <1>l
     DEF FilterCount, FilterAt, JatcTypeOK, LockFits, Owned, RequestOwns,
         FilterOwns, DeregOwns, Sharers, FilterShares
<1>29. ASSUME FilterLock PROVE LockFits'
  <2>1. ~Owned /\ Sharers = {} /\ ~FilterShares
    BY <1>29, <1>n DEF FilterLock, LockExclusive
  <2> QED
    BY <1>29, <1>t, <2>1
       DEF FilterLock, FilterAt, LockExclusive, JatcTypeOK, LockFits, Owned, RequestOwns,
           FilterOwns, DeregOwns, Sharers, FilterShares
<1>30. ASSUME FilterRewrite PROVE LockFits'
  BY <1>30, <1>t, <1>l
     DEF FilterRewrite, FilterAt, JatcTypeOK, LockFits, Owned, RequestOwns,
         FilterOwns, DeregOwns, Sharers, FilterShares
<1>31. ASSUME FilterAccount PROVE LockFits'
  BY <1>31, <1>t, <1>l
     DEF FilterAccount, FilterAt, JatcTypeOK, LockFits, Owned, RequestOwns,
         FilterOwns, DeregOwns, Sharers, FilterShares
<1>32. ASSUME FilterNotify PROVE LockFits'
  BY <1>32, <1>t, <1>l
     DEF FilterNotify, FilterAt, NotifyReaders, NotifyDereg, JatcTypeOK,
         LockFits, Owned, RequestOwns, FilterOwns, DeregOwns, Sharers,
         FilterShares
<1>33. ASSUME FilterUnlock PROVE LockFits'
  <2>1. FilterOwns /\ Owned /\ Sharers = {} /\ ~FilterShares
    BY <1>33, <1>l DEF FilterUnlock, FilterAt, FilterOwns, Owned, LockFits
  <2>2. Sharers' = {} /\ lock' = 0 /\ ~FilterShares'
    BY <1>33, <2>1 DEF FilterUnlock, FilterAt, UnlockExclusive, Sharers, FilterShares
  <2>3. ~Owned'
    BY <1>33, <1>t, <1>l, <2>1
       DEF FilterUnlock, FilterAt, JatcTypeOK, LockFits, Owned, RequestOwns, FilterOwns,
           DeregOwns
  <2>4. lock' = Cardinality(Sharers') + 0
    BY <2>2, FS_EmptySet
  <2> QED
    BY <2>2, <2>3, <2>4 DEF LockFits, Owned
<1>34. ASSUME Deregister PROVE LockFits'
  BY <1>34, <1>t, <1>l
     DEF Deregister, DeregAt, JatcTypeOK, LockFits, Owned, RequestOwns,
         FilterOwns, DeregOwns, Sharers, FilterShares
<1>35. ASSUME DeregLock PROVE LockFits'
  <2>1. ~Owned /\ Sharers = {} /\ ~FilterShares
    BY <1>35, <1>n DEF DeregLock, LockExclusive
  <2> QED
    BY <1>35, <1>t, <2>1
       DEF DeregLock, DeregAt, LockExclusive, JatcTypeOK, LockFits, Owned, RequestOwns,
           FilterOwns, DeregOwns, Sharers, FilterShares
<1>36. ASSUME DeregTest PROVE LockFits'
  <2>1. DeregOwns /\ Owned /\ Sharers = {} /\ ~FilterShares
    BY <1>36, <1>l, DeregTestMoves DEF DeregOwns, Owned, LockFits
  <2>2. Sharers' = {} /\ ~FilterShares' /\ UNCHANGED <<rpc, fpc>>
    BY <1>36, <2>1, DeregTestMoves DEF Sharers, FilterShares
  <2>3. CASE dereg' = "close" /\ lock' = lock
    BY <1>l, <2>1, <2>2, <2>3
       DEF LockFits, Owned, RequestOwns, FilterOwns, DeregOwns
  <2>4. CASE dereg' = "asleep" /\ lock' = 0
    <3>1. ~Owned'
      BY <1>l, <2>1, <2>2, <2>4
         DEF LockFits, Owned, RequestOwns, FilterOwns, DeregOwns
    <3>2. lock' = Cardinality(Sharers') + 0
      BY <2>2, <2>4, FS_EmptySet
    <3> QED
      BY <2>2, <3>1, <3>2 DEF LockFits, Owned
  <2> QED
    BY <1>36, <2>3, <2>4, DeregTestMoves
<1>37. ASSUME DeregClose PROVE LockFits'
  BY <1>37, <1>t, <1>l
     DEF DeregClose, DeregAt, JatcTypeOK, LockFits, Owned, RequestOwns,
         FilterOwns, DeregOwns, Sharers, FilterShares
<1>38. ASSUME DeregUnlock PROVE LockFits'
  <2>1. DeregOwns /\ Owned /\ Sharers = {} /\ ~FilterShares
    BY <1>38, <1>l DEF DeregUnlock, DeregAt, DeregOwns, Owned, LockFits
  <2>2. Sharers' = {} /\ lock' = 0 /\ ~FilterShares'
    BY <1>38, <2>1 DEF DeregUnlock, DeregAt, UnlockExclusive, Sharers, FilterShares
  <2>3. ~Owned'
    BY <1>38, <1>t, <1>l, <2>1
       DEF DeregUnlock, DeregAt, JatcTypeOK, LockFits, Owned, RequestOwns, FilterOwns,
           DeregOwns
  <2>4. lock' = Cardinality(Sharers') + 0
    BY <2>2, FS_EmptySet
  <2> QED
    BY <2>2, <2>3, <2>4 DEF LockFits, Owned
<1>39. ASSUME DeregFree PROVE LockFits'
  BY <1>39, <1>t, <1>l
     DEF DeregFree, DeregAt, JatcTypeOK, LockFits, Owned, RequestOwns,
         FilterOwns, DeregOwns, Sharers, FilterShares
<1>40. ASSUME SpuriousWake PROVE LockFits'
  <2>1. /\ UNCHANGED <<lock, rpc>>
        /\ FilterOwns' <=> FilterOwns
        /\ DeregOwns' <=> DeregOwns
        /\ FilterShares' <=> FilterShares
    BY <1>40, SpuriousWakeMoves DEF FilterOwns, DeregOwns, FilterShares
  <2>2. Sharers' = Sharers
    BY <1>40, <1>t, SpuriousWakeMoves DEF JatcTypeOK, Sharers
  <2> QED
    BY <1>l, <2>1, <2>2 DEF LockFits, Owned, RequestOwns
<1>41. ASSUME UNCHANGED jvars PROVE LockFits'
  BY <1>41, <1>t, <1>l
     DEF JatcTypeOK, LockFits, Owned, RequestOwns, FilterOwns, DeregOwns,
         Sharers, FilterShares
<1> QED
  BY <1>1, <1>2, <1>3, <1>4, <1>5, <1>6, <1>7, <1>8, <1>9, <1>10, <1>11, <1>12,
     <1>13, <1>14, <1>15, <1>16, <1>17, <1>18, <1>19, <1>20, <1>21, <1>22,
     <1>23, <1>24, <1>25, <1>26, <1>27, <1>28, <1>29, <1>30, <1>31, <1>32,
     <1>33, <1>34, <1>35, <1>36, <1>37, <1>38, <1>39, <1>40, <1>41
     DEF JatcStep, JatcNext, Request, Read, Filter, Deregistration, Terminated

-----------------------------------------------------------------------------
(* The deregistration, and what the calls hold on to.                      *)

(* No request has the lock any more when the entrypoint is closed and      *)
(* freed, and no call is under way.                                        *)
LEMMA DeregFitsStep == JatcInv /\ JatcStep => DeregFits'
<1> SUFFICES ASSUME JatcInv, JatcStep PROVE DeregFits'
  OBVIOUS
<1>t. JatcTypeOK /\ DeregFits
  BY DEF JatcInv
<1>1. ASSUME NEW r \in Requests, AddRequest(r) PROVE DeregFits'
  BY <1>1, <1>t DEF AddRequest, RequestAt, JatcTypeOK, DeregFits
<1>2. ASSUME NEW r \in Requests, WriteCallback(r) PROVE DeregFits'
  BY <1>2, <1>t DEF WriteCallback, RequestAt, JatcTypeOK, DeregFits
<1>3. ASSUME NEW r \in Requests, RequestLock(r) PROVE DeregFits'
  BY <1>3, <1>t
     DEF RequestLock, RequestAt, LockExclusive, JatcTypeOK, DeregFits
<1>4. ASSUME NEW r \in Requests, WriteSeek(r) PROVE DeregFits'
  BY <1>4, <1>t DEF WriteSeek, RequestAt, GetFileStream, JatcTypeOK, DeregFits
<1>5. ASSUME NEW r \in Requests, WriteData(r) PROVE DeregFits'
  BY <1>5, <1>t DEF WriteData, RequestAt, JatcTypeOK, DeregFits
<1>6. ASSUME NEW r \in Requests, WriteFails(r) PROVE DeregFits'
  BY <1>6, <1>t, WriteFailsMoves DEF JatcTypeOK, DeregFits
<1>7. ASSUME NEW r \in Requests, Account(r) PROVE DeregFits'
  BY <1>7, <1>t DEF Account, RequestAt, JatcTypeOK, DeregFits
<1>8. ASSUME NEW r \in Requests, Answer(r) PROVE DeregFits'
  BY <1>8, <1>t DEF Answer, RequestAt, JatcTypeOK, DeregFits
<1>9. ASSUME NEW r \in Requests, RequestNotify(r) PROVE DeregFits'
  BY <1>9, <1>t
     DEF RequestNotify, RequestAt, NotifyReaders, NotifyFilter, NotifyDereg,
         JatcTypeOK, DeregFits
<1>10. ASSUME NEW r \in Requests, RequestUnlock(r) PROVE DeregFits'
  BY <1>10, <1>t
     DEF RequestUnlock, RequestAt, UnlockExclusive, JatcTypeOK, DeregFits
<1>11. ASSUME NEW r \in Requests, RequestLeave(r) PROVE DeregFits'
  BY <1>11, <1>t DEF RequestLeave, RequestAt, JatcTypeOK, DeregFits
<1>12. ASSUME NEW t \in Readers, NEW r \in Requests, ReadBegin(t, r)
       PROVE  DeregFits'
  BY <1>12, <1>t DEF ReadBegin, ReaderAt, HasEntry, JatcTypeOK, DeregFits
<1>13. ASSUME NEW t \in Readers, ReadLock(t) PROVE DeregFits'
  BY <1>13, <1>t DEF ReadLock, ReaderAt, AddReader, JatcTypeOK, DeregFits
<1>14. ASSUME NEW t \in Readers, ReadTest(t) PROVE DeregFits'
  BY <1>14, <1>t, ReadTestMoves DEF JatcTypeOK, DeregFits
<1>15. ASSUME NEW t \in Readers, ReadSeek(t) PROVE DeregFits'
  BY <1>15, <1>t DEF ReadSeek, ReaderAt, GetFileStream, JatcTypeOK, DeregFits
<1>16. ASSUME NEW t \in Readers, ReadData(t) PROVE DeregFits'
  BY <1>16, <1>t DEF ReadData, ReaderAt, JatcTypeOK, DeregFits
<1>17. ASSUME NEW t \in Readers, ReadFails(t) PROVE DeregFits'
  BY <1>17, <1>t, ReadFailsMoves DEF JatcTypeOK, DeregFits
<1>18. ASSUME NEW t \in Readers, ReadUnlock(t) PROVE DeregFits'
  BY <1>18, <1>t DEF ReadUnlock, ReaderAt, RemoveReader, JatcTypeOK, DeregFits
<1>19. ASSUME NEW kept \in {s \in Orders : IsInjective(s)}, FilterBegin(kept)
       PROVE  DeregFits'
  BY <1>19, <1>t DEF FilterBegin, FilterAt, HasEntry, JatcTypeOK, DeregFits
<1>20. ASSUME FilterReadLock PROVE DeregFits'
  BY <1>20, <1>t DEF FilterReadLock, FilterAt, AddReader, JatcTypeOK, DeregFits
<1>21. ASSUME FilterTest PROVE DeregFits'
  BY <1>21, <1>t, FilterTestMoves DEF JatcTypeOK, DeregFits
<1>22. ASSUME FilterRelease PROVE DeregFits'
  BY <1>22, <1>t
     DEF FilterRelease, FilterAt, RemoveReader, JatcTypeOK, DeregFits
<1>23. ASSUME FilterStream PROVE DeregFits'
  BY <1>23, <1>t
     DEF FilterStream, FilterAt, GetFileStream, JatcTypeOK, DeregFits
<1>24. ASSUME FilterSeek PROVE DeregFits'
  BY <1>24, <1>t DEF FilterSeek, FilterAt, JatcTypeOK, DeregFits
<1>25. ASSUME FilterRead PROVE DeregFits'
  BY <1>25, <1>t DEF FilterRead, FilterAt, JatcTypeOK, DeregFits
<1>26. ASSUME FilterFails PROVE DeregFits'
  BY <1>26, <1>t, FilterFailsMoves DEF JatcTypeOK, DeregFits
<1>27. ASSUME FilterClose PROVE DeregFits'
  BY <1>27, <1>t DEF FilterClose, FilterAt, JatcTypeOK, DeregFits
<1>28. ASSUME FilterCount PROVE DeregFits'
  BY <1>28, <1>t DEF FilterCount, FilterAt, JatcTypeOK, DeregFits
<1>29. ASSUME FilterLock PROVE DeregFits'
  BY <1>29, <1>t DEF FilterLock, FilterAt, LockExclusive, JatcTypeOK, DeregFits
<1>30. ASSUME FilterRewrite PROVE DeregFits'
  BY <1>30, <1>t DEF FilterRewrite, FilterAt, JatcTypeOK, DeregFits
<1>31. ASSUME FilterAccount PROVE DeregFits'
  BY <1>31, <1>t DEF FilterAccount, FilterAt, JatcTypeOK, DeregFits
<1>32. ASSUME FilterNotify PROVE DeregFits'
  BY <1>32, <1>t
     DEF FilterNotify, FilterAt, NotifyReaders, NotifyDereg, JatcTypeOK,
         DeregFits
<1>33. ASSUME FilterUnlock PROVE DeregFits'
  BY <1>33, <1>t
     DEF FilterUnlock, FilterAt, UnlockExclusive, JatcTypeOK, DeregFits
<1>34. ASSUME Deregister PROVE DeregFits'
  BY <1>34, <1>t DEF Deregister, DeregAt, JatcTypeOK, DeregFits
<1>35. ASSUME DeregLock PROVE DeregFits'
  BY <1>35, <1>t DEF DeregLock, DeregAt, LockExclusive, JatcTypeOK, DeregFits
<1>36. ASSUME DeregTest PROVE DeregFits'
  <2>1. dereg = "test" /\ UNCHANGED <<request_vars, reader_vars, filter_vars>>
    BY <1>36, DeregTestMoves
  <2>2. CASE op_count = 0 /\ dereg' = "close"
    <3>1. PendingRequests = {}
      BY <2>2, CountFacts DEF JatcInv
    <3>2. \A r \in Requests : ~RequestOwns(r)
      BY <2>1 DEF JatcInv, LockFits, DeregOwns
    <3>3. \A r \in Requests : rpc[r] \in {"new", "leave", "done"}
      BY <1>t, <3>1, <3>2 DEF JatcTypeOK, PendingRequests, RequestOwns
    <3> QED
      BY <1>t, <2>1, <2>2, <3>3 DEF DeregFits
  <2>3. CASE dereg' = "asleep"
    BY <1>t, <2>1, <2>3 DEF DeregFits
  <2> QED
    BY <1>36, <2>2, <2>3, DeregTestMoves
<1>37. ASSUME DeregClose PROVE DeregFits'
  BY <1>37, <1>t DEF DeregClose, DeregAt, JatcTypeOK, DeregFits
<1>38. ASSUME DeregUnlock PROVE DeregFits'
  BY <1>38, <1>t
     DEF DeregUnlock, DeregAt, UnlockExclusive, JatcTypeOK, DeregFits
<1>39. ASSUME DeregFree PROVE DeregFits'
  BY <1>39, <1>t DEF DeregFree, DeregAt, JatcTypeOK, DeregFits
<1>40. ASSUME SpuriousWake PROVE DeregFits'
  BY <1>40, <1>t, SpuriousWakeMoves DEF JatcTypeOK, DeregFits
<1>41. ASSUME UNCHANGED jvars PROVE DeregFits'
  BY <1>41, <1>t DEF JatcTypeOK, DeregFits
<1> QED
  BY <1>1, <1>2, <1>3, <1>4, <1>5, <1>6, <1>7, <1>8, <1>9, <1>10, <1>11, <1>12,
     <1>13, <1>14, <1>15, <1>16, <1>17, <1>18, <1>19, <1>20, <1>21, <1>22,
     <1>23, <1>24, <1>25, <1>26, <1>27, <1>28, <1>29, <1>30, <1>31, <1>32,
     <1>33, <1>34, <1>35, <1>36, <1>37, <1>38, <1>39, <1>40, <1>41
     DEF JatcStep, JatcNext, Request, Read, Filter, Deregistration, Terminated

(* Every call works on requests, and a filter reads no further than its    *)
(* list goes.                                                              *)
LEMMA CallsFitStep == JatcInv /\ JatcStep => CallsFit'
<1> SUFFICES ASSUME JatcInv, JatcStep PROVE CallsFit'
  OBVIOUS
<1>t. JatcTypeOK /\ CallsFit
  BY DEF JatcInv
<1>1. ASSUME NEW r \in Requests, AddRequest(r) PROVE CallsFit'
  BY <1>1, <1>t DEF AddRequest, RequestAt, JatcTypeOK, CallsFit
<1>2. ASSUME NEW r \in Requests, WriteCallback(r) PROVE CallsFit'
  BY <1>2, <1>t DEF WriteCallback, RequestAt, JatcTypeOK, CallsFit
<1>3. ASSUME NEW r \in Requests, RequestLock(r) PROVE CallsFit'
  BY <1>3, <1>t DEF RequestLock, RequestAt, LockExclusive, JatcTypeOK, CallsFit
<1>4. ASSUME NEW r \in Requests, WriteSeek(r) PROVE CallsFit'
  BY <1>4, <1>t DEF WriteSeek, RequestAt, GetFileStream, JatcTypeOK, CallsFit
<1>5. ASSUME NEW r \in Requests, WriteData(r) PROVE CallsFit'
  BY <1>5, <1>t DEF WriteData, RequestAt, JatcTypeOK, CallsFit
<1>6. ASSUME NEW r \in Requests, WriteFails(r) PROVE CallsFit'
  BY <1>6, <1>t, WriteFailsMoves DEF JatcTypeOK, CallsFit
<1>7. ASSUME NEW r \in Requests, Account(r) PROVE CallsFit'
  BY <1>7, <1>t DEF Account, RequestAt, JatcTypeOK, CallsFit
<1>8. ASSUME NEW r \in Requests, Answer(r) PROVE CallsFit'
  BY <1>8, <1>t DEF Answer, RequestAt, JatcTypeOK, CallsFit
<1>9. ASSUME NEW r \in Requests, RequestNotify(r) PROVE CallsFit'
  BY <1>9, <1>t
     DEF RequestNotify, RequestAt, NotifyReaders, NotifyFilter, NotifyDereg,
         JatcTypeOK, CallsFit
<1>10. ASSUME NEW r \in Requests, RequestUnlock(r) PROVE CallsFit'
  BY <1>10, <1>t
     DEF RequestUnlock, RequestAt, UnlockExclusive, JatcTypeOK, CallsFit
<1>11. ASSUME NEW r \in Requests, RequestLeave(r) PROVE CallsFit'
  BY <1>11, <1>t DEF RequestLeave, RequestAt, JatcTypeOK, CallsFit
<1>12. ASSUME NEW t \in Readers, NEW r \in Requests, ReadBegin(t, r)
       PROVE  CallsFit'
  BY <1>12, <1>t DEF ReadBegin, ReaderAt, HasEntry, JatcTypeOK, CallsFit
<1>13. ASSUME NEW t \in Readers, ReadLock(t) PROVE CallsFit'
  BY <1>13, <1>t DEF ReadLock, ReaderAt, AddReader, JatcTypeOK, CallsFit
<1>14. ASSUME NEW t \in Readers, ReadTest(t) PROVE CallsFit'
  BY <1>14, <1>t, ReadTestMoves DEF JatcTypeOK, CallsFit
<1>15. ASSUME NEW t \in Readers, ReadSeek(t) PROVE CallsFit'
  BY <1>15, <1>t DEF ReadSeek, ReaderAt, GetFileStream, JatcTypeOK, CallsFit
<1>16. ASSUME NEW t \in Readers, ReadData(t) PROVE CallsFit'
  BY <1>16, <1>t DEF ReadData, ReaderAt, JatcTypeOK, CallsFit
<1>17. ASSUME NEW t \in Readers, ReadFails(t) PROVE CallsFit'
  BY <1>17, <1>t, ReadFailsMoves DEF JatcTypeOK, CallsFit
<1>18. ASSUME NEW t \in Readers, ReadUnlock(t) PROVE CallsFit'
  BY <1>18, <1>t DEF ReadUnlock, ReaderAt, RemoveReader, JatcTypeOK, CallsFit
<1>19. ASSUME NEW kept \in {s \in Orders : IsInjective(s)}, FilterBegin(kept)
       PROVE  CallsFit'
  BY <1>19, <1>t DEF FilterBegin, FilterAt, HasEntry, JatcTypeOK, CallsFit
<1>20. ASSUME FilterReadLock PROVE CallsFit'
  BY <1>20, <1>t DEF FilterReadLock, FilterAt, AddReader, JatcTypeOK, CallsFit
<1>21. ASSUME FilterTest PROVE CallsFit'
  BY <1>21, <1>t, FilterTestMoves DEF JatcTypeOK, CallsFit
<1>22. ASSUME FilterRelease PROVE CallsFit'
  BY <1>22, <1>t
     DEF FilterRelease, FilterAt, RemoveReader, JatcTypeOK, CallsFit
<1>23. ASSUME FilterStream PROVE CallsFit'
  BY <1>23, <1>t
     DEF FilterStream, FilterAt, GetFileStream, JatcTypeOK, CallsFit
<1>24. ASSUME FilterSeek PROVE CallsFit'
  BY <1>24, <1>t DEF FilterSeek, FilterAt, JatcTypeOK, CallsFit
<1>25. ASSUME FilterRead PROVE CallsFit'
  BY <1>25, <1>t DEF FilterRead, FilterAt, JatcTypeOK, CallsFit
<1>26. ASSUME FilterFails PROVE CallsFit'
  BY <1>26, <1>t, FilterFailsMoves DEF JatcTypeOK, CallsFit
<1>27. ASSUME FilterClose PROVE CallsFit'
  BY <1>27, <1>t DEF FilterClose, FilterAt, JatcTypeOK, CallsFit
<1>28. ASSUME FilterCount PROVE CallsFit'
  BY <1>28, <1>t DEF FilterCount, FilterAt, JatcTypeOK, CallsFit
<1>29. ASSUME FilterLock PROVE CallsFit'
  BY <1>29, <1>t DEF FilterLock, FilterAt, LockExclusive, JatcTypeOK, CallsFit
<1>30. ASSUME FilterRewrite PROVE CallsFit'
  BY <1>30, <1>t DEF FilterRewrite, FilterAt, JatcTypeOK, CallsFit
<1>31. ASSUME FilterAccount PROVE CallsFit'
  BY <1>31, <1>t DEF FilterAccount, FilterAt, JatcTypeOK, CallsFit
<1>32. ASSUME FilterNotify PROVE CallsFit'
  BY <1>32, <1>t
     DEF FilterNotify, FilterAt, NotifyReaders, NotifyDereg, JatcTypeOK,
         CallsFit
<1>33. ASSUME FilterUnlock PROVE CallsFit'
  BY <1>33, <1>t
     DEF FilterUnlock, FilterAt, UnlockExclusive, JatcTypeOK, CallsFit
<1>34. ASSUME Deregister PROVE CallsFit'
  BY <1>34, <1>t DEF Deregister, DeregAt, JatcTypeOK, CallsFit
<1>35. ASSUME DeregLock PROVE CallsFit'
  BY <1>35, <1>t DEF DeregLock, DeregAt, LockExclusive, JatcTypeOK, CallsFit
<1>36. ASSUME DeregTest PROVE CallsFit'
  BY <1>36, <1>t, DeregTestMoves DEF JatcTypeOK, CallsFit
<1>37. ASSUME DeregClose PROVE CallsFit'
  BY <1>37, <1>t DEF DeregClose, DeregAt, JatcTypeOK, CallsFit
<1>38. ASSUME DeregUnlock PROVE CallsFit'
  BY <1>38, <1>t
     DEF DeregUnlock, DeregAt, UnlockExclusive, JatcTypeOK, CallsFit
<1>39. ASSUME DeregFree PROVE CallsFit'
  BY <1>39, <1>t DEF DeregFree, DeregAt, JatcTypeOK, CallsFit
<1>40. ASSUME SpuriousWake PROVE CallsFit'
  BY <1>40, <1>t, SpuriousWakeMoves DEF JatcTypeOK, CallsFit
<1>41. ASSUME UNCHANGED jvars PROVE CallsFit'
  BY <1>41, <1>t DEF JatcTypeOK, CallsFit
<1> QED
  BY <1>1, <1>2, <1>3, <1>4, <1>5, <1>6, <1>7, <1>8, <1>9, <1>10, <1>11, <1>12,
     <1>13, <1>14, <1>15, <1>16, <1>17, <1>18, <1>19, <1>20, <1>21, <1>22,
     <1>23, <1>24, <1>25, <1>26, <1>27, <1>28, <1>29, <1>30, <1>31, <1>32,
     <1>33, <1>34, <1>35, <1>36, <1>37, <1>38, <1>39, <1>40, <1>41
     DEF JatcStep, JatcNext, Request, Read, Filter, Deregistration, Terminated

-----------------------------------------------------------------------------
(* The journal, when filters have it for themselves.                       *)

(* While a filter gathers its cells nobody writes or reads; whoever writes *)
(* has the stream for himself.                                             *)
LEMMA AloneFacts ==
  ASSUME AloneInv
  PROVE  /\ Gathering => ~Transferring /\ \A r \in Requests : rpc[r] \notin {"seek", "write"}
         /\ \A r \in Requests : rpc[r] \in {"seek", "write"} =>
              /\ ~Gathering /\ fpc # "rewrite" /\ dereg # "close" /\ ~Transferring
              /\ \A s \in Requests : rpc[s] \in {"seek", "write"} => s = r
         /\ fpc = "rewrite" => ~Transferring
<1>1. Gathering => ~Transferring /\ \A r \in Requests : rpc[r] \notin {"seek", "write"}
  BY DEF AloneInv, FilterAlone, FilterReading, Gathering, Settled, Answered
<1>2. ASSUME NEW r \in Requests, rpc[r] \in {"seek", "write"}
      PROVE  /\ fpc # "rewrite" /\ dereg # "close" /\ Owned
             /\ \A s \in Requests : rpc[s] \in {"seek", "write"} => s = r
  BY <1>2
     DEF AloneInv, JatcInv, LockFits, Owned, RequestOwns, FilterOwns, DeregOwns
<1>3. Owned => ~Transferring
  BY DEF AloneInv, JatcInv, LockFits, Transferring, Sharers
<1>4. fpc = "rewrite" => Owned
  BY DEF Owned, FilterOwns
<1> QED
  BY <1>1, <1>2, <1>3, <1>4

(* A step that leaves the journal, the index and the buffers alone, and    *)
(* neither closes the stream nor begins a write.                           *)
FilesAlone ==
  /\ UNCHANGED <<file, index, buffers, offset, target>>
  /\ open => open'
  /\ dereg' # "freed" => dereg # "freed"
  /\ \A r \in Requests : rpc'[r] = "write" => rpc[r] = "write" /\ UNCHANGED cursor
  /\ fpc' \in {"count", "write_lock", "rewrite"} => fpc \in {"count", "write_lock", "rewrite"}
  /\ \A t \in Readers : tpc'[t] # "idle" => tpc[t] # "idle"

(* Such a step keeps the journal fitting its index.                        *)
LEMMA FilesAloneStep == FileFits /\ FilesAlone => FileFits'
<1> SUFFICES ASSUME FileFits, FilesAlone PROVE FileFits'
  OBVIOUS
<1>1. UNCHANGED <<file, index, buffers, offset, target>>
  BY DEF FilesAlone
<1>2. \A r \in Requests : (Indexed(r))' <=> Indexed(r)
  BY <1>1 DEF Indexed
<1>3. \A r \in Requests : (Rewritten(r))' <=> Rewritten(r)
  BY <1>1 DEF Rewritten
<1>4. (dereg # "freed" =>
       \A r \in Requests : Indexed(r) => index[r] < Len(file) /\ file[index[r] + 1] = r)'
  BY <1>1, <1>2 DEF FileFits, FilesAlone
<1>5. (\A r \in Requests : rpc[r] = "write" =>
       open /\ file # <<>> /\ offset[r] = Len(file) /\ cursor = Len(file))'
  BY <1>1 DEF FileFits, FilesAlone
<1>6. (\A k \in DOMAIN buffers : buffers[k].data = buffers[k].of)'
  BY <1>1 DEF FileFits
<1>7. (fpc \in {"count", "write_lock", "rewrite"} /\ ~open =>
       \A r \in Requests : Indexed(r) => Rewritten(r))'
  BY <1>2, <1>3 DEF FileFits, FilesAlone
<1>8. (\A t \in Readers : tpc[t] # "idle" => Indexed(target[t]))'
  BY <1>1 DEF FileFits, FilesAlone, Indexed
<1> QED
  BY <1>4, <1>5, <1>6, <1>7, <1>8 DEF FileFits

(* What a filter reads goes behind what it has read.                       *)
LEMMA AppendedFacts ==
  ASSUME buffers \in Seq(Buffers), NEW b \in Buffers
  PROVE  LET new == Append(buffers, b)
         IN  /\ DOMAIN new = 1 .. Len(buffers) + 1 /\ DOMAIN buffers = 1 .. Len(buffers)
             /\ new[Len(buffers) + 1] = b
             /\ \A k \in DOMAIN buffers : new[k] = buffers[k]
<1>1. /\ Append(buffers, b) \in Seq(Buffers)
      /\ Len(Append(buffers, b)) = Len(buffers) + 1
      /\ \A k \in 1 .. Len(buffers) : Append(buffers, b)[k] = buffers[k]
      /\ Append(buffers, b)[Len(buffers) + 1] = b
  BY AppendProperties
<1>2. DOMAIN buffers = 1 .. Len(buffers)
  BY LenProperties
<1>3. DOMAIN Append(buffers, b) = 1 .. Len(Append(buffers, b))
  BY <1>1, LenProperties
<1> QED
  BY <1>1, <1>2, <1>3

(* What was written stays where the index says, and a rewrite has all of   *)
(* it in its buffers.                                                      *)
LEMMA FileFitsStep == AloneInv /\ AloneStep => FileFits'
<1> SUFFICES ASSUME AloneInv, AloneStep PROVE FileFits'
  OBVIOUS
<1>t. JatcTypeOK /\ DeregFits /\ CallsFit /\ FileFits /\ GatherFits
  BY DEF AloneInv, JatcInv
<1>w. /\ Gathering => ~Transferring /\ \A r \in Requests : rpc[r] \notin {"seek", "write"}
      /\ \A r \in Requests : rpc[r] \in {"seek", "write"} =>
           /\ ~Gathering /\ fpc # "rewrite" /\ dereg # "close" /\ ~Transferring
           /\ \A s \in Requests : rpc[s] \in {"seek", "write"} => s = r
  BY AloneFacts
<1>f. file \in Seq(Cells) /\ buffers \in Seq(Buffers)
  BY <1>t DEF JatcTypeOK, Cells, Buffers
<1>a. FilesAlone => FileFits'
  BY <1>t, FilesAloneStep
<1>p. ASSUME \A r \in Requests : rpc[r] # "write",
             Len(file) \in Nat, Len(file) # 0 => Opened = file,
             open' = TRUE, file' = Opened,
             UNCHANGED <<index, request_vars, buffers, dereg, target>>,
             \A u \in Readers : tpc'[u] # "idle" => tpc[u] # "idle"
      PROVE  FileFits'
  <2>1. \A s \in Requests : Indexed(s) => index[s] \in Nat
    BY <1>t DEF JatcTypeOK
  <2>2. (dereg # "freed" =>
         \A s \in Requests : Indexed(s) => index[s] < Len(file) /\ file[index[s] + 1] = s)'
    BY <1>p, <1>t, <2>1 DEF FileFits, Indexed
  <2> QED
    BY <1>p, <1>t, <2>2 DEF FileFits, Indexed
<1>1. ASSUME NEW r \in Requests, AddRequest(r) PROVE FileFits'
  <2>1. FilesAlone
    BY <1>1, <1>t DEF AddRequest, RequestAt, FilesAlone, JatcTypeOK
  <2> QED
    BY <1>a, <2>1
<1>2. ASSUME NEW r \in Requests, WriteCallback(r) PROVE FileFits'
  <2>1. FilesAlone
    BY <1>2, <1>t DEF WriteCallback, RequestAt, FilesAlone, JatcTypeOK
  <2> QED
    BY <1>a, <2>1
<1>3. ASSUME NEW r \in Requests, RequestLock(r) PROVE FileFits'
  <2>1. FilesAlone
    BY <1>3, <1>t
       DEF RequestLock, RequestAt, LockExclusive, FilesAlone, JatcTypeOK
  <2> QED
    BY <1>a, <2>1
<1>4. ASSUME NEW r \in Requests, WriteSeek(r) PROVE FileFits'
  <2>1. /\ Len(file) \in Nat /\ Len(Opened) \in Nat \ {0} /\ Opened # <<>>
        /\ Len(file) # 0 => Opened = file
    BY <1>f, OpenedFacts
  <2>2. /\ open' = TRUE /\ file' = Opened /\ cursor' = Len(Opened)
        /\ offset' = [offset EXCEPT ![r] = Len(Opened)]
        /\ rpc[r] = "seek" /\ rpc' = [rpc EXCEPT ![r] = "write"]
        /\ UNCHANGED <<index, reader_vars, filter_vars, dereg>>
    BY <1>4 DEF WriteSeek, RequestAt, GetFileStream
  <2>3. \A s \in Requests : rpc[s] # "write"
    BY <1>w, <2>2
  <2>4. \A s \in Requests : Indexed(s) => index[s] \in Nat
    BY <1>t DEF JatcTypeOK
  <2>5. (dereg # "freed" =>
         \A s \in Requests : Indexed(s) => index[s] < Len(file) /\ file[index[s] + 1] = s)'
    BY <1>t, <2>1, <2>2, <2>4 DEF FileFits, Indexed
  <2>6. (\A s \in Requests : rpc[s] = "write" =>
         open /\ file # <<>> /\ offset[s] = Len(file) /\ cursor = Len(file))'
    BY <1>t, <2>1, <2>2, <2>3 DEF JatcTypeOK
  <2> QED
    BY <1>t, <2>2, <2>5, <2>6 DEF FileFits, Indexed, Rewritten
<1>5. ASSUME NEW r \in Requests, WriteData(r) PROVE FileFits'
  <2>1. /\ Append(file, r) # <<>> /\ Len(file) \in Nat
        /\ Len(Append(file, r)) = Len(file) + 1
        /\ \A k \in 0 .. Len(file) - 1 : Append(file, r)[k + 1] = file[k + 1]
        /\ Append(file, r)[Len(file) + 1] = r
    BY <1>f, WrittenFacts
  <2>2. /\ rpc[r] = "write" /\ rpc' = [rpc EXCEPT ![r] = "account"]
        /\ index' = [index EXCEPT ![r] = offset[r]]
        /\ UNCHANGED <<open, offset, reader_vars, filter_vars, dereg>>
    BY <1>5 DEF WriteData, RequestAt
  <2>3. \A s \in Requests : rpc'[s] # "write"
    BY <1>t, <1>w, <2>2 DEF JatcTypeOK
  <2>4. open /\ offset[r] = Len(file) /\ Len(file) # 0 /\ cursor = Len(file)
    <3>1. open /\ offset[r] = Len(file) /\ file # <<>> /\ cursor = Len(file)
      BY <1>t, <2>2 DEF FileFits
    <3> QED
      BY <1>f, <3>1, EmptySeq
  <2>9. file' = Append(file, r)
    BY <1>5, <2>1, <2>4 DEF WriteData
  <2>5. \A s \in Requests : index'[s] = IF s = r THEN Len(file) ELSE index[s]
    BY <1>t, <2>2, <2>4 DEF JatcTypeOK
  <2>6. \A s \in Requests : index[s] \in Nat
    BY <1>t DEF JatcTypeOK
  <2>7. ASSUME NEW s \in Requests, dereg' # "freed", index'[s] # NoEntry
        PROVE  index'[s] < Len(file') /\ file'[index'[s] + 1] = s
    <3>1. CASE s = r
      BY <2>1, <2>2, <2>5, <2>9, <3>1
    <3>2. CASE s # r
      <4>1. index[s] < Len(file) /\ file[index[s] + 1] = s
        BY <1>t, <2>2, <2>5, <2>7, <3>2 DEF FileFits, Indexed
      <4>2. index[s] \in 0 .. Len(file) - 1
        BY <2>1, <2>6, <4>1
      <4> QED
        BY <2>1, <2>2, <2>5, <2>6, <2>9, <3>2, <4>1, <4>2
    <3> QED
      BY <3>1, <3>2
  <2>8. \A s \in Requests : Indexed(s) => index'[s] # NoEntry
    BY <2>1, <2>4, <2>5 DEF Indexed, NoEntry
  <2>10. (\A t \in Readers : tpc[t] # "idle" => Indexed(target[t]))'
    BY <1>t, <2>2, <2>8 DEF FileFits, CallsFit, Indexed
  <2> QED
    BY <1>t, <2>2, <2>3, <2>4, <2>7, <2>10 DEF FileFits, Indexed
<1>6. ASSUME NEW r \in Requests, WriteFails(r) PROVE FileFits'
  <2>1. FilesAlone
    BY <1>6, <1>t, WriteFailsMoves DEF FilesAlone, JatcTypeOK
  <2> QED
    BY <1>a, <2>1
<1>7. ASSUME NEW r \in Requests, Account(r) PROVE FileFits'
  <2>1. FilesAlone
    BY <1>7, <1>t DEF Account, RequestAt, FilesAlone, JatcTypeOK
  <2> QED
    BY <1>a, <2>1
<1>8. ASSUME NEW r \in Requests, Answer(r) PROVE FileFits'
  <2>1. FilesAlone
    BY <1>8, <1>t DEF Answer, RequestAt, FilesAlone, JatcTypeOK
  <2> QED
    BY <1>a, <2>1
<1>9. ASSUME NEW r \in Requests, RequestNotify(r) PROVE FileFits'
  <2>1. FilesAlone
    BY <1>9, <1>t
       DEF RequestNotify, RequestAt, NotifyReaders, NotifyFilter, NotifyDereg,
           FilesAlone, JatcTypeOK
  <2> QED
    BY <1>a, <2>1
<1>10. ASSUME NEW r \in Requests, RequestUnlock(r) PROVE FileFits'
  <2>1. FilesAlone
    BY <1>10, <1>t
       DEF RequestUnlock, RequestAt, UnlockExclusive, FilesAlone, JatcTypeOK
  <2> QED
    BY <1>a, <2>1
<1>11. ASSUME NEW r \in Requests, RequestLeave(r) PROVE FileFits'
  <2>1. FilesAlone
    BY <1>11, <1>t DEF RequestLeave, RequestAt, FilesAlone, JatcTypeOK
  <2> QED
    BY <1>a, <2>1
<1>12. ASSUME NEW t \in Readers, NEW r \in Requests, ReadBegin(t, r)
       PROVE  FileFits'
  <2>1. /\ UNCHANGED <<fd_vars, index, request_vars, filter_vars, dereg>>
        /\ tpc' = [tpc EXCEPT ![t] = "lock"] /\ target' = [target EXCEPT ![t] = r]
        /\ Indexed(r)
    BY <1>12 DEF ReadBegin, ReaderAt, HasEntry, Indexed
  <2>2. (\A u \in Readers : tpc[u] # "idle" => Indexed(target[u]))'
    BY <1>t, <2>1 DEF JatcTypeOK, FileFits, Indexed
  <2> QED
    BY <1>t, <2>1, <2>2 DEF FileFits, Indexed, Rewritten
<1>13. ASSUME NEW t \in Readers, ReadLock(t) PROVE FileFits'
  <2>1. FilesAlone
    BY <1>13, <1>t DEF ReadLock, ReaderAt, AddReader, FilesAlone, JatcTypeOK
  <2> QED
    BY <1>a, <2>1
<1>14. ASSUME NEW t \in Readers, ReadTest(t) PROVE FileFits'
  <2>1. FilesAlone
    BY <1>14, <1>t, ReadTestMoves DEF FilesAlone, JatcTypeOK
  <2> QED
    BY <1>a, <2>1
<1>15. ASSUME NEW t \in Readers, ReadSeek(t) PROVE FileFits'
  <2>1. /\ Len(file) \in Nat /\ Len(Opened) \in Nat \ {0} /\ Opened # <<>>
        /\ Len(file) # 0 => Opened = file
    BY <1>f, OpenedFacts
  <2>2. /\ open' = TRUE /\ file' = Opened
        /\ UNCHANGED <<index, request_vars, target, filter_vars, dereg>>
        /\ \A u \in Readers : tpc'[u] # "idle" => tpc[u] # "idle"
        /\ Transferring
    BY <1>15, <1>t DEF ReadSeek, ReaderAt, GetFileStream, Transferring, JatcTypeOK
  <2> QED
    BY <1>p, <1>w, <2>1, <2>2
<1>16. ASSUME NEW t \in Readers, ReadData(t) PROVE FileFits'
  <2>1. Transferring
    BY <1>16 DEF ReadData, ReaderAt, Transferring
  <2>2. FilesAlone
    BY <1>16, <1>t, <1>w, <2>1 DEF ReadData, ReaderAt, FilesAlone, JatcTypeOK
  <2> QED
    BY <1>a, <2>2
<1>17. ASSUME NEW t \in Readers, ReadFails(t) PROVE FileFits'
  <2>1. FilesAlone
    BY <1>17, <1>t, ReadFailsMoves DEF FilesAlone, JatcTypeOK
  <2> QED
    BY <1>a, <2>1
<1>18. ASSUME NEW t \in Readers, ReadUnlock(t) PROVE FileFits'
  <2>1. FilesAlone
    BY <1>18, <1>t DEF ReadUnlock, ReaderAt, RemoveReader, FilesAlone, JatcTypeOK
  <2> QED
    BY <1>a, <2>1
<1>19. ASSUME NEW kept \in {s \in Orders : IsInjective(s)}, FilterBegin(kept)
       PROVE  FileFits'
  <2>1. /\ \A u \in Readers : tpc[u] # "idle" => \E k \in DOMAIN kept : kept[k] = target[u]
        /\ fpc' = "read_lock"
        /\ UNCHANGED <<fd_vars, request_vars, reader_vars, buffers, dereg>>
    BY <1>19 DEF FilterBegin, FilterAt
  <2>2. index' = [r \in Requests |-> IF \E k \in DOMAIN kept : kept[k] = r
                                     THEN index[r] ELSE NoEntry]
    BY <1>19 DEF FilterBegin
  <2>3. ASSUME NEW r \in Requests, index'[r] # NoEntry
        PROVE  Indexed(r) /\ index'[r] = index[r]
    BY <2>2, <2>3 DEF Indexed
  <2>4. (dereg # "freed" =>
         \A r \in Requests : Indexed(r) => index[r] < Len(file) /\ file[index[r] + 1] = r)'
    BY <1>t, <2>1, <2>3 DEF FileFits, Indexed
  <2>5. ASSUME NEW t \in Readers, tpc'[t] # "idle"
        PROVE  index'[target'[t]] # NoEntry
    <3>1. target[t] \in Requests /\ Indexed(target[t]) /\ tpc[t] # "idle"
      BY <1>t, <2>1, <2>5 DEF FileFits, CallsFit
    <3>2. index'[target[t]] = index[target[t]]
      BY <2>1, <2>2, <3>1
    <3> QED
      BY <2>1, <3>1, <3>2 DEF Indexed
  <2> QED
    BY <1>t, <2>1, <2>4, <2>5 DEF FileFits, Indexed
<1>20. ASSUME FilterReadLock PROVE FileFits'
  <2>1. FilesAlone
    BY <1>20, <1>t DEF FilterReadLock, FilterAt, AddReader, FilesAlone, JatcTypeOK
  <2> QED
    BY <1>a, <2>1
<1>21. ASSUME FilterTest PROVE FileFits'
  <2>1. FilesAlone
    BY <1>21, <1>t, FilterTestMoves DEF FilesAlone, JatcTypeOK
  <2> QED
    BY <1>a, <2>1
<1>22. ASSUME FilterRelease PROVE FileFits'
  <2>1. FilesAlone
    BY <1>22, <1>t
       DEF FilterRelease, FilterAt, RemoveReader, FilesAlone, JatcTypeOK
  <2> QED
    BY <1>a, <2>1
<1>23. ASSUME FilterStream PROVE FileFits'
  <2>1. /\ Len(file) \in Nat /\ Len(Opened) \in Nat \ {0} /\ Opened # <<>>
        /\ Len(file) # 0 => Opened = file
    BY <1>f, OpenedFacts
  <2>2. /\ open' = TRUE /\ file' = Opened /\ Gathering /\ fpc' = "seek"
        /\ UNCHANGED <<index, request_vars, reader_vars, buffers, dereg>>
    BY <1>23 DEF FilterStream, FilterAt, GetFileStream, Gathering
  <2> QED
    BY <1>p, <1>w, <2>1, <2>2
<1>24. ASSUME FilterSeek PROVE FileFits'
  <2>1. Gathering
    BY <1>24 DEF FilterSeek, FilterAt, Gathering
  <2>2. FilesAlone
    BY <1>24, <1>t, <1>w, <2>1 DEF FilterSeek, FilterAt, FilesAlone, JatcTypeOK
  <2> QED
    BY <1>a, <2>2
<1>25. ASSUME FilterRead PROVE FileFits'
  <2> DEFINE next == entries[Len(buffers) + 1]
  <2>1. /\ Gathering /\ fpc = "read" /\ fpc' = "seek" /\ open
        /\ buffers' = Append(buffers, [of |-> next, data |-> file[cursor + 1]])
        /\ UNCHANGED <<file, open, index, request_vars, reader_vars, dereg>>
    BY <1>25 DEF FilterRead, FilterAt, Gathering
  <2>2. Len(buffers) + 1 \in DOMAIN entries /\ next \in Requests
    BY <1>f, <1>t, <2>1, NextListed DEF CallsFit, JatcTypeOK
  <2>3. Indexed(next) /\ cursor = index[next]
    BY <1>t, <2>1, <2>2 DEF GatherFits, Listed
  <2>4. dereg # "freed"
    BY <1>t, <2>1 DEF DeregFits
  <2>5. file[cursor + 1] = next
    BY <1>t, <2>2, <2>3, <2>4 DEF FileFits
  <2>6. /\ DOMAIN buffers' = 1 .. Len(buffers) + 1 /\ DOMAIN buffers = 1 .. Len(buffers)
        /\ buffers'[Len(buffers) + 1] = [of |-> next, data |-> file[cursor + 1]]
        /\ \A k \in DOMAIN buffers : buffers'[k] = buffers[k]
    <3>1. [of |-> next, data |-> file[cursor + 1]] \in Buffers
      BY <2>2, <2>5 DEF Buffers
    <3> QED
      BY <1>f, <2>1, <3>1, AppendedFacts
  <2>7. (\A k \in DOMAIN buffers : buffers[k].data = buffers[k].of)'
    <3>1. ASSUME NEW k \in DOMAIN buffers' PROVE buffers'[k].data = buffers'[k].of
      <4>1. Len(buffers) \in Nat
        BY <1>f, LenProperties
      <4>2. CASE k = Len(buffers) + 1
        BY <2>5, <2>6, <4>2
      <4>3. CASE k # Len(buffers) + 1
        <5>1. k \in DOMAIN buffers
          BY <2>6, <3>1, <4>1, <4>3
        <5> QED
          BY <1>t, <2>6, <5>1 DEF FileFits
      <4> QED
        BY <4>2, <4>3
    <3> QED
      BY <3>1
  <2>8. \A r \in Requests : rpc'[r] # "write"
    BY <1>w, <2>1
  <2> QED
    BY <1>t, <2>1, <2>7, <2>8 DEF FileFits, Indexed
<1>26. ASSUME FilterFails PROVE FileFits'
  <2>1. /\ buffers' = <<>> /\ fpc' = "idle"
        /\ UNCHANGED <<fd_vars, index, request_vars, reader_vars, dereg>>
    BY <1>26, FilterFailsMoves
  <2>2. DOMAIN buffers' = {}
    BY <2>1
  <2> QED
    BY <1>t, <2>1, <2>2 DEF FileFits, Indexed
<1>27. ASSUME FilterClose PROVE FileFits'
  <2>1. /\ Gathering /\ Len(buffers) = Len(entries)
        /\ open' = FALSE /\ fpc' = "count"
        /\ UNCHANGED <<file, index, request_vars, reader_vars, entries, buffers, dereg>>
    BY <1>27 DEF FilterClose, FilterAt, Gathering
  <2>2. \A r \in Requests : rpc'[r] # "write"
    BY <1>w, <2>1
  <2>3. DOMAIN entries = DOMAIN buffers
    <3>1. entries \in Seq(Requests)
      BY <1>t DEF JatcTypeOK
    <3> QED
      BY <1>f, <2>1, <3>1, LenProperties
  <2>4. \A r \in Requests : Indexed(r) => Rewritten(r)
    BY <1>t, <2>1, <2>3 DEF GatherFits, Listed, Rewritten
  <2> QED
    BY <1>t, <2>1, <2>2, <2>4 DEF FileFits, Indexed, Rewritten
<1>28. ASSUME FilterCount PROVE FileFits'
  <2>1. FilesAlone
    BY <1>28, <1>t DEF FilterCount, FilterAt, FilesAlone, JatcTypeOK
  <2> QED
    BY <1>a, <2>1
<1>29. ASSUME FilterLock PROVE FileFits'
  <2>1. FilesAlone
    BY <1>29, <1>t DEF FilterLock, FilterAt, LockExclusive, FilesAlone, JatcTypeOK
  <2> QED
    BY <1>a, <2>1
<1>30. ASSUME FilterRewrite PROVE FileFits'
  <2>1. /\ fpc = "rewrite" /\ fpc' = "account"
        /\ UNCHANGED <<request_vars, reader_vars, buffers, dereg>>
    BY <1>30 DEF FilterRewrite, FilterAt
  <2>2. \A r \in Requests : rpc[r] # "write"
    BY <1>w, <2>1
  <2>3. CASE open
    <3>1. UNCHANGED <<file, index>>
      BY <1>30, <2>3 DEF FilterRewrite
    <3> QED
      BY <1>t, <2>1, <2>2, <3>1 DEF FileFits, Indexed, Rewritten
  <2>4. CASE ~open
    <3>1. file' = <<Header>> \o [k \in DOMAIN buffers |-> buffers[k].data]
      BY <1>30, <2>4 DEF FilterRewrite
    <3>2. index' = [r \in Requests |->
               IF \E k \in DOMAIN buffers : buffers[k].of = r
               THEN CHOOSE k \in DOMAIN buffers : buffers[k].of = r
               ELSE index[r]]
      BY <1>30, <2>4 DEF FilterRewrite
    <3>3. \A k \in DOMAIN buffers :
            k \in Nat \ {0} /\ k < Len(file') /\ file'[k + 1] = buffers[k].data
      BY <1>f, <3>1, RewrittenFacts
    <3>4. ASSUME NEW r \in Requests, Rewritten(r)
          PROVE  /\ index'[r] # NoEntry /\ index'[r] < Len(file')
                 /\ file'[index'[r] + 1] = r
      <4>1. PICK k \in DOMAIN buffers :
              buffers[k].of = r /\ k = CHOOSE j \in DOMAIN buffers : buffers[j].of = r
        BY <3>4 DEF Rewritten
      <4>2. index'[r] = k
        BY <3>2, <4>1
      <4>3. buffers[k].data = r
        BY <1>t, <4>1 DEF FileFits
      <4> QED
        BY <3>3, <4>2, <4>3 DEF NoEntry
    <3>5. ASSUME NEW r \in Requests, ~Rewritten(r)
          PROVE  index'[r] = NoEntry /\ ~Indexed(r)
      <4>1. ~Indexed(r)
        BY <1>t, <2>1, <2>4, <3>5 DEF FileFits
      <4>2. index'[r] = index[r]
        BY <3>2, <3>5 DEF Rewritten
      <4> QED
        BY <4>1, <4>2 DEF Indexed
    <3> QED
      BY <1>t, <2>1, <2>2, <3>4, <3>5 DEF FileFits, CallsFit, Indexed
  <2> QED
    BY <2>3, <2>4
<1>31. ASSUME FilterAccount PROVE FileFits'
  <2>1. FilesAlone
    BY <1>31, <1>t DEF FilterAccount, FilterAt, FilesAlone, JatcTypeOK
  <2> QED
    BY <1>a, <2>1
<1>32. ASSUME FilterNotify PROVE FileFits'
  <2>1. FilesAlone
    BY <1>32, <1>t
       DEF FilterNotify, FilterAt, NotifyReaders, NotifyDereg, FilesAlone,
           JatcTypeOK
  <2> QED
    BY <1>a, <2>1
<1>33. ASSUME FilterUnlock PROVE FileFits'
  <2>1. /\ buffers' = <<>> /\ fpc' = "idle"
        /\ UNCHANGED <<fd_vars, index, request_vars, reader_vars, dereg>>
    BY <1>33 DEF FilterUnlock, FilterAt
  <2>2. DOMAIN buffers' = {}
    BY <2>1
  <2> QED
    BY <1>t, <2>1, <2>2 DEF FileFits, Indexed
<1>34. ASSUME Deregister PROVE FileFits'
  <2>1. FilesAlone
    BY <1>34, <1>t DEF Deregister, DeregAt, FilesAlone, JatcTypeOK
  <2> QED
    BY <1>a, <2>1
<1>35. ASSUME DeregLock PROVE FileFits'
  <2>1. FilesAlone
    BY <1>35, <1>t DEF DeregLock, DeregAt, LockExclusive, FilesAlone, JatcTypeOK
  <2> QED
    BY <1>a, <2>1
<1>36. ASSUME DeregTest PROVE FileFits'
  <2>1. FilesAlone
    BY <1>36, <1>t, DeregTestMoves DEF FilesAlone, JatcTypeOK
  <2> QED
    BY <1>a, <2>1
<1>37. ASSUME DeregClose PROVE FileFits'
  <2>1. /\ dereg = "close" /\ dereg' = "unlock" /\ open' = FALSE
        /\ UNCHANGED <<file, index, request_vars, reader_vars, filter_vars>>
    BY <1>37 DEF DeregClose, DeregAt
  <2>2. fpc = "idle" /\ \A r \in Requests : rpc[r] # "write"
    BY <1>t, <2>1 DEF DeregFits
  <2> QED
    BY <1>t, <2>1, <2>2 DEF FileFits, Indexed, Rewritten
<1>38. ASSUME DeregUnlock PROVE FileFits'
  <2>1. FilesAlone
    BY <1>38, <1>t
       DEF DeregUnlock, DeregAt, UnlockExclusive, FilesAlone, JatcTypeOK
  <2> QED
    BY <1>a, <2>1
<1>39. ASSUME DeregFree PROVE FileFits'
  <2>1. /\ dereg = "free" /\ dereg' = "freed"
        /\ UNCHANGED <<open, index, request_vars, reader_vars, filter_vars>>
    BY <1>39 DEF DeregFree, DeregAt
  <2>2. fpc = "idle" /\ \A r \in Requests : rpc[r] # "write"
    BY <1>t, <2>1 DEF DeregFits
  <2> QED
    BY <1>t, <2>1, <2>2 DEF FileFits, Indexed, Rewritten
<1>40. ASSUME SpuriousWake PROVE FileFits'
  <2>1. FilesAlone
    BY <1>40, <1>t, SpuriousWakeMoves DEF FilesAlone, JatcTypeOK
  <2> QED
    BY <1>a, <2>1
<1>41. ASSUME UNCHANGED jvars PROVE FileFits'
  <2>1. FilesAlone
    BY <1>41, <1>t DEF FilesAlone
  <2> QED
    BY <1>a, <2>1
<1> QED
  BY <1>1, <1>2, <1>3, <1>4, <1>5, <1>6, <1>7, <1>8, <1>9, <1>10, <1>11, <1>12,
     <1>13, <1>14, <1>15, <1>16, <1>17, <1>18, <1>19, <1>20, <1>21, <1>22,
     <1>23, <1>24, <1>25, <1>26, <1>27, <1>28, <1>29, <1>30, <1>31, <1>32,
     <1>33, <1>34, <1>35, <1>36, <1>37, <1>38, <1>39, <1>40, <1>41
     DEF AloneStep, JatcStep, JatcNext, Request, Read, Filter, Deregistration, Terminated

-----------------------------------------------------------------------------
(* What a filter gathers.                                                  *)

(* A step that changes neither the index, the list and the buffers nor,    *)
(* between seekg() and read(), the stream, and does not begin a filter.    *)
GatherAlone ==
  /\ UNCHANGED <<index, entries, buffers>>
  /\ Gathering' => Gathering
  /\ fpc' = "read" => fpc = "read" /\ UNCHANGED cursor
  /\ fpc' \in {"idle", "read_lock", "test", "asleep", "release", "stream"} =>
       fpc \in {"idle", "read_lock", "test", "asleep", "release", "stream"}

(* Such a step keeps what was gathered.                                    *)
LEMMA GatherAloneStep == GatherFits /\ GatherAlone => GatherFits'
<1> SUFFICES ASSUME GatherFits, GatherAlone PROVE GatherFits'
  OBVIOUS
<1>1. UNCHANGED <<index, entries, buffers>>
  BY DEF GatherAlone
<1>2. (Gathering => \A r \in Requests : Indexed(r) <=> Listed(r))'
  BY <1>1 DEF GatherFits, GatherAlone, Indexed, Listed
<1>3. (Gathering => \A k \in DOMAIN buffers : k \in DOMAIN entries /\ buffers[k].of = entries[k])'
  BY <1>1 DEF GatherFits, GatherAlone
<1>4. (fpc = "read" => cursor = index[entries[Len(buffers) + 1]])'
  BY <1>1 DEF GatherFits, GatherAlone
<1>5. (fpc \in {"idle", "read_lock", "test", "asleep", "release", "stream"} => buffers = <<>>)'
  BY <1>1 DEF GatherFits, GatherAlone
<1> QED
  BY <1>2, <1>3, <1>4, <1>5 DEF GatherFits

(* A filter gathers the cells of the requests it lists, in that order, and *)
(* no other request has an entry meanwhile.                                *)
LEMMA GatherFitsStep == AloneInv /\ AloneStep => GatherFits'
<1> SUFFICES ASSUME AloneInv, AloneStep PROVE GatherFits'
  OBVIOUS
<1>t. JatcTypeOK /\ CallsFit /\ GatherFits
  BY DEF AloneInv, JatcInv
<1>w. Gathering => ~Transferring /\ \A r \in Requests : rpc[r] \notin {"seek", "write"}
  BY AloneFacts
<1>f. file \in Seq(Cells) /\ buffers \in Seq(Buffers)
  BY <1>t DEF JatcTypeOK, Cells, Buffers
<1>a. GatherAlone => GatherFits'
  BY <1>t, GatherAloneStep
<1>1. ASSUME NEW r \in Requests, AddRequest(r) PROVE GatherFits'
  <2>1. GatherAlone
    BY <1>1, <1>t DEF AddRequest, RequestAt, GatherAlone, Gathering, JatcTypeOK
  <2> QED
    BY <1>a, <2>1
<1>2. ASSUME NEW r \in Requests, WriteCallback(r) PROVE GatherFits'
  <2>1. GatherAlone
    BY <1>2, <1>t DEF WriteCallback, RequestAt, GatherAlone, Gathering, JatcTypeOK
  <2> QED
    BY <1>a, <2>1
<1>3. ASSUME NEW r \in Requests, RequestLock(r) PROVE GatherFits'
  <2>1. GatherAlone
    BY <1>3, <1>t
       DEF RequestLock, RequestAt, LockExclusive, GatherAlone, Gathering, JatcTypeOK
  <2> QED
    BY <1>a, <2>1
<1>4. ASSUME NEW r \in Requests, WriteSeek(r) PROVE GatherFits'
  <2>1. ~Gathering
    BY <1>4, <1>w DEF WriteSeek, RequestAt, Transferring
  <2>2. UNCHANGED <<entries, buffers, fpc>>
    BY <1>4 DEF WriteSeek
  <2> QED
    BY <1>t, <2>1, <2>2 DEF GatherFits, Gathering
<1>5. ASSUME NEW r \in Requests, WriteData(r) PROVE GatherFits'
  <2>1. ~Gathering
    BY <1>5, <1>w DEF WriteData, RequestAt, Transferring
  <2>2. UNCHANGED <<entries, buffers, fpc>>
    BY <1>5 DEF WriteData
  <2> QED
    BY <1>t, <2>1, <2>2 DEF GatherFits, Gathering
<1>6. ASSUME NEW r \in Requests, WriteFails(r) PROVE GatherFits'
  <2>1. GatherAlone
    BY <1>6, <1>t, WriteFailsMoves DEF GatherAlone, Gathering, JatcTypeOK
  <2> QED
    BY <1>a, <2>1
<1>7. ASSUME NEW r \in Requests, Account(r) PROVE GatherFits'
  <2>1. GatherAlone
    BY <1>7, <1>t DEF Account, RequestAt, GatherAlone, Gathering, JatcTypeOK
  <2> QED
    BY <1>a, <2>1
<1>8. ASSUME NEW r \in Requests, Answer(r) PROVE GatherFits'
  <2>1. GatherAlone
    BY <1>8, <1>t DEF Answer, RequestAt, GatherAlone, Gathering, JatcTypeOK
  <2> QED
    BY <1>a, <2>1
<1>9. ASSUME NEW r \in Requests, RequestNotify(r) PROVE GatherFits'
  <2>1. GatherAlone
    BY <1>9, <1>t
       DEF RequestNotify, RequestAt, NotifyReaders, NotifyFilter, NotifyDereg,
           GatherAlone, Gathering, JatcTypeOK
  <2> QED
    BY <1>a, <2>1
<1>10. ASSUME NEW r \in Requests, RequestUnlock(r) PROVE GatherFits'
  <2>1. GatherAlone
    BY <1>10, <1>t
       DEF RequestUnlock, RequestAt, UnlockExclusive, GatherAlone, Gathering, JatcTypeOK
  <2> QED
    BY <1>a, <2>1
<1>11. ASSUME NEW r \in Requests, RequestLeave(r) PROVE GatherFits'
  <2>1. GatherAlone
    BY <1>11, <1>t DEF RequestLeave, RequestAt, GatherAlone, Gathering, JatcTypeOK
  <2> QED
    BY <1>a, <2>1
<1>12. ASSUME NEW t \in Readers, NEW r \in Requests, ReadBegin(t, r)
       PROVE  GatherFits'
  <2>1. GatherAlone
    BY <1>12, <1>t DEF ReadBegin, ReaderAt, HasEntry, GatherAlone, Gathering, JatcTypeOK
  <2> QED
    BY <1>a, <2>1
<1>13. ASSUME NEW t \in Readers, ReadLock(t) PROVE GatherFits'
  <2>1. GatherAlone
    BY <1>13, <1>t DEF ReadLock, ReaderAt, AddReader, GatherAlone, Gathering, JatcTypeOK
  <2> QED
    BY <1>a, <2>1
<1>14. ASSUME NEW t \in Readers, ReadTest(t) PROVE GatherFits'
  <2>1. GatherAlone
    BY <1>14, <1>t, ReadTestMoves DEF GatherAlone, Gathering, JatcTypeOK
  <2> QED
    BY <1>a, <2>1
<1>15. ASSUME NEW t \in Readers, ReadSeek(t) PROVE GatherFits'
  <2>1. ~Gathering
    BY <1>15, <1>w DEF ReadSeek, ReaderAt, Transferring
  <2>2. UNCHANGED <<entries, buffers, fpc>>
    BY <1>15 DEF ReadSeek
  <2> QED
    BY <1>t, <2>1, <2>2 DEF GatherFits, Gathering
<1>16. ASSUME NEW t \in Readers, ReadData(t) PROVE GatherFits'
  <2>1. ~Gathering
    BY <1>16, <1>w DEF ReadData, ReaderAt, Transferring
  <2>2. UNCHANGED <<entries, buffers, fpc>>
    BY <1>16 DEF ReadData
  <2> QED
    BY <1>t, <2>1, <2>2 DEF GatherFits, Gathering
<1>17. ASSUME NEW t \in Readers, ReadFails(t) PROVE GatherFits'
  <2>1. GatherAlone
    BY <1>17, <1>t, ReadFailsMoves DEF GatherAlone, Gathering, JatcTypeOK
  <2> QED
    BY <1>a, <2>1
<1>18. ASSUME NEW t \in Readers, ReadUnlock(t) PROVE GatherFits'
  <2>1. GatherAlone
    BY <1>18, <1>t DEF ReadUnlock, ReaderAt, RemoveReader, GatherAlone, Gathering, JatcTypeOK
  <2> QED
    BY <1>a, <2>1
<1>19. ASSUME NEW kept \in {s \in Orders : IsInjective(s)}, FilterBegin(kept)
       PROVE  GatherFits'
  <2>1. /\ fpc = "idle" /\ fpc' = "read_lock" /\ entries' = kept
        /\ \A k \in DOMAIN kept : HasEntry(kept[k])
        /\ UNCHANGED buffers
    BY <1>19 DEF FilterBegin, FilterAt
  <2>2. index' = [r \in Requests |-> IF \E k \in DOMAIN kept : kept[k] = r
                                     THEN index[r] ELSE NoEntry]
    BY <1>19 DEF FilterBegin
  <2>3. buffers = <<>> /\ DOMAIN buffers' = {}
    BY <1>t, <2>1 DEF GatherFits
  <2>4. (\A r \in Requests : Indexed(r) <=> Listed(r))'
    <3>1. ASSUME NEW r \in Requests
          PROVE  index'[r] # NoEntry <=> \E k \in DOMAIN kept : kept[k] = r
      BY <2>1, <2>2 DEF HasEntry
    <3> QED
      BY <2>1, <3>1 DEF Indexed, Listed
  <2> QED
    BY <2>1, <2>3, <2>4 DEF GatherFits
<1>20. ASSUME FilterReadLock PROVE GatherFits'
  <2>1. GatherAlone
    BY <1>20, <1>t
       DEF FilterReadLock, FilterAt, AddReader, GatherAlone, Gathering, JatcTypeOK
  <2> QED
    BY <1>a, <2>1
<1>21. ASSUME FilterTest PROVE GatherFits'
  <2>1. GatherAlone
    BY <1>21, <1>t, FilterTestMoves DEF GatherAlone, Gathering, JatcTypeOK
  <2> QED
    BY <1>a, <2>1
<1>22. ASSUME FilterRelease PROVE GatherFits'
  <2>1. GatherAlone
    BY <1>22, <1>t
       DEF FilterRelease, FilterAt, RemoveReader, GatherAlone, Gathering, JatcTypeOK
  <2> QED
    BY <1>a, <2>1
<1>23. ASSUME FilterStream PROVE GatherFits'
  <2>1. GatherAlone
    BY <1>23, <1>t
       DEF FilterStream, FilterAt, GetFileStream, GatherAlone, Gathering, JatcTypeOK
  <2> QED
    BY <1>a, <2>1
<1>24. ASSUME FilterSeek PROVE GatherFits'
  <2>1. /\ Gathering /\ fpc' = "read"
        /\ cursor' = index[entries[Len(buffers) + 1]]
        /\ UNCHANGED <<index, entries, buffers>>
    BY <1>24 DEF FilterSeek, FilterAt, Gathering
  <2> QED
    BY <1>t, <2>1 DEF GatherFits, Gathering, Indexed, Listed
<1>25. ASSUME FilterRead PROVE GatherFits'
  <2> DEFINE next == entries[Len(buffers) + 1]
  <2>1. /\ Gathering /\ fpc = "read" /\ fpc' = "seek"
        /\ buffers' = Append(buffers, [of |-> next, data |-> file[cursor + 1]])
        /\ cursor < Len(file)
        /\ UNCHANGED <<index, entries>>
    BY <1>25 DEF FilterRead, FilterAt, Gathering
  <2>2. Len(buffers) + 1 \in DOMAIN entries /\ next \in Requests
    BY <1>f, <1>t, <2>1, NextListed DEF CallsFit, JatcTypeOK
  <2>3. file[cursor + 1] \in Cells
    BY <1>f, <1>t, <2>1, CellFacts DEF JatcTypeOK
  <2>4. [of |-> next, data |-> file[cursor + 1]] \in Buffers
    BY <2>2, <2>3 DEF Buffers, Cells
  <2>5. /\ DOMAIN buffers' = 1 .. Len(buffers) + 1 /\ DOMAIN buffers = 1 .. Len(buffers)
        /\ buffers'[Len(buffers) + 1] = [of |-> next, data |-> file[cursor + 1]]
        /\ \A k \in DOMAIN buffers : buffers'[k] = buffers[k]
    BY <1>f, <2>1, <2>4, AppendedFacts
  <2>6. ASSUME NEW k \in DOMAIN buffers'
        PROVE  k \in DOMAIN entries /\ buffers'[k].of = entries[k]
    <3>1. Len(buffers) \in Nat
      BY <1>f, LenProperties
    <3>2. CASE k = Len(buffers) + 1
      BY <2>2, <2>5, <3>2
    <3>3. CASE k # Len(buffers) + 1
      <4>1. k \in DOMAIN buffers
        BY <2>5, <2>6, <3>1, <3>3
      <4> QED
        BY <1>t, <2>1, <2>5, <4>1 DEF GatherFits
    <3> QED
      BY <3>2, <3>3
  <2>7. (\A r \in Requests : Indexed(r) <=> Listed(r))'
    BY <1>t, <2>1 DEF GatherFits, Indexed, Listed
  <2> QED
    BY <2>1, <2>6, <2>7 DEF GatherFits
<1>26. ASSUME FilterFails PROVE GatherFits'
  <2>1. fpc' = "idle" /\ buffers' = <<>>
    BY <1>26, FilterFailsMoves
  <2> QED
    BY <2>1 DEF GatherFits, Gathering
<1>27. ASSUME FilterClose PROVE GatherFits'
  <2>1. fpc' = "count"
    BY <1>27 DEF FilterClose, FilterAt
  <2> QED
    BY <2>1 DEF GatherFits, Gathering
<1>28. ASSUME FilterCount PROVE GatherFits'
  <2>1. GatherAlone
    BY <1>28, <1>t DEF FilterCount, FilterAt, GatherAlone, Gathering, JatcTypeOK
  <2> QED
    BY <1>a, <2>1
<1>29. ASSUME FilterLock PROVE GatherFits'
  <2>1. GatherAlone
    BY <1>29, <1>t
       DEF FilterLock, FilterAt, LockExclusive, GatherAlone, Gathering, JatcTypeOK
  <2> QED
    BY <1>a, <2>1
<1>30. ASSUME FilterRewrite PROVE GatherFits'
  <2>1. fpc' = "account"
    BY <1>30 DEF FilterRewrite, FilterAt
  <2> QED
    BY <2>1 DEF GatherFits, Gathering
<1>31. ASSUME FilterAccount PROVE GatherFits'
  <2>1. GatherAlone
    BY <1>31, <1>t DEF FilterAccount, FilterAt, GatherAlone, Gathering, JatcTypeOK
  <2> QED
    BY <1>a, <2>1
<1>32. ASSUME FilterNotify PROVE GatherFits'
  <2>1. GatherAlone
    BY <1>32, <1>t
       DEF FilterNotify, FilterAt, NotifyReaders, NotifyDereg, GatherAlone,
           Gathering, JatcTypeOK
  <2> QED
    BY <1>a, <2>1
<1>33. ASSUME FilterUnlock PROVE GatherFits'
  <2>1. fpc' = "idle" /\ buffers' = <<>>
    BY <1>33 DEF FilterUnlock, FilterAt
  <2> QED
    BY <2>1 DEF GatherFits, Gathering
<1>34. ASSUME Deregister PROVE GatherFits'
  <2>1. GatherAlone
    BY <1>34, <1>t DEF Deregister, DeregAt, GatherAlone, Gathering, JatcTypeOK
  <2> QED
    BY <1>a, <2>1
<1>35. ASSUME DeregLock PROVE GatherFits'
  <2>1. GatherAlone
    BY <1>35, <1>t DEF DeregLock, DeregAt, LockExclusive, GatherAlone, Gathering, JatcTypeOK
  <2> QED
    BY <1>a, <2>1
<1>36. ASSUME DeregTest PROVE GatherFits'
  <2>1. GatherAlone
    BY <1>36, <1>t, DeregTestMoves DEF GatherAlone, Gathering, JatcTypeOK
  <2> QED
    BY <1>a, <2>1
<1>37. ASSUME DeregClose PROVE GatherFits'
  <2>1. GatherAlone
    BY <1>37, <1>t DEF DeregClose, DeregAt, GatherAlone, Gathering, JatcTypeOK
  <2> QED
    BY <1>a, <2>1
<1>38. ASSUME DeregUnlock PROVE GatherFits'
  <2>1. GatherAlone
    BY <1>38, <1>t
       DEF DeregUnlock, DeregAt, UnlockExclusive, GatherAlone, Gathering, JatcTypeOK
  <2> QED
    BY <1>a, <2>1
<1>39. ASSUME DeregFree PROVE GatherFits'
  <2>1. GatherAlone
    BY <1>39, <1>t DEF DeregFree, DeregAt, GatherAlone, Gathering, JatcTypeOK
  <2> QED
    BY <1>a, <2>1
<1>40. ASSUME SpuriousWake PROVE GatherFits'
  <2>1. GatherAlone
    BY <1>40, <1>t, SpuriousWakeMoves DEF GatherAlone, Gathering, JatcTypeOK
  <2> QED
    BY <1>a, <2>1
<1>41. ASSUME UNCHANGED jvars PROVE GatherFits'
  <2>1. GatherAlone
    BY <1>41, <1>t DEF GatherAlone, Gathering
  <2> QED
    BY <1>a, <2>1
<1> QED
  BY <1>1, <1>2, <1>3, <1>4, <1>5, <1>6, <1>7, <1>8, <1>9, <1>10, <1>11, <1>12,
     <1>13, <1>14, <1>15, <1>16, <1>17, <1>18, <1>19, <1>20, <1>21, <1>22,
     <1>23, <1>24, <1>25, <1>26, <1>27, <1>28, <1>29, <1>30, <1>31, <1>32,
     <1>33, <1>34, <1>35, <1>36, <1>37, <1>38, <1>39, <1>40, <1>41
     DEF AloneStep, JatcStep, JatcNext, Request, Read, Filter, Deregistration, Terminated

-----------------------------------------------------------------------------
(* The stream, when one reader uses it.                                    *)

(* Between its seek and its read nobody else moves the stream.             *)
LEMMA CursorFitsStep ==
  ASSUME OneReader, AloneInv, CursorFits, AloneStep
  PROVE  CursorFits'
<1>t. JatcTypeOK /\ CursorFits
  BY DEF AloneInv, JatcInv
<1>w. /\ Gathering \/ fpc = "rewrite" => ~Transferring
      /\ \A r \in Requests : rpc[r] \in {"seek", "write"} => ~Transferring
  BY AloneFacts
<1>a. ASSUME UNCHANGED <<cursor, index, target>>,
             \A t \in Readers : tpc'[t] = "read" => tpc[t] = "read"
      PROVE  CursorFits'
  BY <1>t, <1>a DEF CursorFits
<1>n. ASSUME ~Transferring, UNCHANGED tpc
      PROVE  CursorFits'
  BY <1>n DEF CursorFits, Transferring
<1>1. ASSUME NEW r \in Requests, AddRequest(r) PROVE CursorFits'
  BY <1>1, <1>t, <1>a DEF AddRequest, RequestAt, JatcTypeOK
<1>2. ASSUME NEW r \in Requests, WriteCallback(r) PROVE CursorFits'
  BY <1>2, <1>t, <1>a DEF WriteCallback, RequestAt, JatcTypeOK
<1>3. ASSUME NEW r \in Requests, RequestLock(r) PROVE CursorFits'
  BY <1>3, <1>t, <1>a DEF RequestLock, RequestAt, LockExclusive, JatcTypeOK
<1>4. ASSUME NEW r \in Requests, WriteSeek(r) PROVE CursorFits'
  <2>1. ~Transferring /\ UNCHANGED tpc
    BY <1>4, <1>w DEF WriteSeek, RequestAt
  <2> QED
    BY <1>n, <2>1
<1>5. ASSUME NEW r \in Requests, WriteData(r) PROVE CursorFits'
  <2>1. ~Transferring /\ UNCHANGED tpc
    BY <1>5, <1>w DEF WriteData, RequestAt
  <2> QED
    BY <1>n, <2>1
<1>6. ASSUME NEW r \in Requests, WriteFails(r) PROVE CursorFits'
  BY <1>6, <1>t, <1>a, WriteFailsMoves DEF JatcTypeOK
<1>7. ASSUME NEW r \in Requests, Account(r) PROVE CursorFits'
  BY <1>7, <1>t, <1>a DEF Account, RequestAt, JatcTypeOK
<1>8. ASSUME NEW r \in Requests, Answer(r) PROVE CursorFits'
  BY <1>8, <1>t, <1>a DEF Answer, RequestAt, JatcTypeOK
<1>9. ASSUME NEW r \in Requests, RequestNotify(r) PROVE CursorFits'
  BY <1>9, <1>t, <1>a
     DEF RequestNotify, RequestAt, NotifyReaders, NotifyFilter, NotifyDereg,
         JatcTypeOK
<1>10. ASSUME NEW r \in Requests, RequestUnlock(r) PROVE CursorFits'
  BY <1>10, <1>t, <1>a
     DEF RequestUnlock, RequestAt, UnlockExclusive, JatcTypeOK
<1>11. ASSUME NEW r \in Requests, RequestLeave(r) PROVE CursorFits'
  BY <1>11, <1>t, <1>a DEF RequestLeave, RequestAt, JatcTypeOK
<1>12. ASSUME NEW t \in Readers, NEW r \in Requests, ReadBegin(t, r)
       PROVE  CursorFits'
  <2>1. tpc' = [tpc EXCEPT ![t] = "lock"]
    BY <1>12 DEF ReadBegin, ReaderAt
  <2>2. \A u \in Readers : tpc'[u] # "read"
    BY <1>t, <2>1 DEF JatcTypeOK, OneReader
  <2> QED
    BY <2>2 DEF CursorFits
<1>13. ASSUME NEW t \in Readers, ReadLock(t) PROVE CursorFits'
  BY <1>13, <1>t, <1>a DEF ReadLock, ReaderAt, AddReader, JatcTypeOK
<1>14. ASSUME NEW t \in Readers, ReadTest(t) PROVE CursorFits'
  <2>1. /\ UNCHANGED <<cursor, index, target>>
        /\ \A u \in Readers : tpc'[u] = "read" => tpc[u] = "read"
    BY <1>14, <1>t, ReadTestMoves DEF JatcTypeOK
  <2> QED
    BY <1>a, <2>1
<1>15. ASSUME NEW t \in Readers, ReadSeek(t) PROVE CursorFits'
  <2>1. cursor' = index[target[t]] /\ UNCHANGED <<index, target>>
    BY <1>15 DEF ReadSeek
  <2>2. \A u \in Readers : u = t
    BY DEF OneReader
  <2> QED
    BY <2>1, <2>2 DEF CursorFits
<1>16. ASSUME NEW t \in Readers, ReadData(t) PROVE CursorFits'
  <2>1. tpc' = [tpc EXCEPT ![t] = "unlock"]
    BY <1>16 DEF ReadData, ReaderAt
  <2>2. \A u \in Readers : tpc'[u] # "read"
    BY <1>t, <2>1 DEF JatcTypeOK, OneReader
  <2> QED
    BY <2>2 DEF CursorFits
<1>17. ASSUME NEW t \in Readers, ReadFails(t) PROVE CursorFits'
  <2>1. /\ UNCHANGED <<cursor, index, target>>
        /\ \A u \in Readers : tpc'[u] = "read" => tpc[u] = "read"
    BY <1>17, <1>t, ReadFailsMoves DEF JatcTypeOK
  <2> QED
    BY <1>a, <2>1
<1>18. ASSUME NEW t \in Readers, ReadUnlock(t) PROVE CursorFits'
  BY <1>18, <1>t, <1>a DEF ReadUnlock, ReaderAt, RemoveReader, JatcTypeOK
<1>19. ASSUME NEW kept \in {s \in Orders : IsInjective(s)}, FilterBegin(kept)
       PROVE  CursorFits'
  <2>1. UNCHANGED tpc /\ fpc' = "read_lock"
    BY <1>19 DEF FilterBegin, FilterAt
  <2>2. ~Transferring'
    BY <2>1 DEF AloneStep, FilterAlone
  <2> QED
    BY <2>2 DEF CursorFits, Transferring
<1>20. ASSUME FilterReadLock PROVE CursorFits'
  BY <1>20, <1>t, <1>a DEF FilterReadLock, FilterAt, AddReader, JatcTypeOK
<1>21. ASSUME FilterTest PROVE CursorFits'
  BY <1>21, <1>t, <1>a, FilterTestMoves DEF JatcTypeOK
<1>22. ASSUME FilterRelease PROVE CursorFits'
  BY <1>22, <1>t, <1>a DEF FilterRelease, FilterAt, RemoveReader, JatcTypeOK
<1>23. ASSUME FilterStream PROVE CursorFits'
  <2>1. ~Transferring /\ UNCHANGED tpc
    BY <1>23, <1>w DEF FilterStream, FilterAt, Gathering
  <2> QED
    BY <1>n, <2>1
<1>24. ASSUME FilterSeek PROVE CursorFits'
  <2>1. ~Transferring /\ UNCHANGED tpc
    BY <1>24, <1>w DEF FilterSeek, FilterAt, Gathering
  <2> QED
    BY <1>n, <2>1
<1>25. ASSUME FilterRead PROVE CursorFits'
  <2>1. ~Transferring /\ UNCHANGED tpc
    BY <1>25, <1>w DEF FilterRead, FilterAt, Gathering
  <2> QED
    BY <1>n, <2>1
<1>26. ASSUME FilterFails PROVE CursorFits'
  BY <1>26, <1>t, <1>a, FilterFailsMoves DEF JatcTypeOK
<1>27. ASSUME FilterClose PROVE CursorFits'
  BY <1>27, <1>t, <1>a DEF FilterClose, FilterAt, JatcTypeOK
<1>28. ASSUME FilterCount PROVE CursorFits'
  BY <1>28, <1>t, <1>a DEF FilterCount, FilterAt, JatcTypeOK
<1>29. ASSUME FilterLock PROVE CursorFits'
  BY <1>29, <1>t, <1>a DEF FilterLock, FilterAt, LockExclusive, JatcTypeOK
<1>30. ASSUME FilterRewrite PROVE CursorFits'
  <2>1. ~Transferring /\ UNCHANGED tpc
    BY <1>30, <1>w DEF FilterRewrite, FilterAt, Gathering
  <2> QED
    BY <1>n, <2>1
<1>31. ASSUME FilterAccount PROVE CursorFits'
  BY <1>31, <1>t, <1>a DEF FilterAccount, FilterAt, JatcTypeOK
<1>32. ASSUME FilterNotify PROVE CursorFits'
  BY <1>32, <1>t, <1>a
     DEF FilterNotify, FilterAt, NotifyReaders, NotifyDereg, JatcTypeOK
<1>33. ASSUME FilterUnlock PROVE CursorFits'
  BY <1>33, <1>t, <1>a DEF FilterUnlock, FilterAt, UnlockExclusive, JatcTypeOK
<1>34. ASSUME Deregister PROVE CursorFits'
  BY <1>34, <1>t, <1>a DEF Deregister, DeregAt, JatcTypeOK
<1>35. ASSUME DeregLock PROVE CursorFits'
  BY <1>35, <1>t, <1>a DEF DeregLock, DeregAt, LockExclusive, JatcTypeOK
<1>36. ASSUME DeregTest PROVE CursorFits'
  BY <1>36, <1>t, <1>a, DeregTestMoves DEF JatcTypeOK
<1>37. ASSUME DeregClose PROVE CursorFits'
  BY <1>37, <1>t, <1>a DEF DeregClose, DeregAt, JatcTypeOK
<1>38. ASSUME DeregUnlock PROVE CursorFits'
  BY <1>38, <1>t, <1>a DEF DeregUnlock, DeregAt, UnlockExclusive, JatcTypeOK
<1>39. ASSUME DeregFree PROVE CursorFits'
  BY <1>39, <1>t, <1>a DEF DeregFree, DeregAt, JatcTypeOK
<1>40. ASSUME SpuriousWake PROVE CursorFits'
  <2>1. /\ UNCHANGED <<cursor, index, target>>
        /\ \A u \in Readers : tpc'[u] = "read" => tpc[u] = "read"
    BY <1>40, <1>t, SpuriousWakeMoves DEF JatcTypeOK
  <2> QED
    BY <1>a, <2>1
<1>41. ASSUME UNCHANGED jvars PROVE CursorFits'
  BY <1>41, <1>t, <1>a DEF JatcTypeOK
<1> QED
  BY <1>1, <1>2, <1>3, <1>4, <1>5, <1>6, <1>7, <1>8, <1>9, <1>10, <1>11, <1>12,
     <1>13, <1>14, <1>15, <1>16, <1>17, <1>18, <1>19, <1>20, <1>21, <1>22,
     <1>23, <1>24, <1>25, <1>26, <1>27, <1>28, <1>29, <1>30, <1>31, <1>32,
     <1>33, <1>34, <1>35, <1>36, <1>37, <1>38, <1>39, <1>40, <1>41
     DEF AloneStep, JatcStep, JatcNext, Request, Read, Filter, Deregistration, Terminated

-----------------------------------------------------------------------------
(* The invariant together.                                                 *)

(* A registered entrypoint, with an empty journal and nobody at it, fits.  *)
LEMMA JatcInvInit == JatcInit => AloneInv /\ CursorFits
<1> SUFFICES ASSUME JatcInit PROVE AloneInv /\ CursorFits
  OBVIOUS
<1>1. /\ <<>> \in Seq(Requests \cup {Header}) /\ <<>> \in Seq(Buffers)
      /\ <<>> \in Seq(Requests)
  BY EmptySeq
<1>2. JatcTypeOK
  <2>1. file \in Seq(Requests \cup {Header})
    BY <1>1 DEF JatcInit
  <2>2. buffers \in Seq([of : Requests, data : Requests \cup {Header}])
    BY <1>1 DEF JatcInit, Buffers
  <2>3. lock \in Int /\ op_count \in Nat /\ cursor \in Nat
    BY DEF JatcInit
  <2>6. open \in BOOLEAN /\ app \in BOOLEAN /\ entries \in Seq(Requests)
    BY <1>1 DEF JatcInit
  <2>5. filters \in 0 .. MaxFilters
    <3>1. filters = 0 /\ MaxFilters \in Nat
      BY JatcAssumption DEF JatcInit
    <3> QED
      BY <3>1
  <2>4. /\ index \in [Requests -> Nat] /\ offset \in [Requests -> Nat]
        /\ target \in [Readers -> Requests \cup {NoEntry}]
    BY DEF JatcInit, NoEntry
  <2> QED
    BY <2>1, <2>2, <2>3, <2>4, <2>5, <2>6 DEF JatcInit, JatcTypeOK
<1>3. CountInv
  BY CountInvInit
<1>4. Sharers = {} /\ ~Owned /\ ~FilterShares
  BY DEF JatcInit, Sharers, Owned, RequestOwns, FilterOwns, DeregOwns, FilterShares
<1>5. Cardinality(Sharers) = 0
  BY <1>4, FS_EmptySet
<1>6. LockFits
  BY <1>4, <1>5 DEF JatcInit, LockFits, Owned
<1>7. DeregFits /\ CallsFit /\ CursorFits
  BY DEF JatcInit, DeregFits, CallsFit, CursorFits
<1>8. FileFits /\ GatherFits
  BY DEF JatcInit, FileFits, GatherFits, Gathering, Indexed, NoEntry
<1>9. FilterAlone
  BY DEF JatcInit, FilterAlone, FilterReading
<1> QED
  BY <1>2, <1>3, <1>6, <1>7, <1>8, <1>9 DEF AloneInv, JatcInv

(* Every step keeps the parts of the invariant together.                   *)
LEMMA JatcInvStep == JatcInv /\ JatcStep => JatcInv'
<1> SUFFICES ASSUME JatcInv, JatcStep PROVE JatcInv'
  OBVIOUS
<1>1. CountInv /\ FailingStep
  BY DEF JatcInv, JatcStep, FailingStep
<1> QED
  BY <1>1, CountInvStep, JatcTypeStep, LockFitsStep, DeregFitsStep, CallsFitStep
     DEF JatcInv

(* So does every step that leaves the filter alone with the file.          *)
LEMMA AloneInvStep == AloneInv /\ AloneStep => AloneInv'
<1> SUFFICES ASSUME AloneInv, AloneStep PROVE AloneInv'
  OBVIOUS
<1>1. JatcInv /\ JatcStep /\ FilterAlone'
  BY DEF AloneInv, AloneStep
<1> QED
  BY <1>1, JatcInvStep, FileFitsStep, GatherFitsStep DEF AloneInv

-----------------------------------------------------------------------------
(* Theorems *)

(* Whatever requests, readers, filters and a deregistration do at the same *)
(* time, as long as the requests get as far as the lock: op_count counts   *)
(* what is pending, the lock is worth what its holders make of it, and a   *)
(* deregistration closes and frees the entrypoint when every request has   *)
(* given the lock back.                                                    *)
THEOREM JatcInvariance == JatcSpec => []JatcInv
<1>1. JatcInit => JatcInv
  BY JatcInvInit DEF AloneInv
<1>2. JatcInv /\ [JatcNext]_jvars => JatcInv'
  BY JatcInvStep DEF JatcStep
<1> QED
  BY <1>1, <1>2, PTL DEF JatcSpec

(* The variables of an entrypoint stay in their types: op_count never goes *)
(* below 0 and no offset points outside the numbers, for any number of     *)
(* requests and readers.                                                   *)
THEOREM JatcTypeCorrect == JatcSpec => []JatcTypeOK
<1>1. JatcInv => JatcTypeOK
  BY DEF JatcInv
<1> QED
  BY <1>1, JatcInvariance, PTL

(* The journal is written by one task at a time, and never while it is     *)
(* read, as long as no request gives up before it has the lock.            *)
THEOREM WritersExcludeHolds == JatcSpec => []WritersExclude
<1>1. ASSUME JatcInv PROVE WritersExclude
  <2>1. \A x, y \in Writing : x = y
    <3> DEFINE atWork == {r \in Requests : rpc[r] \in {"seek", "write"}}
    <3>1. LockFits
      BY <1>1 DEF JatcInv
    <3>2. \A r \in atWork : RequestOwns(r)
      BY DEF RequestOwns
    <3>3. /\ fpc = "rewrite" => FilterOwns
          /\ dereg = "close" => DeregOwns
      BY DEF FilterOwns, DeregOwns
    <3> QED
      BY <3>1, <3>2, <3>3 DEF Writing, LockFits
  <2>2. Cardinality(Writing) <= 1
    <3>1. CASE Writing = {}
      BY <3>1, FS_EmptySet
    <3>2. CASE Writing # {}
      <4>1. PICK x : x \in Writing
        BY <3>2
      <4>2. Writing = {x}
        BY <2>1, <4>1
      <4> QED
        BY <4>2, FS_Singleton
    <3> QED
      BY <3>1, <3>2
  <2>3. Writing # {} => ~Transferring
    <3>1. Writing # {} => Owned
      BY DEF Writing, Owned, RequestOwns, FilterOwns, DeregOwns
    <3>2. Owned => Sharers = {}
      BY <1>1 DEF JatcInv, LockFits
    <3> QED
      BY <3>1, <3>2 DEF Transferring, Sharers
  <2> QED
    BY <2>2, <2>3 DEF WritersExclude
<1> QED
  BY <1>1, JatcInvariance, PTL

(* op_count is the number of operations that are pending, also when        *)
(* requests fail before they have the lock and their error path unlocks    *)
(* what somebody else holds.                                               *)
THEOREM OpCountAccountingHolds ==
  /\ JatcSpec => []OpCountAccounting
  /\ JatcFailingSpec => []OpCountAccounting
<1>1. JatcInit => CountInv
  BY CountInvInit
<1>2. CountInv /\ [JatcNext \/ \E r \in Requests : RequestFails(r)]_jvars => CountInv'
  BY CountInvStep DEF FailingStep
<1>3. CountInv => OpCountAccounting
  BY DEF CountInv, OpCountAccounting, PendingRequests, FilterPending
<1>4. CountInv /\ [JatcNext]_jvars => CountInv'
  BY CountInvStep DEF FailingStep
<1> QED
  BY <1>1, <1>2, <1>3, <1>4, PTL DEF JatcSpec, JatcFailingSpec

(* An entrypoint is freed when every request has given its lock back and   *)
(* every read and filter has returned, and no request begins later: only   *)
(* what unlock() does after its last exchange can still touch it.          *)
THEOREM FreedAfterUnlockHolds == JatcSpec => []FreedAfterUnlock
<1>1. JatcInv => FreedAfterUnlock
  BY DEF JatcInv, DeregFits, FreedAfterUnlock
<1> QED
  BY <1>1, JatcInvariance, PTL

(* With one reader, and filters that have the file for themselves while    *)
(* they read it, an entry that was written and not given up reads back as  *)
(* it was written, wherever rewrites have moved it, also when the stream   *)
(* was opened again, and written to, before the rewrite.  With two readers *)
(* it does not, nor when a request appends while a filter reads.           *)
THEOREM AloneReadsBackHolds ==
  ASSUME OneReader PROVE JatcSpec => AloneReadsBack
<1> DEFINE ReadInv == AloneInv /\ CursorFits /\ ReadsBack
<1>1. JatcInit => ReadInv
  BY JatcInvInit DEF JatcInit, ReadsBack
<1>2. ReadInv /\ [JatcNext]_jvars /\ FilterAlone' => ReadInv'
  <2> SUFFICES ASSUME ReadInv, [JatcNext]_jvars, FilterAlone' PROVE ReadInv'
    OBVIOUS
  <2>s. AloneStep
    BY DEF AloneStep, JatcStep
  <2>i. AloneInv' /\ CursorFits'
    BY <2>s, OneReader, AloneInvStep, CursorFitsStep
  <2> SUFFICES ReadsBack'
    BY <2>i
  <2>t. JatcTypeOK /\ DeregFits /\ CallsFit /\ FileFits
    BY DEF AloneInv, JatcInv
  <2>1. ASSUME NEW t \in Readers, ReadData(t) PROVE ReadsBack'
    <3>1. /\ tpc[t] = "read" /\ cursor = index[target[t]]
          /\ dereg # "freed" /\ target[t] \in Requests /\ Indexed(target[t])
      BY <2>1, <2>t DEF ReadData, ReaderAt, CursorFits, DeregFits, CallsFit, FileFits
    <3>2. cursor < Len(file) /\ file[cursor + 1] = target[t]
      BY <2>t, <3>1 DEF FileFits
    <3>3. result' = [result EXCEPT ![t] = "data"]
      BY <2>1, <3>2 DEF ReadData
    <3> QED
      BY <2>t, <3>3 DEF JatcTypeOK, ReadsBack
  <2>2. ASSUME NEW t \in Readers, ReadFails(t) PROVE ReadsBack'
    <3>1. result' = [result EXCEPT ![t] = "failed"]
      BY <2>2 DEF ReadFails
    <3> QED
      BY <2>t, <3>1 DEF JatcTypeOK, ReadsBack
  <2>3. ASSUME NEW t \in Readers, NEW r \in Requests, ReadBegin(t, r) PROVE ReadsBack'
    <3>1. result' = [result EXCEPT ![t] = "none"]
      BY <2>3 DEF ReadBegin
    <3> QED
      BY <2>t, <3>1 DEF JatcTypeOK, ReadsBack
  <2>4. ASSUME UNCHANGED result PROVE ReadsBack'
    BY <2>4 DEF ReadsBack
  <2>5. ASSUME NEW r \in Requests, AddRequest(r) \/ Request(r) PROVE UNCHANGED result
    BY <2>5
       DEF AddRequest, Request, WriteCallback, RequestLock, WriteSeek,
           WriteData, WriteFails, Account, Answer, RequestNotify, RequestUnlock,
           RequestLeave
  <2>6. ASSUME NEW t \in Readers, ReadLock(t) \/ ReadTest(t) \/ ReadSeek(t) \/ ReadUnlock(t)
        PROVE  UNCHANGED result
    BY <2>6 DEF ReadLock, ReadTest, ReadSeek, ReadUnlock
  <2>7. ASSUME NEW kept, FilterBegin(kept) PROVE UNCHANGED result
    BY <2>7 DEF FilterBegin
  <2>8. ASSUME Filter PROVE UNCHANGED result
    BY <2>8
       DEF Filter, FilterReadLock, FilterTest, FilterRelease, FilterStream,
           FilterSeek, FilterRead, FilterFails, FilterClose, FilterCount,
           FilterLock, FilterRewrite, FilterAccount, FilterNotify, FilterUnlock
  <2>9. ASSUME Deregister \/ Deregistration \/ SpuriousWake \/ Terminated
        PROVE  UNCHANGED result
    BY <2>9
       DEF Deregister, Deregistration, DeregLock, DeregTest, DeregClose,
           DeregUnlock, DeregFree, SpuriousWake, Terminated
  <2> QED
    BY <2>s, <2>1, <2>2, <2>3, <2>4, <2>5, <2>6, <2>7, <2>8, <2>9
       DEF AloneStep, JatcStep, JatcNext, Read
<1> QED
  BY <1>1, <1>2, PTL DEF JatcSpec, AloneReadsBack
=============================================================================
