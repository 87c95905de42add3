----------------------------- MODULE MCLockGuard -----------------------------
(* LockGuard with the script of a program.                                  *)
EXTENDS LockGuard, TLC

CONSTANTS t1, t2, t3

MCThreads == {t1, t2, t3}

MCKind == t1 :> "exclusive" @@ t2 :> "shared" @@ t3 :> "shared"

(* test_manual_lock() of tests/shared_mutex.cpp, thread by thread.         *)
ManualLockTest ==
  t1 :> <<"construct", "unlock", "wait", "lock", "destruct">> @@
  t2 :> <<"construct", "unlock", "signal", "lock", "unlock", "destruct">> @@
  t3 :> <<"construct", "unlock", "destruct">>
=============================================================================
