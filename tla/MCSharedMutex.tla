---------------------------- MODULE MCSharedMutex ----------------------------
(* SharedMutex on small instances, in both builds: the constants are those *)
(* of the Linux one on x86, and Windows has exchanges that fail at any     *)
(* time.                                                                   *)
EXTENDS SharedMutex

CONSTANTS t1, t2, t3

MCThreads == {t1, t2, t3}

VARIABLE build              (* the build of the library, chosen at first    *)

Windows == INSTANCE SharedMutex WITH Linux <- FALSE, SpuriousFailure <- TRUE

BuildsInit == Init /\ build \in {"linux", "windows"}

BuildsNext ==
  /\ UNCHANGED build
  /\ \/ build = "linux" /\ Next
     \/ build = "windows" /\ Windows!Next

(* The fairness of SharedMutex, in the Linux build.                        *)
BuildsSpec ==
  /\ BuildsInit /\ [][BuildsNext]_<<vars, build>>
  /\ \A t \in Threads : /\ WF_vars(build = "linux" /\ Step(t))
                        /\ WF_vars(build = "linux" /\ Release(t))

(* Every call of the Linux build returns.                                  *)
LinuxCallsReturn == build = "linux" => CallsReturn
=============================================================================
