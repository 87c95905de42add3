----------------------------- MODULE MCServices -----------------------------
(* Services on small instances.                                            *)
EXTENDS Services, TLC

CONSTANTS a, c1, l1, l2, w

MCTasks == {a}

MCClients == {c1}

MCLogClients == {l1, l2}

MCSymmetry == Permutations(MCLogClients)

MCOneLogClient == {l1}

MCServices == <<"shedule", "log">>

(* The clients of the log log once, or as often as they may while those of *)
(* the scheduler have nothing to do.                                       *)
OneBusy ==
  \/ \A c \in LogClients : sent[c] <= 1
  \/ Added = {} /\ now = 0 /\ \A c \in Clients : cpc[c] = "idle"

BoundedSpec == ServicesInit /\ [][ServicesNext /\ OneBusy']_all_vars
=============================================================================
