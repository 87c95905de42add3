-------------------------- MODULE MCSheduleService --------------------------
(* SheduleService on small instances.                                      *)
EXTENDS SheduleService

CONSTANTS a, b, c1, c2

MCTasks == {a, b}

MCOneClient == {c1}

MCClients == {c1, c2}

MCServices == <<"shedule">>
=============================================================================
