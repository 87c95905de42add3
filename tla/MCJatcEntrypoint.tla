-------------------------- MODULE MCJatcEntrypoint --------------------------
(* JatcEntrypoint on small instances.                                      *)
EXTENDS JatcEntrypoint

CONSTANTS r1, r2, r3, t1

MCRequests == {r1, r2}

MCThreeRequests == {r1, r2, r3}

MCOneReader == {t1}
=============================================================================
