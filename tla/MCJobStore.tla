----------------------------- MODULE MCJobStore -----------------------------
(* JobStore on a small instance, for TLC.                                  *)
EXTENDS JobStore, TLC

CONSTANTS c1, c2

MCCallers == {c1, c2}
=============================================================================
